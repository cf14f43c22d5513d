--------------------------- MODULE SniProxy_proofs ---------------------------
(***************************************************************************)
(* Proofs about SniProxy, for any number of applications and names, both   *)
(* modes and histories of any length.                                      *)
(***************************************************************************)
EXTENDS SniProxy, TLAPS

-----------------------------------------------------------------------------
(* What is in the queue. *)

Has(q, S) == \E p \in 1..Len(q) : q[p] \in S

(* Whatever of A is in the queue has something of S behind it. *)
Followed(q, A, S) == \A p \in 1..Len(q) : q[p] \in A => \E r \in 1..Len(q) : p < r /\ q[r] \in S

Lost        == {m \in Msg : m.t = "lost"}
Appeared(n) == {m \in Msg : m.t = "appeared" /\ m.k = n}
Vanished(n) == {m \in Msg : m.t = "vanished" /\ m.k = n}
Gone(k)     == {m \in Msg : m.t = "gone" /\ m.k = k}
Adds(a)     == {m \in Msg : m.t \in {"register", "registered"} /\ m.k = a}
Unique      == {m \in Msg : m.t \in {"register", "registered"} /\ m.k \in Apps}
Signals     == {m \in Msg : m.t \in {"registered", "unregistered"}}
Owners      == {m \in Msg : m.t \in {"appeared", "vanished"}}
Brings(k)   == {m \in Msg : \/ m.t = "lost" \/ (m.t = "acquired" /\ k \in Names)
                            \/ m.t \in {"appeared", "registered"} /\ m.k = k}
Takes(k)    == {m \in Msg : \/ m.t \in {"vanished", "unregistered"} /\ m.k = k
                            \/ m.t = "gone" /\ m.k = Src(k)}

-----------------------------------------------------------------------------
(* The inductive invariants. *)

Scanning == plan \in {<<"scan">>, <<"scan", "boot">>}
Booting  == plan \in {<<"boot">>, <<"scan", "boot">>}

(* The state of an item and the blocking call agree, and an item without a    *)
(* name or an object has been counted among the failures.                     *)
CurItem ==
  /\ cur # NoCall => st[cur.k] \in IF cur.stage = "prefetch" THEN {"new"} ELSE {"owning", "waiting"}
  /\ \A k \in Keys : st[k] = "new" => cur # NoCall /\ cur.k = k
  /\ \A k \in Keys : st[k] \in {"waiting", "stuck"} => k \in missed
OwnerKnown == \A k \in Keys : uname[k] = NoApp \/ (k \notin Apps /\ uname[k] = Src(k))

(* The list of items and the panel, outside the renamer. *)
ListOnce ==
  ~ renamer =>
    /\ \A i, j \in 1..Len(registered) : registered[i].k = registered[j].k => i = j
    /\ \A i \in 1..Len(registered) : registered[i].n = 0 /\ st[registered[i].k] = "ready"
    /\ \A k \in Keys : st[k] = "ready" => \E i \in 1..Len(registered) : registered[i].k = k
PanelInv ==
  ~ renamer =>
    /\ panel \cup panelCalls \subseteq Ready
    /\ Ready \subseteq panel \cup panelCalls \cup missed

(* With another watcher in charge, the loss of its name is still to be        *)
(* handled while anything goes by a unique name.                              *)
Settled == passive /\ todo \cap Apps = {} /\ Tracked \cap Apps \subseteq dels
UniqueGoes ==
  watcher = "theirs" =>
    /\ Settled \/ Has(queue, Lost)
    /\ Followed(queue, Unique, Lost)

(* What cannot be in the queue: signals before the subscription, the end of   *)
(* what is there, names behind the filter.                                    *)
Unheard ==
  ~ passive => /\ ~ Booting /\ ~ Has(queue, Signals)
               /\ \A p \in Proxies : st[p] = "none" /\ p \notin todo
Unspoken ==
  /\ \A a \in alive : ~ Has(queue, Gone(a))
  /\ \A p \in Proxies : p \in open \/ serves[p] = NoApp => ~ Has(queue, Gone(p))
  /\ \A p \in open \cup (others \cap Proxies) : serves[p] # NoApp
  /\ filtered => ~ Has(queue, Owners)

(* The other watcher's list follows what has an owner. *)
OtherList ==
  /\ watcher = "ours" => others = {} /\ oqueue = <<>>
  /\ \A n \in owned : Followed(oqueue, Vanished(n), Appeared(n))
  /\ \A n \in Names \ owned : /\ Followed(oqueue, Appeared(n), Vanished(n))
                              /\ n \in others => Has(oqueue, Vanished(n))

(* Whatever is tracked, or about to be, without a live owner has its removal  *)
(* in the queue; but a name we are told of may have no owner to begin with.   *)
Wanted(k) == (st[k] # "none" /\ k \notin dels) \/ k \in todo
Known(k)  == st[k] # "none" /\ k \notin dels /\ uname[k] # NoApp
NameGoes(n) ==
  /\ Known(n) \/ (~ passive /\ Wanted(n)) => Has(queue, Vanished(n))
  /\ Followed(queue, Appeared(n), Vanished(n))
AppGoes(a) ==
  /\ Wanted(a) => Has(queue, Gone(a))
  /\ Followed(queue, Adds(a), Gone(a))
DeadGo ==
  ~ filtered /\ echoes = 0 => /\ \A n \in Names \ owned : NameGoes(n)
                              /\ \A a \in Apps \ alive : AppGoes(a)
                              /\ \A p \in Proxies \ open : Known(p) => Has(queue, Gone(p))

(* Whoever has a name, and whatever the other watcher lists, is tracked or    *)
(* about to be, or the other watcher has still to tell us of it.              *)
Here(k) == Wanted(k) \/ IF k \in Names THEN Scanning ELSE Booting
Safe(k) == Followed(queue, Takes(k), Brings(k)) /\ (Here(k) \/ Has(queue, Brings(k)))
Elsewhere(k) == /\ watcher = "theirs" /\ passive /\ Has(oqueue, Appeared(k))
                /\ k \in others => Has(oqueue, Vanished(k))
Due == {k \in owned : ~ filtered \/ watcher = "theirs"} \cup {p \in others \cap open : watcher = "theirs"}
LiveStay == ~ renamer /\ echoes = 0 => \A k \in Due \ missed : Safe(k) \/ Elsewhere(k)

-----------------------------------------------------------------------------
(* Sequences and functions. *)

LEMMA SeqFacts ==
  ASSUME NEW S, NEW s \in Seq(S)
  PROVE  /\ Len(s) \in Nat /\ \A n \in 1..Len(s) : s[n] \in S
         /\ s # <<>> => /\ Len(s) \in Nat \ {0} /\ Head(s) \in S /\ Head(s) = s[1]
                        /\ Tail(s) \in Seq(S) /\ Len(Tail(s)) = Len(s) - 1
                        /\ \A n \in 1..Len(s) - 1 : Tail(s)[n] = s[n + 1]
  OBVIOUS

LEMMA AppendFacts ==
  ASSUME NEW S, NEW s \in Seq(S), NEW x \in S
  PROVE  /\ Append(s, x) \in Seq(S) /\ Len(Append(s, x)) = Len(s) + 1
         /\ Append(s, x)[Len(s) + 1] = x
         /\ \A n \in 1..Len(s) : Append(s, x)[n] = s[n]
  OBVIOUS

LEMMA EmptySeq == \A S : <<>> \in Seq(S) /\ Len(<<>>) = 0
  OBVIOUS

LEMMA OneElement ==
  ASSUME NEW S, NEW x \in S
  PROVE  <<x>> \in Seq(S) /\ Len(<<x>>) = 1 /\ <<x>>[1] = x
  OBVIOUS

LEMMA Updating ==
  ASSUME NEW S, NEW T, NEW f \in [S -> T], NEW x \in S, NEW v \in T
  PROVE  /\ [f EXCEPT ![x] = v] \in [S -> T] /\ [f EXCEPT ![x] = v][x] = v
         /\ \A y \in S \ {x} : [f EXCEPT ![x] = v][y] = f[y]
  OBVIOUS

LEMMA ConcatFacts ==
  ASSUME NEW S, NEW a \in Seq(S), NEW b \in Seq(S)
  PROVE  /\ a \o b \in Seq(S) /\ Len(a \o b) = Len(a) + Len(b)
         /\ \A j \in 1..Len(a) + Len(b) : (a \o b)[j] = IF j <= Len(a) THEN a[j] ELSE b[j - Len(a)]
  OBVIOUS

LEMMA TakenOut ==
  ASSUME NEW S, NEW s \in Seq(S), NEW i \in 1..Len(s)
  PROVE  LET w == SubSeq(s, 1, i - 1) \o SubSeq(s, i + 1, Len(s))
         IN  /\ w \in Seq(S) /\ Len(w) = Len(s) - 1
             /\ \A j \in 1..Len(s) - 1 : w[j] = IF j < i THEN s[j] ELSE s[j + 1]
<1>1. Len(s) \in Nat /\ i \in Nat /\ i >= 1 /\ i <= Len(s)
  OBVIOUS
<1> DEFINE a == SubSeq(s, 1, i - 1)
           b == SubSeq(s, i + 1, Len(s))
<1>2. a \in Seq(S) /\ Len(a) = i - 1 /\ \A j \in 1..i - 1 : a[j] = s[j]
  BY <1>1
<1>3. b \in Seq(S) /\ Len(b) = Len(s) - i /\ \A j \in 1..Len(s) - i : b[j] = s[j + i]
  BY <1>1
<1> HIDE DEF a, b
<1>4. /\ a \o b \in Seq(S) /\ Len(a \o b) = Len(a) + Len(b)
      /\ \A j \in 1..Len(a) + Len(b) : (a \o b)[j] = IF j <= Len(a) THEN a[j] ELSE b[j - Len(a)]
  BY <1>2, <1>3, ConcatFacts
<1>5. ASSUME NEW j \in 1..Len(s) - 1
      PROVE  (a \o b)[j] = IF j < i THEN s[j] ELSE s[j + 1]
  <2>1. j \in 1..Len(a) + Len(b) /\ (j <= Len(a) <=> j < i)
    BY <1>1, <1>2, <1>3
  <2>2. CASE j < i
    BY <1>1, <1>2, <1>4, <2>1, <2>2
  <2>3. CASE ~ (j < i)
    <3>1. j - Len(a) \in 1..Len(s) - i /\ j - Len(a) + i = j + 1
      BY <1>1, <1>2, <2>3
    <3> QED
      BY <1>3, <1>4, <2>1, <2>3, <3>1
  <2> QED
    BY <2>2, <2>3
<1>6. Len(a \o b) = Len(s) - 1
  BY <1>1, <1>2, <1>3, <1>4
<1> QED
  BY <1>4, <1>5, <1>6 DEF a, b

-----------------------------------------------------------------------------
(* Queues. *)

LEMMA HasAppend ==
  ASSUME NEW q \in Seq(Msg), NEW m \in Msg, NEW S
  PROVE  /\ Has(q, S) => Has(Append(q, m), S)
         /\ m \in S => Has(Append(q, m), S)
<1>1. /\ Len(q) \in Nat /\ Len(Append(q, m)) = Len(q) + 1 /\ Append(q, m)[Len(q) + 1] = m
      /\ \A n \in 1..Len(q) : Append(q, m)[n] = q[n]
  BY AppendFacts, SeqFacts
<1>2. 1..Len(q) \subseteq 1..Len(Append(q, m)) /\ Len(q) + 1 \in 1..Len(Append(q, m))
  BY <1>1
<1> QED
  BY <1>1, <1>2 DEF Has

LEMMA FollowedAppend ==
  ASSUME NEW q \in Seq(Msg), NEW m \in Msg, NEW A, NEW S, m \notin A, Followed(q, A, S) \/ m \in S
  PROVE  Followed(Append(q, m), A, S)
<1> DEFINE r == Append(q, m)
<1>1. /\ Len(q) \in Nat /\ Len(r) = Len(q) + 1 /\ r[Len(q) + 1] = m
      /\ \A n \in 1..Len(q) : r[n] = q[n]
  BY AppendFacts, SeqFacts
<1> HIDE DEF r
<1> SUFFICES ASSUME NEW p \in 1..Len(r), r[p] \in A
             PROVE  \E x \in 1..Len(r) : p < x /\ r[x] \in S
  BY DEF Followed, r
<1>2. p \in 1..Len(q) /\ q[p] \in A
  BY <1>1
<1>3. CASE m \in S
  <2>1. Len(q) + 1 \in 1..Len(r) /\ p < Len(q) + 1
    BY <1>1, <1>2
  <2> QED
    BY <1>1, <1>3, <2>1
<1>4. CASE Followed(q, A, S)
  <2>1. PICK x \in 1..Len(q) : p < x /\ q[x] \in S
    BY <1>2, <1>4 DEF Followed
  <2>2. x \in 1..Len(r) /\ r[x] = q[x]
    BY <1>1
  <2> QED
    BY <2>1, <2>2
<1> QED
  BY <1>3, <1>4

LEMMA HasTail ==
  ASSUME NEW q \in Seq(Msg), q # <<>>, NEW S, Has(q, S), Head(q) \notin S
  PROVE  Has(Tail(q), S)
<1>1. /\ Len(q) \in Nat \ {0} /\ Head(q) = q[1] /\ Len(Tail(q)) = Len(q) - 1
      /\ \A n \in 1..Len(q) - 1 : Tail(q)[n] = q[n + 1]
  BY SeqFacts
<1>2. PICK p \in 1..Len(q) : q[p] \in S
  BY DEF Has
<1>3. p - 1 \in 1..Len(Tail(q)) /\ Tail(q)[p - 1] = q[p]
  <2>1. p # 1
    BY <1>1, <1>2
  <2> QED
    BY <1>1, <2>1
<1> QED
  BY <1>2, <1>3 DEF Has

LEMMA FollowedTail ==
  ASSUME NEW q \in Seq(Msg), q # <<>>, NEW A, NEW S, Followed(q, A, S)
  PROVE  /\ Followed(Tail(q), A, S)
         /\ Head(q) \in A => Has(Tail(q), S)
<1>1. /\ Len(q) \in Nat \ {0} /\ Head(q) = q[1] /\ Len(Tail(q)) = Len(q) - 1
      /\ \A n \in 1..Len(q) - 1 : Tail(q)[n] = q[n + 1]
  BY SeqFacts
<1>2. ASSUME NEW x \in 1..Len(q), x > 1
      PROVE  x - 1 \in 1..Len(Tail(q)) /\ Tail(q)[x - 1] = q[x]
  BY <1>1, <1>2
<1>3. Followed(Tail(q), A, S)
  <2> SUFFICES ASSUME NEW p \in 1..Len(Tail(q)), Tail(q)[p] \in A
               PROVE  \E x \in 1..Len(Tail(q)) : p < x /\ Tail(q)[x] \in S
    BY DEF Followed
  <2>1. p + 1 \in 1..Len(q) /\ q[p + 1] \in A
    BY <1>1
  <2>2. PICK x \in 1..Len(q) : p + 1 < x /\ q[x] \in S
    BY <2>1 DEF Followed
  <2>3. x > 1 /\ p < x - 1
    BY <2>1, <2>2
  <2> QED
    BY <1>2, <2>2, <2>3
<1>4. ASSUME Head(q) \in A PROVE Has(Tail(q), S)
  <2>1. 1 \in 1..Len(q) /\ q[1] \in A
    BY <1>1, <1>4
  <2>2. PICK x \in 1..Len(q) : 1 < x /\ q[x] \in S
    BY <2>1 DEF Followed
  <2> QED
    BY <1>2, <2>2 DEF Has
<1> QED
  BY <1>3, <1>4

LEMMA EmptyHas == \A S : ~ Has(<<>>, S)
  BY EmptySeq DEF Has

-----------------------------------------------------------------------------
(* The parts of the type invariant. *)

ModeType == renamer \in BOOLEAN /\ filtered \in BOOLEAN /\ passive \in BOOLEAN /\ watcher \in {"ours", "theirs"}
QueueType == queue \in Seq(Msg) /\ echoes \in Nat
HandlerType ==
  /\ plan \in {<<>>, <<"scan">>, <<"scan", "boot">>, <<"boot">>}
  /\ todo \subseteq Keys /\ dels \subseteq Keys
  /\ cur \in Call \cup {NoCall} /\ reply \in Apps \cup {NoApp}
ItemType ==
  /\ st \in [Keys -> {"none", "new", "owning", "waiting", "stuck", "ready"}]
  /\ uname \in [Keys -> Apps \cup Proxies \cup {NoApp}] /\ gen \in [Keys -> Nat] /\ counter \in Nat
ListType == registered \in Seq(Advert)
PanelType == panelCalls \subseteq Keys /\ panel \subseteq Keys /\ missed \subseteq Keys /\ failures \in Nat
OutsideType ==
  /\ changes \in Nat /\ alive \subseteq Apps /\ owned \subseteq Names /\ pending \subseteq Apps
  /\ others \subseteq Names \cup Proxies /\ oqueue \in Seq(Msg)
  /\ serves \in [Proxies -> Apps \cup {NoApp}] /\ open \subseteq Proxies

LEMMA TypeParts ==
  TypeOK <=> ModeType /\ QueueType /\ HandlerType /\ ItemType /\ ListType /\ PanelType /\ OutsideType
  BY Zenon DEF TypeOK, ModeType, QueueType, HandlerType, ItemType, ListType, PanelType, OutsideType

LEMMA TypePartsNext ==
  TypeOK' <=> ModeType' /\ QueueType' /\ HandlerType' /\ ItemType' /\ ListType' /\ PanelType' /\ OutsideType'
  BY Zenon DEF TypeOK, ModeType, QueueType, HandlerType, ItemType, ListType, PanelType, OutsideType

LEMMA ModeSame == ModeType /\ UNCHANGED <<renamer, filtered, passive, watcher>> => ModeType'
  BY DEF ModeType
LEMMA QueueSame == QueueType /\ UNCHANGED bus => QueueType'
  BY DEF QueueType, bus
LEMMA HandlerSame == HandlerType /\ UNCHANGED handler => HandlerType'
  BY DEF HandlerType, handler
LEMMA ItemSame == ItemType /\ UNCHANGED <<st, uname, gen, counter>> => ItemType'
  BY DEF ItemType
LEMMA ListSame == ListType /\ UNCHANGED registered => ListType'
  BY DEF ListType
LEMMA PanelSame == PanelType /\ UNCHANGED <<panelCalls, panel, missed, failures>> => PanelType'
  BY DEF PanelType
LEMMA OutsideSame == OutsideType /\ UNCHANGED <<changes, alive, owned, pending, other>> => OutsideType'
  BY DEF OutsideType, other

LEMMA KeyFacts ==
  /\ \A k \in Keys : k \in Apps \/ k \in Names \/ k \in Proxies
  /\ \A n \in Names : n \notin Apps /\ n \notin Proxies /\ n \in Keys /\ Home[n] \in Apps
  /\ \A a \in Apps : a \notin Names /\ a \notin Proxies /\ a \in Keys
  /\ \A p \in Proxies : p \notin Names /\ p \notin Apps /\ p \in Keys
  /\ NoApp \notin Keys
  BY ConstantsAssumption DEF Keys

(* The messages. *)
LEMMA MakeMessage ==
  /\ \A k \in Keys, a \in Apps : M("register", k, a) \in Msg
  /\ \A n \in Names : M("appeared", n, NoApp) \in Msg /\ M("vanished", n, NoApp) \in Msg
  /\ \A k \in Apps \cup Proxies : M("gone", k, NoApp) \in Msg
  /\ M("acquired", NoApp, NoApp) \in Msg /\ M("lost", NoApp, NoApp) \in Msg
  /\ \A k \in Keys : M("registered", k, NoApp) \in Msg /\ M("unregistered", k, NoApp) \in Msg
  BY DEF M, Msg

LEMMA ReadMessage ==
  ASSUME NEW m \in Msg
  PROVE  /\ m.t \in {"register", "appeared", "vanished", "gone", "acquired", "lost", "registered", "unregistered"}
         /\ m.t = "register" => m.k \in Keys /\ m.from \in Apps
         /\ m.t \in {"appeared", "vanished"} => m.k \in Names
         /\ m.t = "gone" => m.k \in Apps \cup Proxies
         /\ m.t \in {"registered", "unregistered"} => m.k \in Keys
  BY DEF Msg

LEMMA MessageFields == \A t, k, a : M(t, k, a).t = t /\ M(t, k, a).k = k /\ M(t, k, a).from = a
  BY DEF M

(* The blocking call. *)
LEMMA CallFields ==
  ASSUME HandlerType, cur # NoCall
  PROVE  cur.k \in Keys /\ cur.stage \in {"prefetch", "acquired"}
  BY DEF HandlerType, Call

LEMMA MakeCall ==
  ASSUME NEW k \in Keys, NEW g \in {"prefetch", "acquired"}
  PROVE  /\ [k |-> k, stage |-> g] \in Call /\ [k |-> k, stage |-> g] # NoCall
         /\ [k |-> k, stage |-> g].k = k /\ [k |-> k, stage |-> g].stage = g
  BY NoCallAssumption DEF Call

(* What a handler may do to the queue: nothing, or an echo of its own signal. *)
Echoed(t, k) == \/ UNCHANGED bus
                \/ /\ queue' = Append(queue, M(t, k, NoApp)) /\ echoes' = echoes + 1
                   /\ watcher = "ours"

LEMMA EmitEchoes ==
  ASSUME NEW t, NEW k, Emit(t, k)
  PROVE  Echoed(t, k)
  BY DEF Emit, Echoed

LEMMA EchoType ==
  ASSUME QueueType, NEW t \in {"registered", "unregistered"}, NEW k \in Keys, Echoed(t, k)
  PROVE  QueueType'
<1>1. M(t, k, NoApp) \in Msg
  BY MakeMessage
<1>2. CASE UNCHANGED bus
  BY <1>2, QueueSame
<1>3. CASE queue' = Append(queue, M(t, k, NoApp)) /\ echoes' = echoes + 1
  BY <1>1, <1>3, AppendFacts DEF QueueType
<1> QED
  BY <1>2, <1>3 DEF Echoed

(* The messages of the bus daemon and of the other watcher. *)
LEMMA ReportQueue ==
  ASSUME TypeOK, NEW m \in Msg, Report(m)
  PROVE  /\ queue' \in Seq(Msg) /\ oqueue' \in Seq(Msg)
         /\ queue' = queue \/ queue' = Append(queue, m)
         /\ ~ filtered => queue' = Append(queue, m)
         /\ filtered /\ m.k \in Names => queue' = queue
         /\ watcher = "theirs" => oqueue' = Append(oqueue, m)
         /\ watcher # "theirs" => oqueue' = oqueue
<1>1. queue \in Seq(Msg) /\ oqueue \in Seq(Msg)
  BY TypeParts DEF QueueType, OutsideType
<1>2. Append(queue, m) \in Seq(Msg) /\ Append(oqueue, m) \in Seq(Msg)
  BY <1>1, AppendFacts
<1> QED
  BY <1>1, <1>2, Zenon DEF Report

LEMMA EmitsQueue ==
  ASSUME TypeOK, NEW t \in {"registered", "unregistered"}, NEW k \in Keys, OtherEmits(t, k)
  PROVE  /\ queue' \in Seq(Msg)
         /\ passive => M(t, k, NoApp) \in Msg /\ queue' = Append(queue, M(t, k, NoApp))
         /\ ~ passive => queue' = queue
<1>1. M(t, k, NoApp) \in Msg
  BY MakeMessage
<1> QED
  BY <1>1, TypeParts, AppendFacts DEF OtherEmits, QueueType

(* What the steps of applications and of the other watcher leave alone. *)
LEMMA AppStepFrame ==
  ASSUME AppStep
  PROVE  UNCHANGED <<renamer, filtered, echoes, handler, passive, items, watcher, others, serves, open>>
  BY DEF AppStep, AppRegisters, AppExits, AppOwns, AppReleases

LEMMA OtherStepFrame ==
  ASSUME OtherStep
  PROVE  UNCHANGED <<renamer, filtered, echoes, handler, passive, items, alive, owned>>
  BY DEF OtherStep, OtherHandles, OtherTakes, OtherLeaves, OtherCloses, OtherAdvertises, OtherDispatch,
     OtherAppeared, OtherRegister, OtherVanished, OtherGone

LEMMA FrameType ==
  ASSUME TypeOK, UNCHANGED <<renamer, filtered, echoes, handler, passive, items>>,
         watcher' \in {"ours", "theirs"}, queue' \in Seq(Msg), OutsideType'
  PROVE  TypeOK'
<1> USE TypeParts DEF items
<1>1. ModeType' /\ QueueType'
  BY DEF ModeType, QueueType
<1> QED
  BY <1>1, TypePartsNext, HandlerSame, ItemSame, ListSame, PanelSame

LEMMA AppStepType ==
  ASSUME TypeOK, AppStep
  PROVE  TypeOK'
<1> USE TypeParts DEF Changes
<1>1. watcher' \in {"ours", "theirs"} /\ UNCHANGED <<others, serves, open>>
  BY AppStepFrame DEF ModeType
<1>2. queue' \in Seq(Msg) /\ oqueue' \in Seq(Msg)
  <2>1. ASSUME NEW a \in Apps, NEW k \in Keys, AppRegisters(a, k) PROVE queue' \in Seq(Msg) /\ oqueue' \in Seq(Msg)
    <3>1. /\ queue \in Seq(Msg) /\ oqueue \in Seq(Msg)
          /\ Append(queue, M("register", k, a)) \in Seq(Msg) /\ Append(oqueue, M("register", k, a)) \in Seq(Msg)
      BY MakeMessage, AppendFacts DEF QueueType, OutsideType
    <3> QED
      BY <2>1, <3>1, Zenon DEF AppRegisters
  <2>2. ASSUME NEW a \in Apps, AppExits(a) PROVE queue' \in Seq(Msg) /\ oqueue' \in Seq(Msg)
    BY <2>2, MakeMessage, ReportQueue DEF AppExits
  <2>3. ASSUME NEW n \in Names, AppOwns(n) \/ AppReleases(n) PROVE queue' \in Seq(Msg) /\ oqueue' \in Seq(Msg)
    BY <2>3, MakeMessage, ReportQueue DEF AppOwns, AppReleases
  <2> QED
    BY <2>1, <2>2, <2>3 DEF AppStep
<1>3. changes' \in Nat /\ alive' \subseteq Apps /\ owned' \subseteq Names /\ pending' \subseteq Apps
  BY DEF AppStep, AppRegisters, AppExits, AppOwns, AppReleases, OutsideType
<1>4. OutsideType'
  BY <1>1, <1>2, <1>3 DEF OutsideType
<1> QED
  BY <1>1, <1>2, <1>4, AppStepFrame, FrameType

LEMMA OneMore ==
  ASSUME NEW S, NEW q \in Seq(S), NEW x \in S, NEW y \in S
  PROVE  /\ q \o <<>> = q /\ q \o <<x>> = Append(q, x)
         /\ q \o <<x>> \o <<>> = Append(q, x) /\ q \o <<x>> \o <<y>> = Append(Append(q, x), y)
<1>1. \A r \in Seq(S), z \in S : r \o <<>> = r /\ r \o <<z>> = Append(r, z)
  OBVIOUS
<1>2. Append(q, x) \in Seq(S)
  OBVIOUS
<1> QED
  BY <1>1, <1>2

LEMMA OtherTakesHead ==
  ASSUME TypeOK, NEW t, OtherDispatch(t)
  PROVE  /\ watcher = "theirs" /\ oqueue # <<>> /\ oqueue' = Tail(oqueue) /\ oqueue' \in Seq(Msg)
         /\ Head(oqueue) \in Msg /\ Head(oqueue).t = t
         /\ UNCHANGED <<alive, owned, watcher, changes>>
  BY TypeParts, SeqFacts DEF OtherDispatch, OutsideType

(* A name the other watcher did not list is announced. *)
LEMMA ListsQueue ==
  ASSUME TypeOK, NEW n \in Names, OtherLists(n)
  PROVE  /\ queue' \in Seq(Msg) /\ others' = others \cup {n} /\ UNCHANGED <<serves, open>>
         /\ \/ queue' = queue
            \/ M("registered", n, NoApp) \in Msg /\ queue' = Append(queue, M("registered", n, NoApp))
         /\ passive /\ n \notin others =>
              M("registered", n, NoApp) \in Msg /\ queue' = Append(queue, M("registered", n, NoApp))
         /\ ~ passive => queue' = queue
<1>1. n \in Keys
  BY KeyFacts
<1>2. CASE n \in others
  BY <1>2, TypeParts DEF OtherLists, QueueType
<1>3. CASE n \notin others
  BY <1>1, <1>3, EmitsQueue, Zenon DEF OtherLists
<1> QED
  BY <1>2, <1>3

(* The other watcher closes an item. *)
LEMMA GoneQueue ==
  ASSUME TypeOK, OtherGone
  PROVE  /\ queue' \in Seq(Msg) /\ UNCHANGED others
         /\ \/ UNCHANGED <<queue, open>>
            \/ \E p \in open, a \in Apps :
                 /\ M("gone", p, NoApp) \in Msg /\ M("unregistered", a, NoApp) \in Msg
                 /\ open' = open \ {p} /\ serves[p] = a
                 /\ \/ queue' = Append(queue, M("gone", p, NoApp))
                    \/ passive /\ queue' = Append(Append(queue, M("gone", p, NoApp)), M("unregistered", a, NoApp))
                    \/ filtered /\ queue' = queue
                    \/ filtered /\ passive /\ queue' = Append(queue, M("unregistered", a, NoApp))
<1> USE TypeParts
<1> DEFINE a == Head(oqueue).k
           P == {p \in open : serves[p] = a}
<1>1. queue \in Seq(Msg)
  BY DEF QueueType
<1>2. CASE P = {}
  BY <1>1, <1>2 DEF OtherGone
<1>3. CASE P # {}
  <2> DEFINE Told == IF passive THEN <<M("unregistered", a, NoApp)>> ELSE <<>>
             l(p) == M("gone", p, NoApp)
             u == M("unregistered", a, NoApp)
  <2>1. PICK p \in P : /\ open' = open \ {p}
                       /\ queue' = queue \o <<l(p)>> \o Told \/ (filtered /\ queue' = queue \o Told)
    BY <1>3 DEF OtherGone
  <2>2. p \in open /\ p \in Proxies /\ serves[p] = a /\ serves[p] \in Apps \cup {NoApp}
    BY DEF OutsideType
  <2>3. a \in Apps
    <3>1. Head(oqueue) \in Msg /\ Head(oqueue).t = "gone"
      BY OtherTakesHead DEF OtherGone
    <3> QED
      BY <2>2, <3>1, ReadMessage, KeyFacts
  <2>4. l(p) \in Msg /\ u \in Msg
    BY <2>2, <2>3, MakeMessage, KeyFacts
  <2>5. UNCHANGED others
    BY DEF OtherGone
  <2> HIDE DEF a, l, u
  <2>6. /\ queue \o <<l(p)>> \o <<u>> = Append(Append(queue, l(p)), u) /\ queue \o <<l(p)>> \o <<>> = Append(queue, l(p))
        /\ queue \o <<u>> = Append(queue, u) /\ queue \o <<>> = queue
    BY <1>1, <2>4, OneMore
  <2>7. Told = IF passive THEN <<u>> ELSE <<>>
    BY DEF u
  <2> HIDE DEF Told
  <2>8. \/ queue' = Append(queue, l(p))
        \/ passive /\ queue' = Append(Append(queue, l(p)), u)
        \/ filtered /\ queue' = queue
        \/ filtered /\ passive /\ queue' = Append(queue, u)
    BY <2>1, <2>6, <2>7, Zenon
  <2>9. queue' \in Seq(Msg)
    BY <1>1, <2>4, <2>8, AppendFacts
  <2> QED
    BY <2>1, <2>2, <2>3, <2>4, <2>5, <2>8, <2>9 DEF l, u
<1> QED
  BY <1>2, <1>3

LEMMA OtherStepType ==
  ASSUME TypeOK, OtherStep
  PROVE  TypeOK'
<1> USE TypeParts DEF Changes
<1> DEFINE Fine == /\ watcher' \in {"ours", "theirs"} /\ queue' \in Seq(Msg) /\ oqueue' \in Seq(Msg)
                   /\ others' \subseteq Names \cup Proxies /\ open' \subseteq Proxies /\ pending' \subseteq Apps
                   /\ serves' \in [Proxies -> Apps \cup {NoApp}] /\ changes' \in Nat
<1>1. ASSUME OtherTakes PROVE Fine
  BY <1>1, MakeMessage, AppendFacts DEF OtherTakes, QueueType, OutsideType, other
<1>2. ASSUME OtherLeaves PROVE Fine
  BY <1>2, MakeMessage, AppendFacts, EmptySeq DEF OtherLeaves, QueueType, OutsideType
<1>3. ASSUME NEW p \in Proxies, OtherCloses(p) PROVE Fine
  <2>1. M("gone", p, NoApp) \in Msg
    BY MakeMessage
  <2> QED
    BY <1>3, <2>1, ReportQueue DEF OtherCloses, OutsideType, ModeType
<1>4. ASSUME NEW p \in Proxies, OtherAdvertises(p) PROVE Fine
  <2>1. queue' \in Seq(Msg)
    BY <1>4, EmitsQueue, KeyFacts DEF OtherAdvertises
  <2> QED
    BY <1>4, <2>1 DEF OtherAdvertises, OutsideType, ModeType
<1>5. ASSUME OtherAppeared PROVE Fine
  <2>1. OtherDispatch("appeared") /\ OtherLists(Head(oqueue).k) /\ pending' = pending
    BY <1>5 DEF OtherAppeared
  <2>2. Head(oqueue).k \in Names
    BY <2>1, OtherTakesHead, ReadMessage
  <2> QED
    BY <2>1, <2>2, OtherTakesHead, ListsQueue DEF OutsideType, ModeType
<1>6. ASSUME OtherRegister PROVE Fine
  <2>1. OtherDispatch("register") /\ pending' \subseteq pending
    BY <1>6 DEF OtherRegister
  <2>2. Head(oqueue).from \in Apps
    BY <2>1, OtherTakesHead, ReadMessage
  <2> DEFINE a == Head(oqueue).from
  <2>3. \/ \E n \in Names : OtherLists(n)
        \/ OtherServes(a)
        \/ UNCHANGED <<queue, others, serves, open>>
    BY <1>6 DEF OtherRegister, NameOf, OutsideType
  <2> HIDE DEF a
  <2>4. CASE \E n \in Names : OtherLists(n)
    BY <2>1, <2>4, OtherTakesHead, ListsQueue DEF OutsideType, ModeType
  <2>5. CASE OtherServes(a)
    BY <2>1, <2>2, <2>5, OtherTakesHead DEF OtherServes, OutsideType, ModeType, QueueType, a
  <2>6. CASE UNCHANGED <<queue, others, serves, open>>
    BY <2>1, <2>6, OtherTakesHead DEF OutsideType, ModeType, QueueType
  <2> QED
    BY <2>3, <2>4, <2>5, <2>6
<1>7. ASSUME OtherVanished PROVE Fine
  <2>1. /\ OtherDispatch("vanished") /\ others' \subseteq others /\ UNCHANGED <<serves, open, pending>>
        /\ OtherEmits("unregistered", Head(oqueue).k) \/ queue' = queue
    BY <1>7 DEF OtherVanished
  <2>2. Head(oqueue).k \in Keys
    BY <2>1, OtherTakesHead, ReadMessage, KeyFacts
  <2>3. queue' \in Seq(Msg)
    BY <2>1, <2>2, EmitsQueue DEF QueueType
  <2> QED
    BY <2>1, <2>3, OtherTakesHead DEF OutsideType, ModeType
<1>8. ASSUME OtherGone PROVE Fine
  <2>1. OtherDispatch("gone") /\ open' \subseteq open /\ UNCHANGED <<others, serves, pending>>
    BY <1>8 DEF OtherGone
  <2> QED
    BY <1>8, <2>1, OtherTakesHead, GoneQueue DEF OutsideType, ModeType
<1>9. Fine
  BY <1>1, <1>2, <1>3, <1>4, <1>5, <1>6, <1>7, <1>8 DEF OtherStep, OtherHandles
<1>10. UNCHANGED <<alive, owned>>
  BY OtherStepFrame
<1>11. OutsideType'
  BY <1>9, <1>10 DEF OutsideType
<1> QED
  BY <1>9, <1>11, OtherStepFrame, FrameType

LEMMA PanelAnswersType ==
  ASSUME TypeOK, NEW k \in Keys, PanelAnswers(k)
  PROVE  TypeOK'
<1> USE TypeParts DEF PanelAnswers, outside
<1>1. PanelType'
  BY DEF PanelType, Misses
<1> QED
  BY <1>1, TypePartsNext, ModeSame, QueueSame, HandlerSame, ItemSame, ListSame, OutsideSame

(* A message is taken, todo or dels are set, and pending may shrink. *)
LEMMA DispatchType ==
  ASSUME TypeOK, NEW t, Dispatch(t)
  PROVE  queue' \in Seq(Msg) /\ Head(queue) \in Msg /\ Head(queue).t = t /\ queue # <<>> /\ queue' = Tail(queue)
  BY TypeParts, SeqFacts DEF Dispatch, QueueType

LEMMA HandlersType ==
  ASSUME TypeOK,
         \/ HandleRegister \/ HandleAppeared \/ HandleVanished \/ HandleGone \/ HandleAcquired
         \/ HandleLost \/ HandleItemRegistered \/ HandleItemUnregistered
  PROVE  TypeOK'
<1> USE TypeParts DEF items, outside
<1>1. QueueType'
  BY DispatchType DEF HandleRegister, HandleAppeared, HandleVanished, HandleGone, HandleAcquired,
     HandleLost, HandleItemRegistered, HandleItemUnregistered, QueueType
<1>2. ItemType' /\ ListType' /\ PanelType' /\ UNCHANGED outside
  BY ItemSame, ListSame, PanelSame DEF HandleRegister, HandleAppeared, HandleVanished, HandleGone,
     HandleAcquired, HandleLost, HandleItemRegistered, HandleItemUnregistered
<1>3. OutsideType'
  BY <1>2 DEF OutsideType, other, HandleRegister, HandleAppeared, HandleVanished, HandleGone,
     HandleAcquired, HandleLost, HandleItemRegistered, HandleItemUnregistered
<1>4. ModeType'
  BY <1>2 DEF ModeType, HandleRegister, HandleAppeared, HandleVanished, HandleGone,
     HandleAcquired, HandleLost, HandleItemRegistered, HandleItemUnregistered,
     SubscribeToPassiveWatcherSignals
<1>5. HandlerType'
  <2>1. ASSUME HandleRegister PROVE HandlerType'
    <3>1. Head(queue) \in Msg /\ Head(queue).t = "register"
      BY <2>1, DispatchType DEF HandleRegister
    <3>2. Head(queue).k \in Keys /\ Head(queue).from \in Apps
      BY <3>1, ReadMessage
    <3> QED
      BY <2>1, <3>2 DEF HandleRegister, HandlerType
  <2>2. ASSUME HandleAppeared \/ HandleItemRegistered PROVE HandlerType'
    <3>1. Head(queue) \in Msg /\ Head(queue).t \in {"appeared", "registered"}
      BY <2>2, DispatchType DEF HandleAppeared, HandleItemRegistered
    <3>2. Head(queue).k \in Keys
      BY <3>1, ReadMessage, KeyFacts
    <3> QED
      BY <2>2, <3>2 DEF HandleAppeared, HandleItemRegistered, HandlerType
  <2>3. ASSUME HandleVanished \/ HandleItemUnregistered PROVE HandlerType'
    <3>1. Head(queue) \in Msg /\ Head(queue).t \in {"vanished", "unregistered"}
      BY <2>3, DispatchType DEF HandleVanished, HandleItemUnregistered
    <3>2. Head(queue).k \in Keys
      BY <3>1, ReadMessage, KeyFacts
    <3> QED
      BY <2>3, <3>2 DEF HandleVanished, HandleItemUnregistered, HandlerType
  <2>4. ASSUME HandleGone \/ HandleAcquired \/ HandleLost PROVE HandlerType'
    BY <2>4 DEF HandleGone, HandleAcquired, HandleLost, HandlerType, Tracked
  <2> QED
    BY <2>1, <2>2, <2>3, <2>4
<1> QED
  BY <1>1, <1>2, <1>3, <1>4, <1>5, TypePartsNext

LEMMA PlanValues ==
  /\ Head(<<"scan">>) = "scan" /\ Tail(<<"scan">>) = <<>>
  /\ Head(<<"boot">>) = "boot" /\ Tail(<<"boot">>) = <<>>
  /\ Head(<<"scan", "boot">>) = "scan" /\ Tail(<<"scan", "boot">>) = <<"boot">>
  /\ <<"scan">> # <<"boot">> /\ <<"scan", "boot">> # <<"boot">> /\ <<"scan", "boot">> # <<"scan">>
  /\ <<"scan">> # <<>> /\ <<"boot">> # <<>> /\ <<"scan", "boot">> # <<>>
<1>1. Head(<<"scan">>) = "scan" /\ Head(<<"boot">>) = "boot" /\ Head(<<"scan", "boot">>) = "scan"
  OBVIOUS
<1>2. Tail(<<"scan">>) = <<>> /\ Tail(<<"boot">>) = <<>>
  OBVIOUS
<1>3. Tail(<<"scan", "boot">>) = <<"boot">>
  <2>1. Len(Tail(<<"scan", "boot">>)) = 1 /\ Tail(<<"scan", "boot">>)[1] = "boot"
    OBVIOUS
  <2>2. Tail(<<"scan", "boot">>) \in Seq({"scan", "boot"}) /\ <<"boot">> \in Seq({"scan", "boot"})
    OBVIOUS
  <2> QED
    BY <2>1, <2>2
<1>4. Len(<<"scan">>) = 1 /\ Len(<<"scan", "boot">>) = 2 /\ Len(<<>>) = 0 /\ Len(<<"boot">>) = 1
  OBVIOUS
<1> QED
  BY <1>1, <1>2, <1>3, <1>4

LEMMA PlanTails ==
  ASSUME HandlerType, plan # <<>>
  PROVE  /\ Tail(plan) \in {<<>>, <<"boot">>}
         /\ Tail(plan) = <<"boot">> => plan = <<"scan", "boot">>
         /\ Head(plan) = "boot" <=> plan = <<"boot">>
         /\ Head(plan) = "scan" <=> plan \in {<<"scan">>, <<"scan", "boot">>}
  BY PlanValues, Zenon DEF HandlerType

LEMMA PlanType ==
  ASSUME TypeOK, SendReply \/ InitialScan \/ Bootstrap
  PROVE  TypeOK'
<1> USE TypeParts DEF items, outside, bus
<1>1. HandlerType'
  <2>1. plan # <<>> => Tail(plan) \in {<<>>, <<"boot">>}
    BY PlanTails
  <2>2. owned \subseteq Keys /\ others \subseteq Keys
    BY KeyFacts DEF OutsideType
  <2> QED
    BY <2>1, <2>2 DEF SendReply, InitialScan, Bootstrap, HandlerType
<1>2. OutsideType'
  BY DEF SendReply, InitialScan, Bootstrap, OutsideType, other
<1>3. ModeType' /\ QueueType' /\ ItemType' /\ ListType' /\ PanelType'
  BY ModeSame, QueueSame, ItemSame, ListSame, PanelSame DEF SendReply, InitialScan, Bootstrap
<1> QED
  BY <1>1, <1>2, <1>3, TypePartsNext

LEMMA ResolveType ==
  ASSUME OutsideType, NEW t \in Keys, NEW k \in Resolve(t)
  PROVE  k = t \/ (t \in Apps /\ k \in owned /\ k \in Names)
  BY DEF Resolve, NameOf, OutsideType

LEMMA OwnerType ==
  ASSUME OutsideType, NEW k \in Keys
  PROVE  /\ OwnerOf(k) \in Apps \cup Proxies \cup {NoApp}
         /\ OwnerOf(k) = NoApp \/ (k \notin Apps /\ k \in owned \cup open /\ OwnerOf(k) = Src(k))
  BY KeyFacts DEF OwnerOf, OutsideType, Src

LEMMA DiscoverType ==
  ASSUME TypeOK, NEW k \in Keys,
         AlreadyTracked(k) \/ DiscoverDirect(k) \/ DiscoverItem(k) \/ DiscoverFails(k)
  PROVE  TypeOK'
<1> USE TypeParts DEF outside
<1>1. ASSUME AlreadyTracked(k) PROVE TypeOK'
  <2>1. HandlerType'
    BY <1>1 DEF AlreadyTracked, HandlerType
  <2> QED
    BY <1>1, <2>1, TypePartsNext, ModeSame, QueueSame, ItemSame, ListSame, PanelSame, OutsideSame
       DEF AlreadyTracked, items
<1>2. ASSUME DiscoverDirect(k) PROVE TypeOK'
  <2>1. HandlerType'
    BY <1>2 DEF DiscoverDirect, NewItem, HandlerType
  <2>2. ItemType'
    BY <1>2, OwnerType, Updating DEF DiscoverDirect, ItemType
  <2>3. ListType'
    <3> DEFINE r == [k |-> k, n |-> 0]
    <3>1. r \in Advert /\ registered' = Append(registered, r)
      BY <1>2 DEF DiscoverDirect, Advert
    <3> HIDE DEF r
    <3> QED
      BY <3>1, AppendFacts DEF ListType
  <2>4. QueueType'
    BY <1>2, EmitEchoes, EchoType DEF DiscoverDirect
  <2> QED
    BY <1>2, <2>1, <2>2, <2>3, <2>4, TypePartsNext, ModeSame, PanelSame, OutsideSame DEF DiscoverDirect
<1>3. ASSUME DiscoverItem(k) PROVE TypeOK'
  <2>1. HandlerType'
    <3>1. cur' \in Call \cup {NoCall}
      BY <1>3, MakeCall DEF DiscoverItem
    <3> QED
      BY <1>3, <3>1 DEF DiscoverItem, NewItem, HandlerType
  <2>2. ItemType'
    <3>1. counter' \in Nat /\ (IF k \in Apps THEN counter + 1 ELSE 0) \in Nat
      BY <1>3 DEF DiscoverItem, ItemType
    <3>2. uname' \in [Keys -> Apps \cup Proxies \cup {NoApp}] /\ st' \in [Keys -> {"none", "new", "owning", "waiting", "stuck", "ready"}]
      BY <1>3, OwnerType, Updating DEF DiscoverItem, ItemType
    <3>3. gen' \in [Keys -> Nat]
      BY <1>3, <3>1, Updating DEF DiscoverItem, ItemType
    <3> QED
      BY <3>1, <3>2, <3>3 DEF ItemType
  <2> QED
    BY <1>3, <2>1, <2>2, TypePartsNext, ModeSame, QueueSame, ListSame, PanelSame, OutsideSame DEF DiscoverItem
<1>4. ASSUME DiscoverFails(k) PROVE TypeOK'
  <2>1. HandlerType' /\ ItemType' /\ PanelType'
    BY <1>4 DEF DiscoverFails, Misses, NewItem, HandlerType, ItemType, PanelType
  <2> QED
    BY <1>4, <2>1, TypePartsNext, ModeSame, QueueSame, ListSame, OutsideSame DEF DiscoverFails
<1> QED
  BY <1>1, <1>2, <1>3, <1>4

LEMMA CallbackType ==
  ASSUME TypeOK, MenuPrefetched \/ OwnNameFails \/ ItemReady \/ TargetBus
  PROVE  TypeOK'
<1> USE TypeParts DEF outside
<1>1. ASSUME MenuPrefetched PROVE TypeOK'
  <2>1. cur.k \in Keys
    BY <1>1, CallFields DEF MenuPrefetched
  <2>2. HandlerType' /\ ItemType'
    BY <1>1, <2>1, Updating DEF MenuPrefetched, HandlerType, ItemType
  <2> QED
    BY <1>1, <2>2, TypePartsNext, ModeSame, QueueSame, ListSame, PanelSame, OutsideSame DEF MenuPrefetched
<1>2. ASSUME ItemReady PROVE TypeOK'
  <2>1. cur.k \in Keys
    BY <1>2, CallFields DEF ItemReady
  <2>2. HandlerType' /\ ItemType' /\ PanelType'
    BY <1>2, <2>1, Updating DEF ItemReady, HandlerType, ItemType, PanelType
  <2>3. ListType'
    <3>1. AdvertOf(cur.k) \in Advert
      BY <2>1 DEF AdvertOf, Advert, ItemType
    <3> QED
      BY <1>2, <3>1, AppendFacts DEF ItemReady, ListType
  <2>4. QueueType'
    BY <1>2, <2>1, EmitEchoes, EchoType DEF ItemReady
  <2> QED
    BY <1>2, <2>2, <2>3, <2>4, TypePartsNext, ModeSame, OutsideSame DEF ItemReady
<1>3. ASSUME NEW k \in Keys, ItemNameAcquired(k) PROVE TypeOK'
  <2>1. HandlerType'
    BY <1>3, MakeCall DEF ItemNameAcquired, HandlerType
  <2> QED
    BY <1>3, <2>1, TypePartsNext, ModeSame, QueueSame, ItemSame, ListSame, PanelSame, OutsideSame
       DEF ItemNameAcquired, items
<1>4. ASSUME OwnNameFails PROVE TypeOK'
  <2>1. cur.k \in Keys
    BY <1>4, CallFields DEF OwnNameFails
  <2>2. HandlerType' /\ ItemType' /\ PanelType'
    BY <1>4, <2>1, Updating DEF OwnNameFails, Misses, HandlerType, ItemType, PanelType
  <2> QED
    BY <1>4, <2>2, TypePartsNext, ModeSame, QueueSame, ListSame, OutsideSame DEF OwnNameFails
<1>5. ASSUME NEW k \in Keys, ItemNameLost(k) \/ ItemNotExported(k) PROVE TypeOK'
  <2>1. ItemType' /\ PanelType'
    BY <1>5, Updating DEF ItemNameLost, ItemNotExported, Misses, ItemType, PanelType
  <2> QED
    BY <1>5, <2>1, TypePartsNext, ModeSame, QueueSame, HandlerSame, ListSame, OutsideSame
       DEF ItemNameLost, ItemNotExported
<1> QED
  BY <1>1, <1>2, <1>3, <1>4, <1>5 DEF TargetBus

LEMMA FirstFacts ==
  ASSUME ListType, NEW k \in Keys, FirstAt(k) # {}
  PROVE  /\ (CHOOSE i \in FirstAt(k) : TRUE) \in 1..Len(registered)
         /\ registered[CHOOSE i \in FirstAt(k) : TRUE] = [k |-> k, n |-> 0]
<1>1. (CHOOSE i \in FirstAt(k) : TRUE) \in FirstAt(k)
  OBVIOUS
<1> QED
  BY <1>1 DEF FirstAt

LEMMA WithoutFacts ==
  ASSUME ListType, NEW i \in 1..Len(registered)
  PROVE  /\ Without(i) \in Seq(Advert) /\ Len(Without(i)) = Len(registered) - 1
         /\ \A j \in 1..Len(registered) - 1 :
              Without(i)[j] = IF j < i THEN registered[j] ELSE registered[j + 1]
  BY TakenOut DEF ListType, Without

LEMMA RemoveItemType ==
  ASSUME TypeOK, NEW k \in Keys, RemoveItem(k)
  PROVE  TypeOK'
<1> USE TypeParts DEF outside
<1>1. HandlerType' /\ ModeType' /\ OutsideType'
  BY ModeSame, OutsideSame DEF RemoveItem, HandlerType
<1>2. CASE st[k] = "none"
  BY <1>1, <1>2, TypePartsNext, QueueSame, ItemSame, ListSame, PanelSame DEF RemoveItem, items
<1>3. CASE st[k] # "none"
  <2>1. ItemType' /\ PanelType'
    BY <1>3, Updating DEF RemoveItem, Discard, ItemType, PanelType
  <2>2. QueueType'
    BY <1>3, EmitEchoes, EchoType DEF RemoveItem, Discard
  <2>3. ListType'
    BY <1>3, FirstFacts, WithoutFacts DEF RemoveItem, ListType
  <2> QED
    BY <1>1, <2>1, <2>2, <2>3, TypePartsNext
<1> QED
  BY <1>2, <1>3

LEMMA InitType == Init => TypeOK
<1> SUFFICES ASSUME Init PROVE TypeOK
  OBVIOUS
<1>1. QueueType
  BY MakeMessage, OneElement DEF Init, QueueType
<1>2. ListType /\ ModeType
  BY EmptySeq, ConstantsAssumption, Zenon DEF Init, ListType, ModeType
<1>3. HandlerType /\ ItemType /\ PanelType /\ OutsideType
  BY EmptySeq DEF Init, HandlerType, ItemType, PanelType, OutsideType
<1> QED
  BY <1>1, <1>2, <1>3, TypeParts

(* A step preserves the type invariant. *)
LEMMA NextType == TypeOK /\ [Next]_vars => TypeOK'
<1> SUFFICES ASSUME TypeOK, [Next]_vars PROVE TypeOK'
  OBVIOUS
<1>1. CASE LoopStep
  BY <1>1, HandlersType, PlanType, DiscoverType, CallbackType, RemoveItemType DEF LoopStep
<1>2. CASE TargetBus \/ Panel
  BY <1>2, CallbackType, PanelAnswersType DEF Panel
<1>3. CASE UNCHANGED vars
  BY <1>3, TypeParts, TypePartsNext, ModeSame, QueueSame, HandlerSame, ItemSame, ListSame, PanelSame,
     OutsideSame DEF vars, items, outside
<1> QED
  BY <1>1, <1>2, <1>3, AppStepType, OtherStepType DEF Next

(* Every variable keeps its type: the handlers of proxy.cpp name only         *)
(* applications and names there are.                                          *)
THEOREM TypeCorrect == Spec => []TypeOK
  BY InitType, NextType, PTL DEF Spec

-----------------------------------------------------------------------------
(* The items, their list and the panel. *)

ItemInv == CurItem /\ ListOnce /\ PanelInv

itemVars == <<renamer, cur, st, uname, registered, panelCalls, panel, missed>>

LEMMA ItemInvSame == ItemInv /\ UNCHANGED itemVars => ItemInv'
<1> SUFFICES ASSUME ItemInv, UNCHANGED itemVars PROVE ItemInv'
  OBVIOUS
<1>1. CurItem'
  BY DEF ItemInv, CurItem, itemVars
<1>2. ListOnce'
  BY DEF ItemInv, ListOnce, itemVars
<1>3. PanelInv'
  BY DEF ItemInv, PanelInv, itemVars, Ready
<1> QED
  BY <1>1, <1>2, <1>3 DEF ItemInv

(* The steps that leave all that alone. *)
LEMMA ItemInvKept ==
  ASSUME \/ AppStep \/ OtherStep
         \/ HandleRegister \/ SendReply \/ HandleAppeared \/ HandleVanished \/ HandleGone
         \/ HandleAcquired \/ HandleLost \/ InitialScan \/ Bootstrap
         \/ HandleItemRegistered \/ HandleItemUnregistered
         \/ (\E k \in Keys : AlreadyTracked(k))
         \/ UNCHANGED vars
  PROVE  UNCHANGED itemVars
<1> USE DEF itemVars, items, handler
<1>1. ASSUME AppStep PROVE UNCHANGED itemVars
  BY <1>1, AppStepFrame
<1>2. ASSUME OtherStep PROVE UNCHANGED itemVars
  BY <1>2, OtherStepFrame
<1>3. ASSUME \/ HandleRegister \/ SendReply \/ HandleAppeared \/ HandleVanished \/ HandleGone
             \/ HandleAcquired \/ HandleLost
      PROVE  UNCHANGED itemVars
  BY <1>3 DEF HandleRegister, SendReply, HandleAppeared, HandleVanished, HandleGone, HandleAcquired, HandleLost
<1>4. ASSUME \/ InitialScan \/ Bootstrap \/ HandleItemRegistered \/ HandleItemUnregistered
             \/ (\E k \in Keys : AlreadyTracked(k))
      PROVE  UNCHANGED itemVars
  BY <1>4 DEF InitialScan, Bootstrap, HandleItemRegistered, HandleItemUnregistered, AlreadyTracked
<1>5. ASSUME UNCHANGED vars PROVE UNCHANGED itemVars
  BY <1>5 DEF vars
<1> QED
  BY <1>1, <1>2, <1>3, <1>4, <1>5

LEMMA ListKeys ==
  ASSUME ListType
  PROVE  \A i \in 1..Len(registered) : registered[i] \in Advert /\ registered[i].k \in Keys
<1>1. \A i \in 1..Len(registered) : registered[i] \in Advert
  BY SeqFacts DEF ListType
<1>2. \A x \in Advert : x.k \in Keys
  BY DEF Advert
<1> QED
  BY <1>1, <1>2

LEMMA PanelAnswersItems ==
  ASSUME TypeOK, ItemInv, NEW k \in Keys, PanelAnswers(k)
  PROVE  ItemInv'
<1>1. CurItem'
  BY DEF ItemInv, CurItem, PanelAnswers, Misses, handler
<1>2. ListOnce'
  BY DEF ItemInv, ListOnce, PanelAnswers
<1>3. PanelInv'
  BY DEF ItemInv, PanelInv, PanelAnswers, Misses, Ready
<1> QED
  BY <1>1, <1>2, <1>3 DEF ItemInv

LEMMA DiscoverItems ==
  ASSUME TypeOK, ItemInv, NEW k \in Keys, DiscoverDirect(k) \/ DiscoverItem(k) \/ DiscoverFails(k)
  PROVE  ItemInv'
<1> USE TypeParts
<1>1. ASSUME DiscoverDirect(k) PROVE ItemInv'
  <2>1. ListOnce' /\ PanelInv'
    BY <1>1 DEF DiscoverDirect, ListOnce, PanelInv
  <2>2. CurItem'
    BY <1>1 DEF DiscoverDirect, NewItem, ItemInv, CurItem, ItemType
  <2> QED
    BY <2>1, <2>2 DEF ItemInv
<1>2. ASSUME DiscoverItem(k) PROVE ItemInv'
  <2>1. /\ st[k] = "none" /\ cur = NoCall /\ st' \in [Keys -> {"none", "new", "owning", "waiting", "stuck", "ready"}]
        /\ st'[k] = IF renamer THEN "owning" ELSE "new"
        /\ \A j \in Keys \ {k} : st'[j] = st[j]
    BY <1>2, Updating DEF DiscoverItem, NewItem, ItemType
  <2>2. missed' = missed
    BY <1>2 DEF DiscoverItem
  <2>3. cur' = (IF renamer THEN NoCall ELSE [k |-> k, stage |-> "prefetch"])
    BY <1>2 DEF DiscoverItem
  <2>4. CurItem'
    <3>1. \A j \in Keys : st'[j] \in {"waiting", "stuck"} => j \in missed'
      BY <2>1, <2>2 DEF ItemInv, CurItem
    <3>2. CASE renamer
      BY <2>1, <2>3, <3>1, <3>2 DEF ItemInv, CurItem
    <3>3. CASE ~ renamer
      <4>1. cur' # NoCall /\ cur'.k = k /\ cur'.stage = "prefetch" /\ st'[k] = "new"
        BY <2>1, <2>3, <3>3, MakeCall
      <4>2. \A j \in Keys \ {k} : st'[j] # "new"
        BY <2>1 DEF ItemInv, CurItem
      <4> QED
        BY <3>1, <4>1, <4>2 DEF CurItem
    <3> QED
      BY <3>2, <3>3
  <2>5. Ready' = Ready /\ \A j \in Keys : st[j] = "ready" <=> st'[j] = "ready"
    BY <2>1 DEF Ready
  <2>6. PanelInv'
    BY <1>2, <2>5 DEF ItemInv, PanelInv, DiscoverItem
  <2>7. ListOnce'
    <3>1. \A i \in 1..Len(registered) : registered[i].k \in Keys
      BY ListKeys
    <3> QED
      BY <1>2, <2>5, <3>1 DEF ItemInv, ListOnce, DiscoverItem
  <2> QED
    BY <2>4, <2>6, <2>7 DEF ItemInv
<1>3. ASSUME DiscoverFails(k) PROVE ItemInv'
  <2>1. CurItem'
    BY <1>3 DEF ItemInv, CurItem, DiscoverFails, Misses
  <2>2. ListOnce'
    BY <1>3 DEF ItemInv, ListOnce, DiscoverFails
  <2>3. PanelInv'
    BY <1>3 DEF ItemInv, PanelInv, DiscoverFails, Misses, Ready
  <2> QED
    BY <2>1, <2>2, <2>3 DEF ItemInv
<1> QED
  BY <1>1, <1>2, <1>3

LEMMA CallbackItems ==
  ASSUME TypeOK, ItemInv, MenuPrefetched \/ OwnNameFails \/ TargetBus
  PROVE  ItemInv'
<1> USE TypeParts
<1>1. ASSUME MenuPrefetched PROVE ItemInv'
  <2>1. cur.k \in Keys /\ st[cur.k] = "new" /\ cur' = NoCall
    BY <1>1, CallFields DEF MenuPrefetched, ItemInv, CurItem
  <2>2. st'[cur.k] = "owning" /\ \A j \in Keys \ {cur.k} : st'[j] = st[j]
    BY <1>1, <2>1, Updating DEF MenuPrefetched, ItemType
  <2>3. CurItem'
    BY <1>1, <2>1, <2>2 DEF MenuPrefetched, ItemInv, CurItem
  <2>4. Ready' = Ready /\ \A j \in Keys : st[j] = "ready" <=> st'[j] = "ready"
    BY <2>1, <2>2 DEF Ready
  <2>5. PanelInv'
    BY <1>1, <2>4 DEF ItemInv, PanelInv, MenuPrefetched
  <2>6. ListOnce'
    <3>1. \A i \in 1..Len(registered) : registered[i].k \in Keys
      BY ListKeys
    <3> QED
      BY <1>1, <2>4, <3>1 DEF ItemInv, ListOnce, MenuPrefetched
  <2> QED
    BY <2>3, <2>5, <2>6 DEF ItemInv
<1>2. ASSUME NEW k \in Keys, ItemNameAcquired(k) PROVE ItemInv'
  <2>1. /\ cur' # NoCall /\ cur'.k = k /\ cur'.stage = "acquired" /\ cur = NoCall
        /\ st[k] \in {"owning", "waiting"}
    BY <1>2, MakeCall DEF ItemNameAcquired, Asking, Idle, Free
  <2>2. UNCHANGED <<renamer, st, uname, registered, panelCalls, panel, missed>>
    BY <1>2 DEF ItemNameAcquired, items
  <2>3. CurItem'
    BY <2>1, <2>2 DEF ItemInv, CurItem
  <2>4. ListOnce'
    BY <2>2 DEF ItemInv, ListOnce
  <2>5. PanelInv'
    BY <2>2 DEF ItemInv, PanelInv, Ready
  <2> QED
    BY <2>3, <2>4, <2>5 DEF ItemInv
<1>3. ASSUME OwnNameFails PROVE ItemInv'
  <2>1. cur.k \in Keys /\ st[cur.k] = "new" /\ cur' = NoCall /\ missed' = missed \cup {cur.k}
    BY <1>3, CallFields DEF OwnNameFails, Misses, ItemInv, CurItem
  <2>2. st'[cur.k] = "none" /\ \A j \in Keys \ {cur.k} : st'[j] = st[j]
    BY <1>3, <2>1, Updating DEF OwnNameFails, ItemType
  <2>3. CurItem'
    BY <2>1, <2>2 DEF ItemInv, CurItem
  <2>4. Ready' = Ready /\ \A j \in Keys : st[j] = "ready" <=> st'[j] = "ready"
    BY <2>1, <2>2 DEF Ready
  <2>5. UNCHANGED <<renamer, registered, panelCalls, panel>>
    BY <1>3 DEF OwnNameFails
  <2>6. PanelInv'
    BY <2>1, <2>4, <2>5 DEF ItemInv, PanelInv
  <2>7. ListOnce'
    BY <2>4, <2>5, ListKeys DEF ItemInv, ListOnce
  <2> QED
    BY <2>3, <2>6, <2>7 DEF ItemInv
<1>4. ASSUME NEW k \in Keys, ItemNameLost(k) \/ ItemNotExported(k) PROVE ItemInv'
  <2>1. /\ cur = NoCall /\ cur' = NoCall /\ missed' = missed \cup {k}
        /\ UNCHANGED <<renamer, registered>>
    BY <1>4 DEF ItemNameLost, ItemNotExported, Asking, Misses, Idle, Free, handler
  <2>2. \A j \in Keys \ {k} : st'[j] = st[j]
    BY <1>4 DEF ItemNameLost, ItemNotExported, ItemType
  <2>3. \/ st'[k] = "ready" /\ st[k] = "ready"
        \/ st'[k] \in {"waiting", "stuck"} /\ st[k] \in {"owning", "waiting"}
    BY <1>4 DEF ItemNameLost, ItemNotExported, Asking, ItemType
  <2>4. CurItem'
    BY <2>1, <2>2, <2>3 DEF ItemInv, CurItem
  <2>5. Ready' = Ready /\ \A j \in Keys : st[j] = "ready" <=> st'[j] = "ready"
    BY <2>2, <2>3 DEF Ready
  <2>6. \/ UNCHANGED <<panelCalls, panel>>
        \/ panelCalls' = panelCalls \ {k} /\ panel' = panel \ {k}
    BY <1>4 DEF ItemNameLost, ItemNotExported
  <2>7. PanelInv'
    BY <2>1, <2>5, <2>6 DEF ItemInv, PanelInv
  <2>8. ListOnce'
    BY <2>1, <2>5, ListKeys DEF ItemInv, ListOnce
  <2> QED
    BY <2>4, <2>7, <2>8 DEF ItemInv
<1> QED
  BY <1>1, <1>2, <1>3, <1>4 DEF TargetBus

LEMMA ItemReadyItems ==
  ASSUME TypeOK, ItemInv, ItemReady
  PROVE  ItemInv'
<1> USE TypeParts
<1>1. cur.k \in Keys /\ st[cur.k] \in {"owning", "waiting"} /\ cur' = NoCall
  BY CallFields DEF ItemReady, ItemInv, CurItem
<1>2. st'[cur.k] = "ready" /\ \A j \in Keys \ {cur.k} : st'[j] = st[j]
  BY <1>1, Updating DEF ItemReady, ItemType
<1>3. CurItem'
  BY <1>1, <1>2 DEF ItemReady, ItemInv, CurItem
<1>4. PanelInv'
  <2>1. Ready' = Ready \cup {cur.k}
    BY <1>1, <1>2 DEF Ready
  <2> QED
    BY <2>1 DEF ItemReady, ItemInv, PanelInv
<1>5. ListOnce'
  <2> SUFFICES ASSUME ~ renamer PROVE ListOnce'
    BY DEF ItemReady, ListOnce
  <2> DEFINE x == AdvertOf(cur.k)
  <2>1. x \in Advert /\ x.k = cur.k /\ x.n = 0
    BY <1>1 DEF AdvertOf, Advert
  <2>2. registered' = Append(registered, x) /\ renamer' = renamer
    BY DEF ItemReady
  <2> HIDE DEF x
  <2>3. /\ Len(registered) \in Nat /\ Len(registered') = Len(registered) + 1
        /\ registered'[Len(registered) + 1] = x
        /\ \A i \in 1..Len(registered) : registered'[i] = registered[i] /\ registered[i].k \in Keys
    BY <2>1, <2>2, SeqFacts, AppendFacts, ListKeys DEF ListType
  <2>4. \A i \in 1..Len(registered) : registered[i].k # cur.k
    BY <1>1 DEF ItemInv, ListOnce
  <2>5. \A i \in 1..Len(registered') : i \in 1..Len(registered) \/ i = Len(registered) + 1
    BY <2>3
  <2>6. \A i, j \in 1..Len(registered') : registered'[i].k = registered'[j].k => i = j
    BY <2>1, <2>3, <2>4, <2>5 DEF ItemInv, ListOnce
  <2>7. \A i \in 1..Len(registered') : registered'[i].n = 0 /\ st'[registered'[i].k] = "ready"
    BY <1>2, <2>1, <2>3, <2>4, <2>5 DEF ItemInv, ListOnce
  <2>8. \A k \in Keys : st'[k] = "ready" => \E i \in 1..Len(registered') : registered'[i].k = k
    <3> TAKE k \in Keys
    <3> HAVE st'[k] = "ready"
    <3>1. Len(registered) + 1 \in 1..Len(registered')
      BY <2>3
    <3>2. CASE k = cur.k
      BY <2>1, <2>3, <3>1, <3>2
    <3>3. CASE k # cur.k
      <4>1. PICK i \in 1..Len(registered) : registered[i].k = k
        BY <1>2, <3>3 DEF ItemInv, ListOnce
      <4>2. i \in 1..Len(registered')
        BY <2>3
      <4> QED
        BY <2>3, <4>1, <4>2
    <3> QED
      BY <3>2, <3>3
  <2> QED
    BY <2>6, <2>7, <2>8 DEF ListOnce
<1> QED
  BY <1>3, <1>4, <1>5 DEF ItemInv

LEMMA RemoveItemItems ==
  ASSUME TypeOK, ItemInv, NEW k \in Keys, RemoveItem(k)
  PROVE  ItemInv'
<1> USE TypeParts
<1>1. CASE st[k] = "none"
  BY <1>1, ItemInvSame DEF RemoveItem, items, itemVars
<1>2. CASE st[k] # "none"
  <2>1. cur = NoCall /\ cur' = NoCall /\ renamer' = renamer
    BY DEF RemoveItem
  <2>2. st'[k] = "none" /\ \A j \in Keys \ {k} : st'[j] = st[j]
    BY <1>2, Updating DEF RemoveItem, Discard, ItemType
  <2>3. missed' = missed
    BY <1>2 DEF RemoveItem
  <2>4. CurItem'
    BY <2>1, <2>2, <2>3, KeyFacts DEF ItemInv, CurItem
  <2>5. PanelInv'
    <3>1. Ready' = Ready \ {k}
      BY <2>2 DEF Ready
    <3> QED
      BY <1>2, <2>1, <3>1 DEF ItemInv, PanelInv, RemoveItem, Discard
  <2>6. ListOnce'
    <3> SUFFICES ASSUME ~ renamer PROVE ListOnce'
      BY <2>1 DEF ListOnce
    <3>1. \A i \in 1..Len(registered) : registered[i] \in Advert /\ registered[i].k \in Keys /\ registered[i].n = 0
      BY ListKeys DEF ItemInv, ListOnce
    <3>2. \A i, j \in 1..Len(registered) : registered[i].k = registered[j].k => i = j
      BY DEF ItemInv, ListOnce
    <3>3. \A i \in 1..Len(registered) : registered[i].k = k => i \in FirstAt(k)
      <4> SUFFICES ASSUME NEW i \in 1..Len(registered), registered[i].k = k PROVE i \in FirstAt(k)
        OBVIOUS
      <4>1. registered[i] = [k |-> k, n |-> 0]
        BY <3>1 DEF Advert
      <4>2. ASSUME NEW j \in 1..(i - 1) PROVE registered[j] # registered[i]
        <5>1. j \in 1..Len(registered) /\ j # i
          OBVIOUS
        <5> QED
          BY <3>2, <5>1
      <4> QED
        BY <4>1, <4>2 DEF FirstAt
    <3>4. CASE FirstAt(k) = {}
      <4>1. registered' = registered
        BY <1>2, <3>4 DEF RemoveItem
      <4>2. \A i \in 1..Len(registered) : registered[i].k # k
        BY <3>3, <3>4
      <4> QED
        BY <2>2, <3>1, <4>1, <4>2 DEF ItemInv, ListOnce
    <3>5. CASE FirstAt(k) # {}
      <4> DEFINE f == CHOOSE i \in FirstAt(k) : TRUE
      <4>1. f \in 1..Len(registered) /\ registered[f] = [k |-> k, n |-> 0] /\ registered' = Without(f)
        BY <1>2, <3>5, FirstFacts DEF RemoveItem
      <4> HIDE DEF f
      <4>2. /\ Len(registered) \in Nat /\ Len(registered') = Len(registered) - 1
            /\ \A j \in 1..Len(registered) - 1 :
                 registered'[j] = IF j < f THEN registered[j] ELSE registered[j + 1]
        BY <4>1, WithoutFacts, SeqFacts DEF ListType
      <4> DEFINE was(j) == IF j < f THEN j ELSE j + 1
      <4>3. \A j \in 1..Len(registered') :
              was(j) \in 1..Len(registered) /\ was(j) # f /\ registered'[j] = registered[was(j)]
        BY <4>1, <4>2
      <4>4. \A i, j \in 1..Len(registered') : was(i) = was(j) => i = j
        BY <4>1, <4>2
      <4>5. \A i \in 1..Len(registered) : i # f => \E j \in 1..Len(registered') : was(j) = i
        <5> TAKE i \in 1..Len(registered)
        <5> HAVE i # f
        <5>1. CASE i < f
          <6>1. i \in 1..Len(registered') /\ was(i) = i
            BY <4>1, <4>2, <5>1
          <6> QED
            BY <6>1
        <5>2. CASE i > f
          <6>1. i - 1 \in 1..Len(registered') /\ was(i - 1) = i
            BY <4>1, <4>2, <5>2
          <6> QED
            BY <6>1
        <5> QED
          BY <5>1, <5>2, <4>1
      <4> HIDE DEF was
      <4>6. registered[f].k = k
        BY <4>1
      <4>7. \A i, j \in 1..Len(registered') : registered'[i].k = registered'[j].k => i = j
        BY <3>2, <4>3, <4>4
      <4>8. \A j \in 1..Len(registered') : registered'[j].n = 0 /\ st'[registered'[j].k] = "ready"
        BY <2>2, <3>1, <3>2, <4>1, <4>3, <4>6 DEF ItemInv, ListOnce
      <4>9. \A x \in Keys : st'[x] = "ready" => \E i \in 1..Len(registered') : registered'[i].k = x
        <5> TAKE x \in Keys
        <5> HAVE st'[x] = "ready"
        <5>1. x # k /\ st[x] = "ready"
          BY <2>2
        <5>2. PICK i \in 1..Len(registered) : registered[i].k = x
          BY <5>1 DEF ItemInv, ListOnce
        <5>3. PICK j \in 1..Len(registered') : was(j) = i
          BY <4>5, <4>6, <5>1, <5>2
        <5> QED
          BY <4>3, <5>2, <5>3
      <4> QED
        BY <4>7, <4>8, <4>9 DEF ListOnce
    <3> QED
      BY <3>4, <3>5
  <2> QED
    BY <2>4, <2>5, <2>6 DEF ItemInv
<1> QED
  BY <1>1, <1>2

LEMMA InitItems == Init => ItemInv
<1> SUFFICES ASSUME Init PROVE ItemInv
  OBVIOUS
<1>1. CurItem /\ ListOnce
  BY EmptySeq, KeyFacts DEF Init, CurItem, ListOnce
<1>2. PanelInv
  BY DEF Init, PanelInv, Ready
<1> QED
  BY <1>1, <1>2 DEF ItemInv

LEMMA NextItems == TypeOK /\ ItemInv /\ [Next]_vars => ItemInv'
<1> SUFFICES ASSUME TypeOK, ItemInv, [Next]_vars PROVE ItemInv'
  OBVIOUS
<1>1. CASE LoopStep
  BY <1>1, ItemInvKept, ItemInvSame, DiscoverItems, CallbackItems, ItemReadyItems, RemoveItemItems DEF LoopStep
<1>2. CASE TargetBus \/ Panel
  BY <1>2, CallbackItems, PanelAnswersItems DEF Panel
<1> QED
  BY <1>1, <1>2, ItemInvKept, ItemInvSame DEF Next

LEMMA ItemInvHolds == Spec => [](TypeOK /\ ItemInv)
<1>1. Init => TypeOK /\ ItemInv
  BY InitType, InitItems
<1>2. TypeOK /\ ItemInv /\ [Next]_vars => (TypeOK /\ ItemInv)'
  BY NextType, NextItems
<1> QED
  BY <1>1, <1>2, PTL DEF Spec

LEMMA ListFromItems == TypeOK /\ ItemInv => ListMatchesItems
<1> SUFFICES ASSUME TypeOK, ItemInv, ~ renamer
             PROVE  /\ \A i, j \in 1..Len(registered) : registered[i] = registered[j] => i = j
                    /\ {registered[i] : i \in 1..Len(registered)} = {AdvertOf(k) : k \in Ready}
  BY DEF ListMatchesItems
<1>1. \A i, j \in 1..Len(registered) : registered[i] = registered[j] => i = j
  BY DEF ItemInv, ListOnce
<1>2. \A k : AdvertOf(k) = [k |-> k, n |-> 0]
  BY DEF AdvertOf
<1>3. ASSUME NEW i \in 1..Len(registered)
      PROVE  registered[i].k \in Ready /\ registered[i] = AdvertOf(registered[i].k)
  <2>1. registered[i] \in Advert /\ registered[i].n = 0 /\ st[registered[i].k] = "ready"
    BY TypeParts, SeqFacts DEF ItemInv, ListOnce, ListType
  <2> QED
    BY <1>2, <2>1 DEF Ready, Advert
<1>4. ASSUME NEW k \in Ready
      PROVE  \E i \in 1..Len(registered) : registered[i] = AdvertOf(k)
  <2>1. PICK i \in 1..Len(registered) : registered[i].k = k
    BY DEF ItemInv, ListOnce, Ready
  <2> QED
    BY <1>3, <2>1
<1>5. {registered[i] : i \in 1..Len(registered)} \subseteq {AdvertOf(k) : k \in Ready}
  BY <1>3
<1>6. {AdvertOf(k) : k \in Ready} \subseteq {registered[i] : i \in 1..Len(registered)}
  BY <1>4
<1> QED
  BY <1>1, <1>5, <1>6

(* Outside the renamer, RegisteredStatusNotifierItems lists every ready item  *)
(* once and nothing else, however the calls to add_registered_item and        *)
(* remove_item follow one another.                                            *)
THEOREM ListIsExact == Spec => []ListMatchesItems
  BY ItemInvHolds, ListFromItems, PTL

-----------------------------------------------------------------------------
(* How the queue changes. *)

(* A step of the queue that takes nothing out of S and adds nothing to A. *)
Kept(A, S) ==
  \/ queue' = queue
  \/ \E m \in Msg \ A : queue' = Append(queue, m)
  \/ \E m, l \in Msg \ A : queue' = Append(Append(queue, m), l)
  \/ queue # <<>> /\ queue' = Tail(queue) /\ Head(queue) \notin S

LEMMA KeptQueue ==
  ASSUME TypeOK, NEW A, NEW S, Kept(A, S)
  PROVE  /\ Has(queue, S) => Has(queue', S)
         /\ Followed(queue, A, S) => Followed(queue', A, S)
<1>1. queue \in Seq(Msg)
  BY TypeParts DEF QueueType
<1>2. CASE queue' = queue
  BY <1>2 DEF Has, Followed
<1>3. CASE \E m \in Msg \ A : queue' = Append(queue, m)
  BY <1>1, <1>3, HasAppend, FollowedAppend
<1>4. CASE \E m, l \in Msg \ A : queue' = Append(Append(queue, m), l)
  <2>1. PICK m, l \in Msg \ A : queue' = Append(Append(queue, m), l)
    BY <1>4
  <2> DEFINE r == Append(queue, m)
  <2>2. r \in Seq(Msg) /\ (Has(queue, S) => Has(r, S)) /\ (Followed(queue, A, S) => Followed(r, A, S))
    BY <1>1, AppendFacts, HasAppend, FollowedAppend
  <2>3. queue' = Append(r, l)
    BY <2>1
  <2> HIDE DEF r
  <2> QED
    BY <2>2, <2>3, HasAppend, FollowedAppend
<1>5. CASE queue # <<>> /\ queue' = Tail(queue) /\ Head(queue) \notin S
  BY <1>1, <1>5, HasTail, FollowedTail
<1> QED
  BY <1>2, <1>3, <1>4, <1>5 DEF Kept

(* A message that belongs to S makes the queue right whatever it was. *)
LEMMA ToldQueue ==
  ASSUME TypeOK, NEW A, NEW S, NEW m \in Msg, m \notin A, m \in S, queue' = Append(queue, m)
  PROVE  Has(queue', S) /\ Followed(queue', A, S)
  BY TypeParts, HasAppend, FollowedAppend DEF QueueType

(* Taking the head of the queue. *)
LEMMA TakenQueue ==
  ASSUME TypeOK, NEW t, Dispatch(t), NEW A, NEW S, Followed(queue, A, S)
  PROVE  Followed(queue', A, S) /\ (Head(queue) \in A => Has(queue', S))
  BY TypeParts, FollowedTail DEF QueueType, Dispatch

LEMMA HandlerFree ==
  ASSUME NEW t, Dispatch(t)
  PROVE  plan = <<>> /\ todo = {} /\ dels = {} /\ cur = NoCall
  BY DEF Dispatch, Idle, Free

-----------------------------------------------------------------------------
(* No item under a unique name while another watcher is in charge. *)

LEMMA UniqueKept ==
  ASSUME TypeOK, UniqueGoes, watcher' = watcher, Kept(Unique, Lost), Settled => Settled' \/ Has(queue', Lost)
  PROVE  UniqueGoes'
  BY KeptQueue DEF UniqueGoes

LEMMA SettledSame ==
  ASSUME Settled, UNCHANGED <<st, todo, dels, passive>>
  PROVE  Settled'
  BY DEF Settled, Tracked

LEMMA AppUnique ==
  ASSUME TypeOK, UniqueGoes, AppStep
  PROVE  UniqueGoes'
<1>1. watcher' = watcher /\ (Settled => Settled')
  BY AppStepFrame, SettledSame DEF handler, items
<1>2. ASSUME NEW a \in Apps, NEW k \in Keys, AppRegisters(a, k), watcher = "theirs" PROVE UniqueGoes'
  BY <1>1, <1>2, UniqueKept DEF AppRegisters, Kept
<1>3. ASSUME NEW n \in Names, AppOwns(n) \/ AppReleases(n) PROVE UniqueGoes'
  <2>1. M("appeared", n, NoApp) \in Msg \ Unique /\ M("vanished", n, NoApp) \in Msg \ Unique
    BY MakeMessage, MessageFields DEF Unique
  <2> QED
    BY <1>1, <1>3, <2>1, UniqueKept, ReportQueue DEF AppOwns, AppReleases, Kept
<1>4. ASSUME NEW a \in Apps, AppExits(a) PROVE UniqueGoes'
  <2>1. M("gone", a, NoApp) \in Msg \ Unique
    BY MakeMessage, MessageFields DEF Unique
  <2> QED
    BY <1>1, <1>4, <2>1, UniqueKept, ReportQueue DEF AppExits, Kept
<1>5. watcher # "theirs" => UniqueGoes'
  BY <1>1 DEF UniqueGoes
<1> QED
  BY <1>2, <1>3, <1>4, <1>5 DEF AppStep

(* Another watcher that stays: what it adds to the queue. *)
OtherStays == OtherHandles \/ \E p \in Proxies : OtherAdvertises(p)

LEMMA StaysQueue ==
  ASSUME TypeOK, OtherStays
  PROVE  /\ watcher = "theirs" /\ watcher' = "theirs"
         /\ \/ queue' = queue
            \/ passive /\ \E k \in Names \cup Proxies, t \in {"registered", "unregistered"} :
                 M(t, k, NoApp) \in Msg /\ queue' = Append(queue, M(t, k, NoApp))
            \/ OtherGone
<1> USE KeyFacts
<1>1. ASSUME NEW p \in Proxies, OtherAdvertises(p)
      PROVE  /\ watcher = "theirs" /\ watcher' = watcher
             /\ \/ queue' = queue
                \/ passive /\ M("registered", p, NoApp) \in Msg /\ queue' = Append(queue, M("registered", p, NoApp))
  BY <1>1, EmitsQueue DEF OtherAdvertises
<1>2. ASSUME OtherAppeared \/ OtherRegister \/ OtherVanished \/ OtherGone PROVE watcher = "theirs" /\ watcher' = watcher
  BY <1>2 DEF OtherAppeared, OtherRegister, OtherVanished, OtherGone, OtherDispatch
<1>3. ASSUME OtherAppeared \/ OtherRegister
      PROVE  \/ queue' = queue
             \/ passive /\ \E k \in Names : M("registered", k, NoApp) \in Msg /\ queue' = Append(queue, M("registered", k, NoApp))
  <2>1. OtherAppeared => Head(oqueue).k \in Names
    BY OtherTakesHead, ReadMessage DEF OtherAppeared
  <2>2. \A a : NameOf(a) \subseteq Names
    BY TypeParts DEF NameOf, OutsideType
  <2>3. (\E n \in Names : OtherLists(n)) \/ queue' = queue
    BY <1>3, <2>1, <2>2 DEF OtherAppeared, OtherRegister, OtherServes
  <2> QED
    BY <2>3, ListsQueue
<1>4. ASSUME OtherVanished
      PROVE  \/ queue' = queue
             \/ passive /\ \E k \in Names : M("unregistered", k, NoApp) \in Msg /\ queue' = Append(queue, M("unregistered", k, NoApp))
  <2>1. Head(oqueue).k \in Names
    BY <1>4, OtherTakesHead, ReadMessage DEF OtherVanished
  <2>2. OtherEmits("unregistered", Head(oqueue).k) \/ queue' = queue
    BY <1>4 DEF OtherVanished
  <2> QED
    BY <2>1, <2>2, EmitsQueue
<1> QED
  BY <1>1, <1>2, <1>3, <1>4 DEF OtherStays, OtherHandles

LEMMA OtherUnique ==
  ASSUME TypeOK, UniqueGoes, OtherStep
  PROVE  UniqueGoes'
<1>1. Settled => Settled'
  BY SettledSame, OtherStepFrame DEF handler, items
<1>2. ASSUME OtherTakes PROVE UniqueGoes'
  <2>1. M("lost", NoApp, NoApp) \in Msg /\ M("lost", NoApp, NoApp) \in Lost /\ M("lost", NoApp, NoApp) \notin Unique
    BY MakeMessage, MessageFields DEF Lost, Unique
  <2> QED
    BY <1>2, <2>1, ToldQueue DEF OtherTakes, UniqueGoes
<1>3. ASSUME OtherLeaves \/ \E p \in Proxies : OtherCloses(p) PROVE UniqueGoes'
  BY <1>3 DEF OtherLeaves, OtherCloses, UniqueGoes
<1>4. ASSUME OtherStays PROVE UniqueGoes'
  <2>1. \A k \in Names \cup Proxies, t \in {"registered", "unregistered"} : M(t, k, NoApp) \notin Unique
    BY MessageFields, KeyFacts DEF Unique
  <2>2. \A k : M("gone", k, NoApp) \notin Unique /\ M("unregistered", k, NoApp) \notin Unique
    BY MessageFields DEF Unique
  <2>3. watcher' = watcher
    BY <1>4, StaysQueue
  <2>4. CASE OtherGone
    <3>1. Kept(Unique, Lost)
      BY <2>2, <2>4, GoneQueue DEF Kept
    <3> QED
      BY <1>1, <2>3, <3>1, UniqueKept
  <2>5. CASE ~ OtherGone
    <3>1. Kept(Unique, Lost)
      BY <1>4, <2>1, <2>5, StaysQueue DEF Kept
    <3> QED
      BY <1>1, <2>3, <3>1, UniqueKept
  <2> QED
    BY <2>4, <2>5
<1> QED
  BY <1>2, <1>3, <1>4 DEF OtherStep, OtherStays

LEMMA HandlersUnique ==
  ASSUME TypeOK, UniqueGoes,
         \/ HandleRegister \/ HandleAppeared \/ HandleVanished \/ HandleGone \/ HandleAcquired
         \/ HandleItemRegistered \/ HandleItemUnregistered
  PROVE  UniqueGoes'
<1> SUFFICES ASSUME watcher = "theirs" PROVE UniqueGoes'
  BY DEF UniqueGoes, outside, HandleRegister, HandleAppeared, HandleVanished, HandleGone,
     HandleAcquired, HandleItemRegistered, HandleItemUnregistered
<1>1. PICK t \in {"register", "appeared", "vanished", "gone", "acquired", "registered", "unregistered"} :
        Dispatch(t)
  BY DEF HandleRegister, HandleAppeared, HandleVanished, HandleGone,
     HandleAcquired, HandleItemRegistered, HandleItemUnregistered
<1>2. UNCHANGED <<watcher, st, passive>>
  BY DEF outside, items, HandleRegister, HandleAppeared, HandleVanished, HandleGone,
     HandleAcquired, HandleItemRegistered, HandleItemUnregistered
<1>3. todo' = {} \/ (t \in {"register", "appeared", "registered"} /\ todo' = {Head(queue).k})
  <2>1. todo = {} /\ Head(queue).t = t
    BY <1>1, HandlerFree, DispatchType
  <2> QED
    BY <2>1, DispatchType DEF HandleRegister, HandleAppeared, HandleVanished, HandleGone,
       HandleAcquired, HandleItemRegistered, HandleItemUnregistered
<1>4. Kept(Unique, Lost)
  BY <1>1, DispatchType DEF Kept, Lost
<1>5. Head(queue) \in Unique => Has(queue', Lost)
  BY <1>1, TakenQueue DEF UniqueGoes
<1>6. todo' \cap Apps # {} => Head(queue) \in Unique
  <2>1. Head(queue) \in Msg /\ Head(queue).t = t
    BY <1>1, DispatchType
  <2>2. t = "appeared" => Head(queue).k \notin Apps
    BY <2>1, ReadMessage, KeyFacts
  <2> QED
    BY <1>3, <2>1, <2>2 DEF Unique
<1>7. Settled => Settled' \/ Has(queue', Lost)
  <2>1. dels = {}
    BY <1>1, HandlerFree
  <2> QED
    BY <1>2, <1>5, <1>6, <2>1 DEF Settled, Tracked
<1> QED
  BY <1>2, <1>4, <1>7, UniqueKept

LEMMA LostUnique ==
  ASSUME TypeOK, UniqueGoes, HandleLost
  PROVE  UniqueGoes'
<1>1. Dispatch("lost") /\ todo = {}
  BY HandlerFree DEF HandleLost
<1>2. Settled'
  BY <1>1 DEF HandleLost, SubscribeToPassiveWatcherSignals, Settled, Tracked, items
<1>3. Followed(queue, Unique, Lost) => Followed(queue', Unique, Lost)
  BY <1>1, TakenQueue
<1> QED
  BY <1>2, <1>3 DEF UniqueGoes, HandleLost, outside

LEMMA PlanUnique ==
  ASSUME TypeOK, UniqueGoes, SendReply \/ InitialScan \/ Bootstrap
  PROVE  UniqueGoes'
<1>1. Settled => Settled'
  <2>1. owned \cap Apps = {} /\ others \cap Apps = {}
    BY TypeParts, KeyFacts, Zenon DEF OutsideType
  <2> QED
    BY <2>1 DEF SendReply, InitialScan, Bootstrap, Settled, Tracked, items
<1>2. Kept(Unique, Lost) /\ watcher' = watcher
  BY DEF SendReply, InitialScan, Bootstrap, Kept, bus, outside
<1> QED
  BY <1>1, <1>2, UniqueKept

(* Whether an item is tracked. *)
LEMMA TrackedNew ==
  ASSUME TypeOK, NEW k \in Keys, DiscoverDirect(k) \/ DiscoverItem(k)
  PROVE  st'[k] # "none" /\ \A j \in Keys \ {k} : st'[j] = st[j]
<1>1. st \in [Keys -> {"none", "new", "owning", "waiting", "stuck", "ready"}]
  BY TypeParts DEF ItemType
<1>2. CASE DiscoverDirect(k)
  BY <1>1, <1>2 DEF DiscoverDirect
<1>3. CASE DiscoverItem(k)
  BY <1>1, <1>3 DEF DiscoverItem
<1> QED
  BY <1>2, <1>3

LEMMA TrackedSame ==
  ASSUME TypeOK, CurItem, MenuPrefetched \/ ItemReady \/ TargetBus
  PROVE  \A j \in Keys : st'[j] # "none" <=> st[j] # "none"
<1>1. st \in [Keys -> {"none", "new", "owning", "waiting", "stuck", "ready"}]
  BY TypeParts DEF ItemType
<1>2. CASE MenuPrefetched \/ ItemReady
  <2>1. cur # NoCall
    BY <1>2 DEF MenuPrefetched, ItemReady
  <2>2. cur.k \in Keys /\ cur.stage \in {"prefetch", "acquired"}
    BY <2>1, TypeParts, CallFields
  <2>3. st[cur.k] # "none"
    BY <2>1, <2>2 DEF CurItem
  <2> QED
    BY <1>1, <1>2, <2>2, <2>3 DEF MenuPrefetched, ItemReady
<1>3. CASE TargetBus
  BY <1>1, <1>3 DEF TargetBus, ItemNameAcquired, ItemNameLost, ItemNotExported, Asking, items
<1> QED
  BY <1>2, <1>3

(* An item that cannot ask for its name is dropped. *)
LEMMA TrackedDropped ==
  ASSUME TypeOK, OwnNameFails
  PROVE  /\ cur.k \in Keys /\ st'[cur.k] = "none" /\ missed' = missed \cup {cur.k}
         /\ \A j \in Keys \ {cur.k} : st'[j] = st[j]
<1>1. cur.k \in Keys
  BY TypeParts, CallFields DEF OwnNameFails
<1> QED
  BY <1>1, TypeParts DEF OwnNameFails, Misses, ItemType

LEMMA TrackedLess ==
  ASSUME TypeOK, NEW k \in Keys, RemoveItem(k)
  PROVE  st'[k] = "none" /\ \A j \in Keys \ {k} : st'[j] = st[j]
<1>1. st \in [Keys -> {"none", "new", "owning", "waiting", "stuck", "ready"}]
  BY TypeParts DEF ItemType
<1>2. CASE st[k] = "none"
  BY <1>2 DEF RemoveItem, items
<1>3. CASE st[k] # "none"
  BY <1>1, <1>3 DEF RemoveItem, Discard
<1> QED
  BY <1>2, <1>3

(* A new item comes from todo, under its own name or a name that is owned. *)
LEMMA NewFrom ==
  ASSUME TypeOK, NEW k \in Keys, NewItem(k)
  PROVE  /\ k \in todo \/ k \in owned
         /\ k \in Apps \cup Proxies => k \in todo
         /\ todo' \subseteq todo /\ todo \ todo' \subseteq Apps \cup {k}
         /\ cur = NoCall /\ dels = {} /\ st[k] = "none"
<1>1. PICK t \in todo : k \in Resolve(t) /\ todo' = todo \ {t}
  BY DEF NewItem
<1>2. t \in Keys
  BY TypeParts DEF HandlerType
<1>3. k = t \/ (t \in Apps /\ k \in owned /\ k \in Names)
  BY <1>1, <1>2, TypeParts, ResolveType
<1> QED
  BY <1>1, <1>2, <1>3, KeyFacts DEF NewItem

LEMMA DiscoverUnique ==
  ASSUME TypeOK, UniqueGoes, NEW k \in Keys,
         AlreadyTracked(k) \/ DiscoverDirect(k) \/ DiscoverItem(k) \/ DiscoverFails(k)
  PROVE  UniqueGoes'
<1> SUFFICES ASSUME watcher = "theirs" PROVE UniqueGoes'
  BY DEF UniqueGoes, outside, AlreadyTracked, DiscoverDirect, DiscoverItem, DiscoverFails
<1>1. watcher' = watcher /\ passive' = passive /\ dels' = dels /\ queue' = queue
  BY DEF outside, AlreadyTracked, DiscoverDirect, DiscoverItem, DiscoverFails, Emit, bus
<1>2. Settled => Settled'
  <2>1. ASSUME AlreadyTracked(k) PROVE todo' \subseteq todo /\ st' = st
    BY <2>1 DEF AlreadyTracked, items
  <2>2. ASSUME DiscoverFails(k) PROVE todo' \subseteq todo /\ st' = st
    BY <2>2, NewFrom DEF DiscoverFails
  <2>3. ASSUME DiscoverDirect(k) \/ DiscoverItem(k)
        PROVE  todo' \subseteq todo /\ (k \in Apps => k \in todo) /\ \A j \in Keys \ {k} : st'[j] = st[j]
    BY <2>3, NewFrom, TrackedNew DEF DiscoverDirect, DiscoverItem
  <2> QED
    BY <1>1, <2>1, <2>2, <2>3, KeyFacts DEF Settled, Tracked
<1> QED
  BY <1>1, <1>2, UniqueKept DEF Kept

(* What the callbacks of the target bus and of blocking calls leave alone. *)
LEMMA CallbackFrame ==
  ASSUME MenuPrefetched \/ OwnNameFails \/ ItemReady \/ TargetBus \/ Panel
  PROVE  /\ UNCHANGED <<renamer, filtered, plan, todo, dels, reply, passive, outside, pending>>
         /\ UNCHANGED bus \/ Emit("registered", cur.k)
         /\ UNCHANGED <<alive, owned, watcher, oqueue, others, serves, open>>
  BY DEF MenuPrefetched, OwnNameFails, ItemReady, TargetBus, ItemNameAcquired, ItemNameLost, ItemNotExported,
     Panel, PanelAnswers, handler, outside, other

LEMMA EchoedElsewhere ==
  ASSUME watcher = "theirs", NEW t, NEW k, UNCHANGED bus \/ Emit(t, k)
  PROVE  queue' = queue /\ echoes' = echoes
  BY DEF Emit, bus

LEMMA CallbackUnique ==
  ASSUME TypeOK, CurItem, UniqueGoes, MenuPrefetched \/ OwnNameFails \/ ItemReady \/ TargetBus \/ Panel
  PROVE  UniqueGoes'
<1> SUFFICES ASSUME watcher = "theirs" PROVE UniqueGoes'
  BY CallbackFrame DEF UniqueGoes
<1>1. UNCHANGED <<watcher, passive, dels, todo, queue>>
  BY CallbackFrame, EchoedElsewhere
<1>2. Tracked' \subseteq Tracked
  <2>1. CASE MenuPrefetched \/ ItemReady \/ TargetBus
    BY <2>1, TrackedSame DEF Tracked
  <2>2. CASE OwnNameFails
    BY <2>2, TrackedDropped DEF Tracked
  <2>3. CASE Panel
    BY <2>3 DEF Tracked, Panel, PanelAnswers
  <2> QED
    BY <2>1, <2>2, <2>3
<1> QED
  BY <1>1, <1>2, UniqueKept DEF Kept, Settled

LEMMA RemoveUnique ==
  ASSUME TypeOK, UniqueGoes, NEW k \in Keys, RemoveItem(k)
  PROVE  UniqueGoes'
<1> SUFFICES ASSUME watcher = "theirs" PROVE UniqueGoes'
  BY DEF UniqueGoes, outside, RemoveItem
<1>1. UNCHANGED <<watcher, passive, todo, queue>> /\ dels' = dels \ {k}
  BY DEF outside, bus, RemoveItem, Discard, Emit
<1>2. Settled => Settled'
  BY <1>1, TrackedLess DEF Settled, Tracked
<1> QED
  BY <1>1, <1>2, UniqueKept DEF Kept

LEMMA InitUnique == Init => UniqueGoes
<1> SUFFICES ASSUME Init, watcher = "theirs" PROVE Has(queue, Lost) /\ Followed(queue, Unique, Lost)
  BY DEF UniqueGoes
<1> DEFINE m == M("lost", NoApp, NoApp)
<1>1. m \in Lost /\ m \notin Unique /\ queue = <<m>>
  BY MakeMessage, MessageFields DEF Lost, Unique, Init
<1> HIDE DEF m
<1>2. Len(queue) = 1 /\ queue[1] = m
  BY <1>1
<1> QED
  BY <1>1, <1>2 DEF Has, Followed

LEMMA NextUnique == TypeOK /\ CurItem /\ UniqueGoes /\ [Next]_vars => UniqueGoes'
<1> SUFFICES ASSUME TypeOK, CurItem, UniqueGoes, [Next]_vars PROVE UniqueGoes'
  OBVIOUS
<1>1. CASE LoopStep
  BY <1>1, HandlersUnique, LostUnique, PlanUnique, DiscoverUnique, CallbackUnique, RemoveUnique DEF LoopStep
<1>2. CASE TargetBus \/ Panel
  BY <1>2, CallbackUnique
<1>3. CASE UNCHANGED vars
  <2>1. Kept(Unique, Lost) /\ UNCHANGED <<watcher, st, todo, dels, passive>>
    BY <1>3 DEF vars, bus, handler, items, outside, Kept
  <2> QED
    BY <2>1, UniqueKept, SettledSame
<1> QED
  BY <1>1, <1>2, <1>3, AppUnique, OtherUnique DEF Next

LEMMA UniqueHolds == Spec => [](TypeOK /\ ItemInv /\ UniqueGoes)
<1>1. Init => UniqueGoes
  BY InitUnique
<1>2. TypeOK /\ ItemInv /\ UniqueGoes /\ [Next]_vars => UniqueGoes'
  BY NextUnique DEF ItemInv
<1> QED
  BY <1>1, <1>2, ItemInvHolds, PTL DEF Spec

(* While another watcher is in charge no item goes by a unique name:          *)
(* on_watcher_name_lost removes the ones there are, and one that is being     *)
(* discovered when the name is lost becomes an item before the loss is        *)
(* handled, so that it is removed with them.                                  *)
THEOREM NoUniqueName == Spec => []NoUniqueWhilePassive
<1>1. TypeOK /\ UniqueGoes => NoUniqueWhilePassive
  <2> SUFFICES ASSUME TypeOK, UniqueGoes, passive, watcher = "theirs", dels = {},
                      \A i \in 1..Len(queue) : queue[i].t # "lost"
               PROVE  Tracked \cap Apps = {}
    BY DEF NoUniqueWhilePassive
  <2>1. ~ Has(queue, Lost)
    BY DEF Has, Lost
  <2> QED
    BY <2>1 DEF UniqueGoes, Settled
<1> QED
  BY <1>1, UniqueHolds, PTL

-----------------------------------------------------------------------------
(* The steps of the main loop, by what they do to the invariants below. *)

Handler == \/ HandleRegister \/ HandleAppeared \/ HandleVanished \/ HandleGone \/ HandleAcquired
           \/ HandleLost \/ HandleItemRegistered \/ HandleItemUnregistered
Works   == \/ SendReply \/ MenuPrefetched \/ OwnNameFails \/ ItemReady \/ TargetBus \/ Panel
           \/ \E k \in Keys : \/ AlreadyTracked(k) \/ DiscoverDirect(k) \/ DiscoverItem(k)
                              \/ DiscoverFails(k) \/ RemoveItem(k)
           \/ UNCHANGED vars
Ours    == Handler \/ InitialScan \/ Bootstrap \/ Works

LEMMA NextSteps == [Next]_vars <=> AppStep \/ OtherStep \/ Ours
  BY Zenon DEF Next, LoopStep, Ours, Handler, Works

LEMMA OtherSteps == OtherStep <=> OtherTakes \/ OtherLeaves \/ (\E p \in Proxies : OtherCloses(p)) \/ OtherStays
  BY Zenon DEF OtherStep, OtherStays

LEMMA WorksFrame ==
  ASSUME TypeOK, Works
  PROVE  /\ UNCHANGED <<renamer, filtered, plan, passive, alive, owned, watcher, oqueue, others, serves, open>>
         /\ UNCHANGED bus \/ \E t \in {"registered", "unregistered"}, k \in Keys : Emit(t, k)
<1>1. ASSUME SendReply \/ \E k \in Keys : AlreadyTracked(k) \/ DiscoverItem(k) \/ DiscoverFails(k)
      PROVE  /\ UNCHANGED <<renamer, filtered, plan, passive, alive, owned, watcher, oqueue, others, serves, open>>
             /\ UNCHANGED bus
  BY <1>1 DEF SendReply, AlreadyTracked, DiscoverItem, DiscoverFails, outside, other
<1>2. ASSUME NEW k \in Keys, DiscoverDirect(k) \/ RemoveItem(k)
      PROVE  /\ UNCHANGED <<renamer, filtered, plan, passive, alive, owned, watcher, oqueue, others, serves, open>>
             /\ UNCHANGED bus \/ Emit("registered", k) \/ Emit("unregistered", k)
  BY <1>2 DEF DiscoverDirect, RemoveItem, Discard, outside, other
<1>3. ASSUME UNCHANGED vars
      PROVE  /\ UNCHANGED <<renamer, filtered, plan, passive, alive, owned, watcher, oqueue, others, serves, open>>
             /\ UNCHANGED bus
  BY <1>3 DEF vars, handler, outside, other
<1>4. ASSUME MenuPrefetched \/ OwnNameFails \/ ItemReady \/ TargetBus \/ Panel
      PROVE  UNCHANGED bus \/ \E k \in Keys : Emit("registered", k)
  <2>1. ASSUME ItemReady PROVE cur.k \in Keys /\ Emit("registered", cur.k)
    BY <2>1, TypeParts, CallFields DEF ItemReady
  <2>2. ASSUME MenuPrefetched \/ OwnNameFails \/ TargetBus \/ Panel PROVE UNCHANGED bus
    BY <2>2 DEF MenuPrefetched, OwnNameFails, TargetBus, ItemNameAcquired, ItemNameLost, ItemNotExported,
       Panel, PanelAnswers
  <2> QED
    BY <1>4, <2>1, <2>2
<1> QED
  BY <1>1, <1>2, <1>3, <1>4, CallbackFrame DEF Works

LEMMA EmitQueue ==
  ASSUME TypeOK, NEW t \in {"registered", "unregistered"}, NEW k \in Keys, Emit(t, k)
  PROVE  \/ UNCHANGED bus
         \/ /\ passive /\ echoes' # 0 /\ M(t, k, NoApp) \in Msg /\ queue' = Append(queue, M(t, k, NoApp))
<1>1. M(t, k, NoApp) \in Msg
  BY MakeMessage
<1>2. echoes + 1 # 0
  BY TypeParts DEF QueueType
<1> QED
  BY <1>1, <1>2 DEF Emit

LEMMA WorksQueue ==
  ASSUME TypeOK, Works
  PROVE  \/ UNCHANGED bus
         \/ /\ passive /\ echoes' # 0
            /\ \E t \in {"registered", "unregistered"}, k \in Keys :
                 M(t, k, NoApp) \in Msg /\ queue' = Append(queue, M(t, k, NoApp))
  BY WorksFrame, EmitQueue

(* How a step of Works changes what is wanted: only what has an owner comes,  *)
(* and nothing goes that was not to go, unless it failed.                     *)
LEMMA WorksItems ==
  ASSUME TypeOK, CurItem, Works
  PROVE  /\ \A k \in Keys : Wanted(k)' => Wanted(k) \/ k \in owned
         /\ \A k \in Keys : Known(k)' => Known(k) \/ k \in owned \cup open
         /\ \A k \in Names \cup Proxies : Wanted(k) => Wanted(k)' \/ k \in missed'
         /\ missed \subseteq missed'
         /\ todo' \subseteq todo /\ \A p \in Proxies : st'[p] # "none" => st[p] # "none" \/ p \in todo
<1> DEFINE Right == /\ \A k \in Keys : Wanted(k)' => Wanted(k) \/ k \in owned
                    /\ \A k \in Keys : Known(k)' => Known(k) \/ k \in owned \cup open
                    /\ \A k \in Names \cup Proxies : Wanted(k) => Wanted(k)' \/ k \in missed'
                    /\ missed \subseteq missed'
                    /\ todo' \subseteq todo /\ \A p \in Proxies : st'[p] # "none" => st[p] # "none" \/ p \in todo
<1> USE DEF Wanted, Known
<1>1. ASSUME SendReply \/ UNCHANGED vars PROVE Right
  BY <1>1 DEF SendReply, vars, handler, items
<1>2. ASSUME MenuPrefetched \/ ItemReady \/ TargetBus PROVE Right
  <2>1. UNCHANGED <<todo, dels, uname>> /\ missed \subseteq missed'
    BY <1>2 DEF MenuPrefetched, ItemReady, TargetBus, ItemNameAcquired, ItemNameLost, ItemNotExported,
       Misses, items, handler
  <2>2. \A j \in Keys : st'[j] # "none" <=> st[j] # "none"
    BY <1>2, TrackedSame
  <2> QED
    BY <2>1, <2>2, KeyFacts
<1>3. ASSUME OwnNameFails PROVE Right
  <2>1. UNCHANGED <<todo, dels>> /\ \A j \in Keys \ {cur.k} : uname'[j] = uname[j]
    BY <1>3, TypeParts DEF OwnNameFails, ItemType
  <2> QED
    BY <1>3, <2>1, TrackedDropped, KeyFacts
<1>4. ASSUME Panel PROVE Right
  BY <1>4 DEF Panel, PanelAnswers, Misses, handler
<1>5. ASSUME NEW k \in Keys, AlreadyTracked(k) PROVE Right
  <2>1. k \in Names \cup Proxies => st[k] # "none"
    BY <1>5, KeyFacts DEF AlreadyTracked, Resolve
  <2>2. dels = {} /\ dels' = dels /\ todo' = todo \ {k} /\ UNCHANGED <<st, uname, missed>>
    BY <1>5 DEF AlreadyTracked, items
  <2> QED
    BY <2>1, <2>2
<1>6. ASSUME NEW k \in Keys, DiscoverDirect(k) \/ DiscoverItem(k) PROVE Right
  <2>1. /\ k \in todo \/ k \in owned
        /\ k \in Apps \cup Proxies => k \in todo
        /\ todo' \subseteq todo /\ todo \ todo' \subseteq Apps \cup {k}
        /\ dels = {} /\ st[k] = "none"
    BY <1>6, NewFrom DEF DiscoverDirect, DiscoverItem
  <2>2. st'[k] # "none" /\ \A j \in Keys \ {k} : st'[j] = st[j]
    BY <1>6, TrackedNew
  <2>3. uname'[k] = OwnerOf(k) /\ \A j \in Keys \ {k} : uname'[j] = uname[j]
    BY <1>6, TypeParts DEF DiscoverDirect, DiscoverItem, ItemType
  <2>4. OwnerOf(k) = NoApp \/ k \in owned \cup open
    BY OwnerType, TypeParts
  <2>5. dels' = dels /\ missed' = missed
    BY <1>6 DEF DiscoverDirect, DiscoverItem
  <2> QED
    BY <2>1, <2>2, <2>3, <2>4, <2>5, KeyFacts
<1>7. ASSUME NEW k \in Keys, DiscoverFails(k) PROVE Right
  <2>1. todo' \subseteq todo /\ todo \ todo' \subseteq Apps \cup {k}
    BY <1>7, NewFrom DEF DiscoverFails
  <2>2. UNCHANGED <<dels, st, uname>> /\ missed' = missed \cup {k}
    BY <1>7 DEF DiscoverFails, Misses
  <2> QED
    BY <2>1, <2>2, KeyFacts
<1>8. ASSUME NEW k \in Keys, RemoveItem(k) PROVE Right
  <2>1. k \in dels /\ dels' = dels \ {k} /\ todo' = todo /\ missed' = missed
    BY <1>8 DEF RemoveItem, items
  <2>2. st'[k] = "none" /\ \A j \in Keys \ {k} : st'[j] = st[j]
    BY <1>8, TrackedLess
  <2>3. \A j \in Keys \ {k} : uname'[j] = uname[j]
    BY <1>8, TypeParts DEF RemoveItem, Discard, items, ItemType
  <2> QED
    BY <2>1, <2>2, <2>3, KeyFacts
<1> HIDE DEF Right
<1>9. Right
  BY <1>1, <1>2, <1>3, <1>4, <1>5, <1>6, <1>7, <1>8 DEF Works
<1> QED
  BY <1>9 DEF Right

(* A handler takes a message when nothing else is to be done. *)
LEMMA HandlerEffect ==
  ASSUME TypeOK, Handler
  PROVE  LET m == Head(queue)
         IN  /\ m \in Msg /\ queue # <<>> /\ queue' = Tail(queue) /\ echoes' = echoes
             /\ plan = <<>> /\ todo = {} /\ dels = {}
             /\ UNCHANGED <<renamer, filtered, items, alive, owned, watcher, oqueue, others, serves, open>>
             /\ \/ m.t = "register" /\ todo' \subseteq {m.k} \cap (Apps \cup owned) /\ dels' = {}
                \/ m.t \in {"appeared", "registered"} /\ todo' = {m.k} /\ dels' = {}
                \/ m.t \in {"vanished", "unregistered"} /\ todo' = {} /\ dels' = {m.k}
                \/ m.t = "gone" /\ todo' = {} /\ dels' = {k \in Tracked : uname[k] = m.k} \cup ({m.k} \cap Apps \cap Tracked)
                \/ m.t = "acquired" /\ todo' = {} /\ dels' = {}
                \/ m.t = "lost" /\ todo' = {} /\ dels' = Tracked \cap Apps
             /\ IF m.t = "lost" THEN plan' = <<"scan", "boot">> /\ passive' = TRUE
                ELSE /\ passive' = passive
                     /\ plan' = IF m.t = "acquired" /\ ~ renamer THEN <<"scan">> ELSE <<>>
<1> DEFINE m == Head(queue)
           Common == /\ m \in Msg /\ queue # <<>> /\ queue' = Tail(queue) /\ echoes' = echoes
                     /\ plan = <<>> /\ todo = {} /\ dels = {}
                     /\ UNCHANGED <<renamer, filtered, items, alive, owned, watcher, oqueue, others, serves, open>>
<1>1. ASSUME NEW t, Dispatch(t), echoes' = echoes, UNCHANGED <<renamer, filtered, items, outside>>
      PROVE  Common /\ m.t = t
  BY <1>1, DispatchType, HandlerFree DEF outside, other
<1>2. ASSUME HandleRegister PROVE Common /\ m.t = "register" /\ todo' \subseteq {m.k} \cap (Apps \cup owned) /\ dels' = {}
                                  /\ passive' = passive /\ plan' = <<>>
  <2>1. Common /\ m.t = "register"
    BY <1>1, <1>2 DEF HandleRegister
  <2>2. m.from \in Apps
    BY <2>1, ReadMessage
  <2> QED
    BY <1>2, <2>1, <2>2 DEF HandleRegister, NameOf
<1>3. ASSUME HandleAppeared \/ HandleItemRegistered
      PROVE  Common /\ m.t \in {"appeared", "registered"} /\ todo' = {m.k} /\ dels' = {} /\ passive' = passive /\ plan' = <<>>
  BY <1>1, <1>3 DEF HandleAppeared, HandleItemRegistered
<1>4. ASSUME HandleVanished \/ HandleItemUnregistered
      PROVE  Common /\ m.t \in {"vanished", "unregistered"} /\ todo' = {} /\ dels' = {m.k} /\ passive' = passive /\ plan' = <<>>
  BY <1>1, <1>4 DEF HandleVanished, HandleItemUnregistered
<1>5. ASSUME HandleGone
      PROVE  /\ Common /\ m.t = "gone" /\ todo' = {} /\ passive' = passive /\ plan' = <<>>
             /\ dels' = {k \in Tracked : uname[k] = m.k} \cup ({m.k} \cap Apps \cap Tracked)
  BY <1>1, <1>5 DEF HandleGone
<1>6. ASSUME HandleAcquired
      PROVE  /\ Common /\ m.t = "acquired" /\ todo' = {} /\ dels' = {} /\ passive' = passive
             /\ plan' = IF renamer THEN <<>> ELSE <<"scan">>
  BY <1>1, <1>6 DEF HandleAcquired
<1>7. ASSUME HandleLost
      PROVE  /\ Common /\ m.t = "lost" /\ todo' = {} /\ dels' = Tracked \cap Apps /\ passive' = TRUE
             /\ plan' = <<"scan", "boot">>
  BY <1>1, <1>7 DEF HandleLost, SubscribeToPassiveWatcherSignals
<1> HIDE DEF m, Common
<1>8. Common
  BY <1>2, <1>3, <1>4, <1>5, <1>6, <1>7 DEF Handler
<1>9. /\ \/ m.t = "register" /\ todo' \subseteq {m.k} \cap (Apps \cup owned) /\ dels' = {}
         \/ m.t \in {"appeared", "registered"} /\ todo' = {m.k} /\ dels' = {}
         \/ m.t \in {"vanished", "unregistered"} /\ todo' = {} /\ dels' = {m.k}
         \/ m.t = "gone" /\ todo' = {} /\ dels' = {k \in Tracked : uname[k] = m.k} \cup ({m.k} \cap Apps \cap Tracked)
         \/ m.t = "acquired" /\ todo' = {} /\ dels' = {}
         \/ m.t = "lost" /\ todo' = {} /\ dels' = Tracked \cap Apps
      /\ IF m.t = "lost" THEN plan' = <<"scan", "boot">> /\ passive' = TRUE
         ELSE /\ passive' = passive
              /\ plan' = IF m.t = "acquired" /\ ~ renamer THEN <<"scan">> ELSE <<>>
  <2>1. CASE HandleRegister
    BY <1>2, <2>1
  <2>2. CASE HandleAppeared \/ HandleItemRegistered
    BY <1>3, <2>2
  <2>3. CASE HandleVanished \/ HandleItemUnregistered
    BY <1>4, <2>3
  <2>4. CASE HandleGone
    BY <1>5, <2>4
  <2>5. CASE HandleAcquired
    BY <1>6, <2>5
  <2>6. CASE HandleLost
    BY <1>7, <2>6
  <2> QED
    BY <2>1, <2>2, <2>3, <2>4, <2>5, <2>6 DEF Handler
<1> QED
  BY <1>8, <1>9 DEF m, Common

(* The scan of the names and the other watcher's list. *)
LEMMA PlanEffect ==
  ASSUME TypeOK, InitialScan \/ Bootstrap
  PROVE  /\ UNCHANGED <<renamer, filtered, bus, dels, items, passive, alive, owned, watcher, oqueue, others, serves, open>>
         /\ todo = {} /\ dels = {}
         /\ \/ Scanning /\ todo' = owned /\ plan' = IF Booting THEN <<"boot">> ELSE <<>>
            \/ Booting /\ ~ Scanning /\ todo' = others /\ plan' = <<>>
<1> USE TypeParts
<1>1. plan # <<>> /\ plan' = Tail(plan) /\ dels = {} /\ todo = {}
  BY DEF InitialScan, Bootstrap, Free
<1>2. /\ UNCHANGED <<renamer, filtered, bus, dels, items, passive, alive, owned, watcher, oqueue, others, serves, open>>
      /\ (Head(plan) = "scan" /\ todo' = owned) \/ (Head(plan) = "boot" /\ todo' = others)
  BY DEF InitialScan, Bootstrap, outside, other
<1>3. CASE plan = <<"scan">>
  BY <1>1, <1>2, <1>3, PlanValues, Zenon DEF Scanning, Booting
<1>4. CASE plan = <<"boot">>
  BY <1>1, <1>2, <1>4, PlanValues, Zenon DEF Scanning, Booting
<1>5. CASE plan = <<"scan", "boot">>
  BY <1>1, <1>2, <1>5, PlanValues, Zenon DEF Scanning, Booting
<1> QED
  BY <1>1, <1>3, <1>4, <1>5, Zenon DEF HandlerType

LEMMA OursFrame ==
  ASSUME TypeOK, Ours
  PROVE  UNCHANGED <<renamer, filtered, alive, owned, watcher, oqueue, others, serves, open>>
  BY WorksFrame, HandlerEffect, PlanEffect DEF Ours

LEMMA OursQueue ==
  ASSUME TypeOK, Ours
  PROVE  \/ queue' = queue
         \/ queue # <<>> /\ queue' = Tail(queue) /\ echoes' = echoes
         \/ /\ passive /\ echoes' # 0
            /\ \E t \in {"registered", "unregistered"}, k \in Keys :
                 M(t, k, NoApp) \in Msg /\ queue' = Append(queue, M(t, k, NoApp))
  BY WorksQueue, HandlerEffect, PlanEffect DEF Ours, bus

-----------------------------------------------------------------------------
(* The steps of the other watcher while it stays. *)

Announces(p) ==
  /\ p \in open \ others /\ others' = others \cup {p} /\ UNCHANGED <<oqueue, serves, open>>
  /\ IF passive THEN queue' = Append(queue, M("registered", p, NoApp)) ELSE queue' = queue
Reads == oqueue # <<>> /\ oqueue' = Tail(oqueue) /\ oqueue' \in Seq(Msg) /\ Head(oqueue) \in Msg
Lists(n) ==
  /\ Reads
  /\ Head(oqueue) \in Appeared(n) \/ (n \in owned /\ Head(oqueue).t = "register")
  /\ others' = others \cup {n} /\ UNCHANGED <<serves, open>>
  /\ IF passive /\ n \notin others THEN queue' = Append(queue, M("registered", n, NoApp)) ELSE queue' = queue
Opens(p, a) ==
  /\ Reads /\ Head(oqueue).t = "register" /\ UNCHANGED <<queue, others>>
  /\ serves[p] = NoApp /\ serves' = [serves EXCEPT ![p] = a] /\ open' = open \cup {p}
Passes ==
  Reads /\ Head(oqueue).t \in {"register", "gone"} /\ UNCHANGED <<queue, others, serves, open>>
Strikes(n) ==
  /\ Reads /\ Head(oqueue) \in Vanished(n) /\ others' = others \ {n} /\ UNCHANGED <<serves, open>>
  /\ IF passive /\ n \in others THEN queue' = Append(queue, M("unregistered", n, NoApp)) ELSE queue' = queue
Closes(p, a) ==
  /\ Reads /\ Head(oqueue).t = "gone" /\ UNCHANGED <<others, serves>> /\ open' = open \ {p} /\ p \in open
  /\ \/ queue' = Append(queue, M("gone", p, NoApp))
     \/ passive /\ queue' = Append(Append(queue, M("gone", p, NoApp)), M("unregistered", a, NoApp))
     \/ filtered /\ queue' = queue
     \/ filtered /\ passive /\ queue' = Append(queue, M("unregistered", a, NoApp))
OtherDoes ==
  \/ \E p \in Proxies : Announces(p)
  \/ \E n \in Names : Lists(n) \/ Strikes(n)
  \/ \E p \in Proxies, a \in Apps : Opens(p, a) \/ Closes(p, a)
  \/ Passes

LEMMA StaysCases ==
  ASSUME TypeOK, OtherStays
  PROVE  OtherDoes
<1>1. ASSUME NEW p \in Proxies, OtherAdvertises(p) PROVE Announces(p)
  BY <1>1, Zenon DEF OtherAdvertises, OtherEmits, Announces
<1>2. ASSUME NEW t, OtherDispatch(t) PROVE Reads /\ Head(oqueue).t = t
  BY <1>2, OtherTakesHead DEF Reads
<1>3. ASSUME NEW n, OtherLists(n)
      PROVE  /\ others' = others \cup {n} /\ UNCHANGED <<serves, open>>
             /\ IF passive /\ n \notin others THEN queue' = Append(queue, M("registered", n, NoApp)) ELSE queue' = queue
  BY <1>3, Zenon DEF OtherLists, OtherEmits
<1>4. ASSUME OtherAppeared PROVE \E n \in Names : Lists(n)
  <2>1. Reads /\ Head(oqueue).t = "appeared"
    BY <1>2, <1>4 DEF OtherAppeared
  <2>2. Head(oqueue).k \in Names /\ Head(oqueue) \in Appeared(Head(oqueue).k)
    BY <2>1, ReadMessage DEF Reads, Appeared
  <2> QED
    BY <1>3, <1>4, <2>1, <2>2 DEF OtherAppeared, Lists
<1>5. ASSUME OtherRegister
      PROVE  (\E n \in Names : Lists(n)) \/ (\E p \in Proxies, a \in Apps : Opens(p, a)) \/ Passes
  <2> DEFINE a == Head(oqueue).from
  <2>1. Reads /\ Head(oqueue).t = "register"
    BY <1>2, <1>5 DEF OtherRegister
  <2>2. a \in Apps
    BY <2>1, ReadMessage DEF Reads
  <2>3. \/ \E n \in NameOf(a) : OtherLists(n)
        \/ OtherServes(a)
        \/ UNCHANGED <<queue, others, serves, open>>
    BY <1>5 DEF OtherRegister
  <2>4. NameOf(a) \subseteq owned /\ owned \subseteq Names
    BY TypeParts DEF NameOf, OutsideType
  <2> HIDE DEF a
  <2>5. ASSUME NEW n \in NameOf(a), OtherLists(n) PROVE n \in Names /\ Lists(n)
    BY <1>3, <2>1, <2>4, <2>5 DEF Lists
  <2>6. ASSUME OtherServes(a) PROVE \E p \in Proxies : Opens(p, a)
    BY <2>1, <2>6, Zenon DEF OtherServes, Opens
  <2>7. UNCHANGED <<queue, others, serves, open>> => Passes
    BY <2>1 DEF Passes
  <2> QED
    BY <2>2, <2>3, <2>5, <2>6, <2>7
<1>6. ASSUME OtherVanished PROVE \E n \in Names : Strikes(n)
  <2>1. Reads /\ Head(oqueue).t = "vanished"
    BY <1>2, <1>6 DEF OtherVanished
  <2>2. Head(oqueue).k \in Names /\ Head(oqueue) \in Vanished(Head(oqueue).k)
    BY <2>1, ReadMessage DEF Reads, Vanished
  <2>3. Strikes(Head(oqueue).k)
    BY <1>6, <2>1, <2>2, Zenon DEF OtherVanished, OtherEmits, Strikes
  <2> QED
    BY <2>2, <2>3
<1>7. ASSUME OtherGone PROVE (\E p \in Proxies, a \in Apps : Closes(p, a)) \/ Passes
  <2>1. Reads /\ Head(oqueue).t = "gone" /\ UNCHANGED <<others, serves>>
    BY <1>2, <1>7 DEF OtherGone
  <2>2. CASE UNCHANGED <<queue, open>>
    BY <2>1, <2>2 DEF Passes
  <2>3. CASE ~ UNCHANGED <<queue, open>>
    <3>1. PICK p \in open, a \in Apps :
            /\ open' = open \ {p}
            /\ \/ queue' = Append(queue, M("gone", p, NoApp))
               \/ passive /\ queue' = Append(Append(queue, M("gone", p, NoApp)), M("unregistered", a, NoApp))
               \/ filtered /\ queue' = queue
               \/ filtered /\ passive /\ queue' = Append(queue, M("unregistered", a, NoApp))
      BY <1>7, <2>3, GoneQueue
    <3>2. p \in Proxies
      BY TypeParts DEF OutsideType
    <3>3. Closes(p, a)
      BY <2>1, <3>1 DEF Closes
    <3> QED
      BY <3>2, <3>3
  <2> QED
    BY <2>2, <2>3
<1> QED
  BY <1>1, <1>4, <1>5, <1>6, <1>7 DEF OtherStays, OtherHandles, OtherDoes

(* Which sets a message is in. *)
LEMMA InSets ==
  ASSUME NEW t, NEW k, NEW a, M(t, k, a) \in Msg
  PROVE  /\ M(t, k, a) \in Lost <=> t = "lost"
         /\ M(t, k, a) \in Signals <=> t \in {"registered", "unregistered"}
         /\ M(t, k, a) \in Owners <=> t \in {"appeared", "vanished"}
         /\ \A n : M(t, k, a) \in Appeared(n) <=> t = "appeared" /\ k = n
         /\ \A n : M(t, k, a) \in Vanished(n) <=> t = "vanished" /\ k = n
         /\ \A n : M(t, k, a) \in Gone(n) <=> t = "gone" /\ k = n
         /\ \A n : M(t, k, a) \in Adds(n) <=> t \in {"register", "registered"} /\ k = n
         /\ \A n : M(t, k, a) \in Brings(n) <=> \/ t = "lost" \/ (t = "acquired" /\ n \in Names)
                                                \/ t \in {"appeared", "registered"} /\ k = n
         /\ \A n : M(t, k, a) \in Takes(n) <=> \/ t \in {"vanished", "unregistered"} /\ k = n
                                               \/ t = "gone" /\ k = Src(n)
  BY MessageFields DEF Lost, Signals, Owners, Appeared, Vanished, Gone, Adds, Brings, Takes

(* The queue goes on lacking what no step adds. *)
LEMMA LacksKept ==
  ASSUME TypeOK, NEW A, ~ Has(queue, A), Kept(A, {})
  PROVE  ~ Has(queue', A)
<1>1. Followed(queue, A, {})
  BY DEF Has, Followed
<1>2. Followed(queue', A, {})
  BY <1>1, KeptQueue
<1> QED
  BY <1>2 DEF Has, Followed

LEMMA OursLacks ==
  ASSUME TypeOK, Ours, NEW A, ~ Has(queue, A), A \cap Signals = {}
  PROVE  ~ Has(queue', A)
<1>1. ASSUME NEW t \in {"registered", "unregistered"}, NEW k \in Keys, M(t, k, NoApp) \in Msg
      PROVE  M(t, k, NoApp) \in Msg \ A
  BY <1>1, InSets
<1>2. Kept(A, {})
  BY <1>1, OursQueue DEF Kept
<1> QED
  BY <1>2, LacksKept

LEMMA NextOwner == TypeOK /\ OwnerKnown /\ [Next]_vars => OwnerKnown'
<1> SUFFICES ASSUME TypeOK, OwnerKnown, [Next]_vars PROVE OwnerKnown'
  OBVIOUS
<1> USE TypeParts
<1>1. ASSUME uname' = uname PROVE OwnerKnown'
  BY <1>1 DEF OwnerKnown
<1>2. ASSUME NEW k \in Keys, NEW v \in Apps \cup Proxies \cup {NoApp}, uname' = [uname EXCEPT ![k] = v],
             v = NoApp \/ (k \notin Apps /\ v = Src(k))
      PROVE  OwnerKnown'
  BY <1>2 DEF OwnerKnown, ItemType
<1>3. CASE AppStep \/ OtherStep
  BY <1>1, <1>3, AppStepFrame, OtherStepFrame DEF items
<1>4. CASE Handler \/ InitialScan \/ Bootstrap
  BY <1>1, <1>4, HandlerEffect, PlanEffect DEF items
<1>5. ASSUME NEW k \in Keys, DiscoverDirect(k) \/ DiscoverItem(k) PROVE OwnerKnown'
  BY <1>2, <1>5, OwnerType DEF DiscoverDirect, DiscoverItem
<1>6. ASSUME NEW k \in Keys, RemoveItem(k) PROVE OwnerKnown'
  BY <1>1, <1>2, <1>6 DEF RemoveItem, Discard, items
<1>7. ASSUME OwnNameFails PROVE OwnerKnown'
  BY <1>2, <1>7, CallFields DEF OwnNameFails
<1>8. ASSUME \/ SendReply \/ MenuPrefetched \/ ItemReady \/ TargetBus \/ Panel \/ UNCHANGED vars
             \/ \E k \in Keys : AlreadyTracked(k) \/ DiscoverFails(k)
      PROVE  OwnerKnown'
  BY <1>1, <1>8 DEF SendReply, MenuPrefetched, ItemReady, TargetBus, ItemNameAcquired, ItemNameLost,
     ItemNotExported, Panel, PanelAnswers, vars, items, AlreadyTracked, DiscoverFails
<1> QED
  BY <1>3, <1>4, <1>5, <1>6, <1>7, <1>8, NextSteps DEF Ours, Works

-----------------------------------------------------------------------------
(* What cannot be in the queue. *)

LEMMA UnheardKept ==
  ASSUME TypeOK, Unheard, Kept(Signals, {}), plan' = plan, passive' = passive, UNCHANGED <<st, todo>>
  PROVE  Unheard'
  BY LacksKept DEF Unheard, Booting

LEMMA NextUnheard == TypeOK /\ CurItem /\ Unheard /\ [Next]_vars => Unheard'
<1> SUFFICES ASSUME TypeOK, CurItem, Unheard, [Next]_vars, ~ passive' PROVE Unheard'
  BY DEF Unheard
<1>1. CASE AppStep
  <2>1. Kept(Signals, {})
    <3>1. ASSUME NEW a \in Apps, NEW k \in Keys, AppRegisters(a, k) PROVE Kept(Signals, {})
      <4>1. M("register", k, a) \in Msg \ Signals
        BY MakeMessage, InSets
      <4> QED
        BY <3>1, <4>1 DEF AppRegisters, Kept
    <3>2. ASSUME NEW a \in Apps, AppExits(a) PROVE Kept(Signals, {})
      <4>1. M("gone", a, NoApp) \in Msg \ Signals
        BY MakeMessage, InSets
      <4> QED
        BY <3>2, <4>1, ReportQueue DEF AppExits, Kept
    <3>3. ASSUME NEW n \in Names, AppOwns(n) \/ AppReleases(n) PROVE Kept(Signals, {})
      <4>1. M("appeared", n, NoApp) \in Msg \ Signals /\ M("vanished", n, NoApp) \in Msg \ Signals
        BY MakeMessage, InSets
      <4> QED
        BY <3>3, <4>1, ReportQueue DEF AppOwns, AppReleases, Kept
    <3> QED
      BY <1>1, <3>1, <3>2, <3>3 DEF AppStep
  <2> QED
    BY <1>1, <2>1, AppStepFrame, UnheardKept DEF handler, items
<1>2. CASE OtherStep
  <2>1. ~ passive
    BY <1>2, OtherStepFrame
  <2>2. /\ M("lost", NoApp, NoApp) \in Msg \ Signals /\ M("acquired", NoApp, NoApp) \in Msg \ Signals
        /\ \A p \in Proxies : M("gone", p, NoApp) \in Msg \ Signals
    BY MakeMessage, InSets
  <2>3. ASSUME OtherTakes \/ OtherLeaves PROVE Kept(Signals, {})
    BY <2>2, <2>3 DEF OtherTakes, OtherLeaves, Kept
  <2>4. ASSUME NEW p \in Proxies, OtherCloses(p) PROVE Kept(Signals, {})
    BY <2>2, <2>4, ReportQueue DEF OtherCloses, Kept
  <2>5. ASSUME OtherStays PROVE Kept(Signals, {})
    BY <2>1, <2>2, <2>5, StaysCases DEF OtherDoes, Announces, Lists, Strikes, Opens, Closes, Passes, Kept
  <2>6. Kept(Signals, {})
    BY <1>2, <2>3, <2>4, <2>5, OtherSteps
  <2> QED
    BY <1>2, <2>6, OtherStepFrame, UnheardKept DEF handler, items
<1>3. CASE Handler
  <2> DEFINE m == Head(queue)
  <2>1. /\ ~ passive /\ m \in Msg /\ m.t # "lost" /\ plan' \in {<<"scan">>, <<>>} /\ st' = st
        /\ queue # <<>> /\ queue' = Tail(queue)
    BY <1>3, HandlerEffect DEF items
  <2>2. m \notin Signals
    <3>1. 1 \in 1..Len(queue) /\ queue[1] = m
      BY <2>1, TypeParts, SeqFacts DEF QueueType
    <3> QED
      BY <2>1, <3>1 DEF Unheard, Has
  <2>3. ~ Has(queue', Signals)
    BY <2>1, LacksKept DEF Unheard, Kept
  <2>4. ~ Booting'
    BY <2>1, PlanValues, Zenon DEF Booting
  <2>5. \A p \in Proxies : p \notin todo'
    <3>1. m.t = "appeared" => m.k \in Names
      BY <2>1, ReadMessage
    <3>2. m.t # "registered"
      BY <2>1, <2>2 DEF Signals
    <3>3. todo' \subseteq {m.k} \cap (Apps \cup owned) \/ (m.t \in {"appeared", "registered"} /\ todo' = {m.k})
      BY <1>3, HandlerEffect
    <3>4. owned \subseteq Names
      BY TypeParts DEF OutsideType
    <3> HIDE DEF m
    <3> QED
      BY <3>1, <3>2, <3>3, <3>4, KeyFacts
  <2> QED
    BY <2>1, <2>3, <2>4, <2>5 DEF Unheard
<1>4. CASE InitialScan \/ Bootstrap
  <2>1. ~ passive /\ ~ Booting /\ UNCHANGED <<st, queue>>
    BY <1>4, PlanEffect DEF Unheard, items, bus
  <2>2. todo' = owned /\ plan' = <<>>
    BY <1>4, <2>1, PlanEffect
  <2>3. ~ Booting'
    BY <2>2, PlanValues, Zenon DEF Booting
  <2>4. \A p \in Proxies : p \notin todo'
    BY <2>2, TypeParts, KeyFacts DEF OutsideType
  <2> QED
    BY <2>1, <2>3, <2>4 DEF Unheard
<1>5. CASE Works
  <2>1. ~ passive /\ plan' = plan
    BY <1>5, WorksFrame
  <2>2. queue' = queue
    BY <1>5, <2>1, WorksQueue DEF bus
  <2>3. \A p \in Proxies : st'[p] = "none" /\ p \notin todo'
    BY <1>5, <2>1, WorksItems DEF Unheard
  <2> QED
    BY <2>1, <2>2, <2>3 DEF Unheard, Booting
<1> QED
  BY <1>1, <1>2, <1>3, <1>4, <1>5, NextSteps DEF Ours

LEMMA OutsideMessages ==
  /\ M("lost", NoApp, NoApp) \in Msg /\ M("acquired", NoApp, NoApp) \in Msg
  /\ \A n \in Names : /\ M("appeared", n, NoApp) \in Msg /\ M("vanished", n, NoApp) \in Msg
                      /\ M("registered", n, NoApp) \in Msg /\ M("unregistered", n, NoApp) \in Msg
  /\ \A p \in Proxies : M("gone", p, NoApp) \in Msg /\ M("registered", p, NoApp) \in Msg
  /\ \A a \in Apps : M("gone", a, NoApp) \in Msg /\ M("unregistered", a, NoApp) \in Msg
  BY MakeMessage, KeyFacts

(* Only its own end puts the end of something in the queue. *)
LEMMA GoneKept ==
  ASSUME TypeOK, AppStep \/ OtherStep, NEW k \in Apps \cup Proxies, k \in Apps => k \in alive' \/ k \notin alive,
         k \in Proxies => k \in open' \/ k \notin open
  PROVE  Kept(Gone(k), {})
<1>1. ASSUME NEW a \in Apps, NEW j \in Keys, AppRegisters(a, j) PROVE Kept(Gone(k), {})
  <2>1. M("register", j, a) \in Msg \ Gone(k)
    BY MakeMessage, InSets
  <2> QED
    BY <1>1, <2>1 DEF AppRegisters, Kept
<1>2. ASSUME NEW a \in Apps, AppExits(a) PROVE Kept(Gone(k), {})
  <2>1. k # a /\ M("gone", a, NoApp) \in Msg
    BY <1>2, OutsideMessages DEF AppExits
  <2>2. M("gone", a, NoApp) \in Msg \ Gone(k)
    BY <2>1, InSets
  <2> QED
    BY <1>2, <2>2, ReportQueue DEF AppExits, Kept
<1>3. ASSUME NEW n \in Names, AppOwns(n) \/ AppReleases(n) PROVE Kept(Gone(k), {})
  <2>1. M("appeared", n, NoApp) \in Msg \ Gone(k) /\ M("vanished", n, NoApp) \in Msg \ Gone(k)
    BY OutsideMessages, InSets
  <2> QED
    BY <1>3, <2>1, ReportQueue DEF AppOwns, AppReleases, Kept
<1>4. ASSUME OtherTakes \/ OtherLeaves PROVE Kept(Gone(k), {})
  <2>1. M("lost", NoApp, NoApp) \in Msg \ Gone(k) /\ M("acquired", NoApp, NoApp) \in Msg \ Gone(k)
    BY OutsideMessages, InSets
  <2> QED
    BY <1>4, <2>1 DEF OtherTakes, OtherLeaves, Kept
<1>5. ASSUME NEW p \in Proxies, p \in open, p \notin open' PROVE M("gone", p, NoApp) \in Msg \ Gone(k)
  BY <1>5, OutsideMessages, InSets, KeyFacts
<1>6. ASSUME NEW p \in Proxies, OtherCloses(p) PROVE Kept(Gone(k), {})
  <2>1. M("gone", p, NoApp) \in Msg \ Gone(k)
    BY <1>5, <1>6 DEF OtherCloses
  <2> QED
    BY <1>6, <2>1, ReportQueue DEF OtherCloses, Kept
<1>7. ASSUME OtherStays PROVE Kept(Gone(k), {})
  <2>1. /\ \A j \in Names \cup Proxies : M("registered", j, NoApp) \in Msg \ Gone(k)
        /\ \A j \in Names \cup Apps : M("unregistered", j, NoApp) \in Msg \ Gone(k)
    BY OutsideMessages, InSets
  <2>2. ASSUME NEW p \in Proxies, NEW a \in Apps, Closes(p, a) PROVE Kept(Gone(k), {})
    <3>1. M("gone", p, NoApp) \in Msg \ Gone(k)
      BY <1>5, <2>2 DEF Closes
    <3> QED
      BY <2>1, <2>2, <3>1 DEF Closes, Kept
  <2> QED
    BY <1>7, <2>1, <2>2, StaysCases DEF OtherDoes, Announces, Lists, Strikes, Opens, Passes, Kept
<1> QED
  BY <1>1, <1>2, <1>3, <1>4, <1>6, <1>7, OtherSteps DEF AppStep

LEMMA OwnersKept ==
  ASSUME TypeOK, AppStep \/ OtherStep, filtered
  PROVE  Kept(Owners, {})
<1>1. ASSUME NEW a \in Apps, NEW j \in Keys, AppRegisters(a, j) PROVE Kept(Owners, {})
  <2>1. M("register", j, a) \in Msg \ Owners
    BY MakeMessage, InSets
  <2> QED
    BY <1>1, <2>1 DEF AppRegisters, Kept
<1>2. /\ \A k \in Apps \cup Proxies : M("gone", k, NoApp) \in Msg \ Owners
      /\ \A j \in Names \cup Proxies : M("registered", j, NoApp) \in Msg \ Owners
      /\ \A j \in Names \cup Apps : M("unregistered", j, NoApp) \in Msg \ Owners
      /\ M("lost", NoApp, NoApp) \in Msg \ Owners /\ M("acquired", NoApp, NoApp) \in Msg \ Owners
  BY OutsideMessages, InSets
<1>3. ASSUME NEW a \in Apps, AppExits(a) PROVE Kept(Owners, {})
  BY <1>2, <1>3, ReportQueue DEF AppExits, Kept
<1>4. ASSUME NEW n \in Names, AppOwns(n) \/ AppReleases(n) PROVE Kept(Owners, {})
  <2>1. M("appeared", n, NoApp).k = n /\ M("vanished", n, NoApp).k = n
    BY MessageFields
  <2>2. queue' = queue
    BY <1>4, <2>1, OutsideMessages, ReportQueue DEF AppOwns, AppReleases
  <2> QED
    BY <2>2 DEF Kept
<1>5. ASSUME OtherTakes \/ OtherLeaves PROVE Kept(Owners, {})
  BY <1>2, <1>5 DEF OtherTakes, OtherLeaves, Kept
<1>6. ASSUME NEW p \in Proxies, OtherCloses(p) PROVE Kept(Owners, {})
  BY <1>2, <1>6, ReportQueue DEF OtherCloses, Kept
<1>7. ASSUME OtherStays PROVE Kept(Owners, {})
  <2>1. ASSUME NEW p \in Proxies, NEW a \in Apps, Closes(p, a) PROVE Kept(Owners, {})
    BY <1>2, <2>1 DEF Closes, Kept
  <2> QED
    BY <1>2, <1>7, <2>1, StaysCases DEF OtherDoes, Announces, Lists, Strikes, Opens, Passes, Kept
<1> QED
  BY <1>1, <1>3, <1>4, <1>5, <1>6, <1>7, OtherSteps DEF AppStep

LEMMA NextUnspoken == TypeOK /\ Unspoken /\ [Next]_vars => Unspoken'
<1> SUFFICES ASSUME TypeOK, Unspoken, [Next]_vars PROVE Unspoken'
  OBVIOUS
<1> USE TypeParts
<1>1. CASE Ours
  <2>1. (\A k : Gone(k) \cap Signals = {}) /\ Owners \cap Signals = {}
    BY DEF Gone, Signals, Owners
  <2>2. \A k : ~ Has(queue, Gone(k)) => ~ Has(queue', Gone(k))
    BY <1>1, <2>1, OursLacks
  <2>3. ~ Has(queue, Owners) => ~ Has(queue', Owners)
    BY <1>1, <2>1, OursLacks
  <2> QED
    BY <1>1, <2>2, <2>3, OursFrame DEF Unspoken
<1>2. CASE AppStep \/ OtherStep
  <2>1. filtered' = filtered /\ alive' \subseteq alive
    BY <1>2, AppStepFrame, OtherStepFrame DEF AppStep, AppRegisters, AppExits, AppOwns, AppReleases
  <2>2. ASSUME NEW a \in alive' PROVE ~ Has(queue', Gone(a))
    <3>1. a \in alive /\ a \in Apps /\ a \notin Proxies
      BY <2>1, KeyFacts DEF OutsideType
    <3>2. Kept(Gone(a), {})
      BY <1>2, <3>1, GoneKept
    <3> QED
      BY <3>1, <3>2, LacksKept DEF Unspoken
  <2>3. filtered' => ~ Has(queue', Owners)
    BY <1>2, <2>1, OwnersKept, LacksKept DEF Unspoken
  <2>4. /\ \A p \in Proxies : p \in open' \/ serves'[p] = NoApp => p \in open \/ serves[p] = NoApp
        /\ \A p \in open' \cup (others' \cap Proxies) : serves'[p] # NoApp
        /\ \A p \in Proxies : serves'[p] = NoApp => serves[p] = NoApp
    <3>1. ASSUME UNCHANGED <<open, others, serves>>
          PROVE  /\ \A p \in Proxies : p \in open' \/ serves'[p] = NoApp => p \in open \/ serves[p] = NoApp
                 /\ \A p \in open' \cup (others' \cap Proxies) : serves'[p] # NoApp
                 /\ \A p \in Proxies : serves'[p] = NoApp => serves[p] = NoApp
      BY <3>1 DEF Unspoken
    <3>2. CASE AppStep
      BY <3>1, <3>2, AppStepFrame
    <3>3. CASE OtherTakes
      BY <3>1, <3>3 DEF OtherTakes, other
    <3>4. CASE OtherLeaves
      BY <3>4 DEF OtherLeaves, Unspoken
    <3>5. ASSUME NEW p \in Proxies, OtherCloses(p)
          PROVE  UNCHANGED <<others, serves>> /\ open' \subseteq open
      BY <3>5 DEF OtherCloses
    <3>6. ASSUME NEW p \in Proxies, Announces(p)
          PROVE  UNCHANGED <<open, serves>> /\ others' = others \cup {p} /\ p \in open
      BY <3>6 DEF Announces
    <3>7. ASSUME NEW n \in Names, Lists(n) \/ Strikes(n)
          PROVE  UNCHANGED <<open, serves>> /\ others' \cap Proxies \subseteq others \cap Proxies
      BY <3>7, KeyFacts DEF Lists, Strikes
    <3>8. ASSUME NEW p \in Proxies, NEW a \in Apps, Opens(p, a)
          PROVE  /\ serves[p] = NoApp /\ open' = open \cup {p} /\ others' = others
                 /\ serves'[p] # NoApp /\ \A r \in Proxies \ {p} : serves'[r] = serves[r]
      BY <3>8, KeyFacts DEF Opens, OutsideType
    <3>9. ASSUME NEW p \in Proxies, NEW a \in Apps, Closes(p, a)
          PROVE  UNCHANGED <<others, serves>> /\ open' \subseteq open
      BY <3>9 DEF Closes
    <3>10. Passes => UNCHANGED <<open, others, serves>>
      BY DEF Passes
    <3>11. open \subseteq Proxies
      BY DEF OutsideType
    <3>12. CASE \E p \in Proxies : OtherCloses(p)
      BY <3>5, <3>12 DEF Unspoken
    <3>13. CASE OtherStays
      <4>1. OtherDoes
        BY <3>13, StaysCases
      <4>2. CASE \E p \in Proxies : Announces(p)
        BY <3>6, <4>2 DEF Unspoken
      <4>3. CASE \E n \in Names : Lists(n) \/ Strikes(n)
        BY <3>7, <4>3 DEF Unspoken
      <4>4. CASE \E p \in Proxies, a \in Apps : Opens(p, a)
        BY <3>8, <3>11, <4>4 DEF Unspoken
      <4>5. CASE \E p \in Proxies, a \in Apps : Closes(p, a)
        BY <3>9, <4>5 DEF Unspoken
      <4> QED
        BY <3>1, <3>10, <4>1, <4>2, <4>3, <4>4, <4>5 DEF OtherDoes
    <3> QED
      BY <1>2, <3>2, <3>3, <3>4, <3>12, <3>13, OtherSteps
  <2>5. ASSUME NEW p \in Proxies, p \in open' \/ serves'[p] = NoApp PROVE ~ Has(queue', Gone(p))
    <3>1. p \notin Apps /\ ~ Has(queue, Gone(p))
      BY <2>4, <2>5, KeyFacts DEF Unspoken
    <3>2. p \in open' \/ p \notin open
      BY <2>4, <2>5 DEF Unspoken
    <3>3. Kept(Gone(p), {})
      BY <1>2, <3>1, <3>2, GoneKept
    <3> QED
      BY <3>1, <3>3, LacksKept
  <2> QED
    BY <2>2, <2>3, <2>4, <2>5 DEF Unspoken
<1> QED
  BY <1>1, <1>2, NextSteps

-----------------------------------------------------------------------------
(* The other watcher's list. *)

LEMMA EmptyFollowed == \A A, S : Followed(<<>>, A, S)
  BY EmptySeq DEF Followed

LEMMA NextOthers == TypeOK /\ OtherList /\ [Next]_vars => OtherList'
<1> SUFFICES ASSUME TypeOK, OtherList, [Next]_vars PROVE OtherList'
  OBVIOUS
<1> USE TypeParts
<1>1. oqueue \in Seq(Msg) /\ owned \subseteq Names
  BY DEF OutsideType
<1>2. CASE Ours
  BY <1>2, OursFrame DEF OtherList
<1>3. ASSUME others' = {}, oqueue' = <<>> PROVE OtherList'
  BY <1>3, EmptyFollowed DEF OtherList
<1>4. CASE AppStep
  <2>1. watcher' = watcher /\ others' = others
    BY <1>4, AppStepFrame
  <2>2. CASE watcher # "theirs"
    <3>1. watcher = "ours"
      BY <2>2 DEF ModeType
    <3>2. oqueue' = oqueue
      BY <1>4, <2>2, <3>1, Zenon DEF AppStep, AppRegisters, AppExits, AppOwns, AppReleases, Report
    <3> QED
      BY <1>3, <2>1, <3>1, <3>2 DEF OtherList
  <2>3. CASE watcher = "theirs"
    <3>1. ASSUME NEW m \in Msg, oqueue' = Append(oqueue, m), NEW n,
                 \A x \in Names \ {n} : m \notin Appeared(x) /\ m \notin Vanished(x) /\ (x \in owned' <=> x \in owned),
                 n \in Names => (n \in owned' /\ m \in Appeared(n)) \/ (n \notin owned' /\ m \in Vanished(n)),
                 owned' \subseteq Names
          PROVE  OtherList'
      <4>1. n \in Names => m \notin Appeared(n) \/ m \notin Vanished(n)
        BY DEF Appeared, Vanished
      <4>2. ASSUME NEW x \in owned' PROVE Followed(oqueue', Vanished(x), Appeared(x))
        BY <1>1, <3>1, <4>1, FollowedAppend DEF OtherList
      <4>3. ASSUME NEW x \in Names \ owned'
            PROVE  Followed(oqueue', Appeared(x), Vanished(x)) /\ (x \in others' => Has(oqueue', Vanished(x)))
        BY <1>1, <2>1, <3>1, <4>1, FollowedAppend, HasAppend DEF OtherList
      <4> QED
        BY <2>1, <2>3, <4>2, <4>3 DEF OtherList
    <3>2. ASSUME NEW a \in Apps, NEW k \in Keys, AppRegisters(a, k) PROVE OtherList'
      <4>1. M("register", k, a) \in Msg
        BY MakeMessage
      <4>2. oqueue' = Append(oqueue, M("register", k, a)) /\ owned' = owned
        BY <2>3, <3>2 DEF AppRegisters
      <4>3. \A x : M("register", k, a) \notin Appeared(x) /\ M("register", k, a) \notin Vanished(x)
        BY <4>1, InSets
      <4>4. a \notin Names
        BY KeyFacts
      <4> QED
        BY <1>1, <3>1, <4>1, <4>2, <4>3, <4>4
    <3>3. ASSUME NEW a \in Apps, AppExits(a) PROVE OtherList'
      <4>1. M("gone", a, NoApp) \in Msg
        BY MakeMessage
      <4>2. oqueue' = Append(oqueue, M("gone", a, NoApp)) /\ owned' = owned
        BY <2>3, <3>3, <4>1, ReportQueue DEF AppExits
      <4>3. \A x : M("gone", a, NoApp) \notin Appeared(x) /\ M("gone", a, NoApp) \notin Vanished(x)
        BY <4>1, InSets
      <4>4. a \notin Names
        BY KeyFacts
      <4> QED
        BY <1>1, <3>1, <4>1, <4>2, <4>3, <4>4
    <3>4. ASSUME NEW n \in Names, AppOwns(n) PROVE OtherList'
      <4>1. M("appeared", n, NoApp) \in Msg
        BY MakeMessage
      <4>2. oqueue' = Append(oqueue, M("appeared", n, NoApp)) /\ owned' = owned \cup {n}
        BY <2>3, <3>4, <4>1, ReportQueue DEF AppOwns
      <4>3. \A x : (M("appeared", n, NoApp) \in Appeared(x) <=> x = n) /\ M("appeared", n, NoApp) \notin Vanished(x)
        BY <4>1, InSets
      <4> QED
        BY <1>1, <3>1, <4>1, <4>2, <4>3
    <3>5. ASSUME NEW n \in Names, AppReleases(n) PROVE OtherList'
      <4>1. M("vanished", n, NoApp) \in Msg
        BY MakeMessage
      <4>2. oqueue' = Append(oqueue, M("vanished", n, NoApp)) /\ owned' = owned \ {n}
        BY <2>3, <3>5, <4>1, ReportQueue DEF AppReleases
      <4>3. \A x : (M("vanished", n, NoApp) \in Vanished(x) <=> x = n) /\ M("vanished", n, NoApp) \notin Appeared(x)
        BY <4>1, InSets
      <4> QED
        BY <1>1, <3>1, <4>1, <4>2, <4>3
    <3> QED
      BY <1>4, <3>2, <3>3, <3>4, <3>5 DEF AppStep
  <2> QED
    BY <2>2, <2>3
<1>5. CASE OtherTakes
  BY <1>3, <1>5 DEF OtherTakes, OtherList, other
<1>6. CASE OtherLeaves
  BY <1>3, <1>6 DEF OtherLeaves
<1>7. ASSUME NEW p \in Proxies, OtherCloses(p) PROVE OtherList'
  BY <1>3, <1>7 DEF OtherCloses, OtherList, Report
<1>8. CASE OtherStays
  <2>1. watcher' = "theirs" /\ owned' = owned /\ OtherDoes
    BY <1>8, StaysQueue, StaysCases, OtherStepFrame, OtherSteps
  <2>2. ASSUME NEW p \in Proxies, Announces(p) PROVE OtherList'
    BY <2>1, <2>2, KeyFacts DEF Announces, OtherList
  <2>3. ASSUME Reads, \A n \in Names \ owned : n \in others' =>
                        \/ n \in others /\ Head(oqueue) \notin Vanished(n)
                        \/ Head(oqueue) \in Appeared(n)
        PROVE  OtherList'
    <3>1. oqueue # <<>> /\ oqueue' = Tail(oqueue)
      BY <2>3 DEF Reads
    <3>2. \A n \in owned : Followed(oqueue', Vanished(n), Appeared(n))
      BY <1>1, <3>1, FollowedTail DEF OtherList
    <3>3. ASSUME NEW n \in Names \ owned
          PROVE  Followed(oqueue', Appeared(n), Vanished(n)) /\ (n \in others' => Has(oqueue', Vanished(n)))
      <4>1. Followed(oqueue, Appeared(n), Vanished(n)) /\ (n \in others => Has(oqueue, Vanished(n)))
        BY DEF OtherList
      <4> QED
        BY <1>1, <2>3, <3>1, <4>1, FollowedTail, HasTail
    <3> QED
      BY <2>1, <3>2, <3>3 DEF OtherList
  <2>4. ASSUME Reads, Head(oqueue).t \in {"register", "gone"} PROVE \A n : Head(oqueue) \notin Vanished(n)
    BY <2>4 DEF Vanished
  <2>5. ASSUME NEW n \in Names, Lists(n) PROVE OtherList'
    <3>1. \A x \in Names \ owned : Head(oqueue) \notin Vanished(x)
      BY <2>5 DEF Lists, Appeared, Vanished
    <3> QED
      BY <2>3, <2>5, <3>1 DEF Lists
  <2>6. ASSUME NEW n \in Names, Strikes(n) PROVE OtherList'
    <3>1. \A x : x # n => Head(oqueue) \notin Vanished(x)
      BY <2>6 DEF Strikes, Vanished
    <3> QED
      BY <2>3, <2>6, <3>1 DEF Strikes
  <2>7. ASSUME NEW p \in Proxies, NEW a \in Apps, Opens(p, a) \/ Closes(p, a) PROVE OtherList'
    BY <2>3, <2>4, <2>7 DEF Opens, Closes
  <2>8. ASSUME Passes PROVE OtherList'
    BY <2>3, <2>4, <2>8 DEF Passes
  <2> QED
    BY <2>1, <2>2, <2>5, <2>6, <2>7, <2>8 DEF OtherDoes
<1> QED
  BY <1>2, <1>4, <1>5, <1>6, <1>7, <1>8, NextSteps, OtherSteps

-----------------------------------------------------------------------------
(* No item of an application that is gone. *)

(* What the other watcher, coming, going or staying, may add to the queue. *)
OtherSays == {m \in Msg : \/ m.t \in {"lost", "acquired", "gone", "unregistered"}
                          \/ m.t = "registered" /\ m.k \notin Apps}

LEMMA OtherKept ==
  ASSUME TypeOK, OtherStep, NEW A, NEW S, A \cap OtherSays = {}
  PROVE  Kept(A, S)
<1>1. /\ \A k \in Apps \cup Proxies : M("gone", k, NoApp) \in Msg \ A
      /\ \A k \in Names \cup Proxies : M("registered", k, NoApp) \in Msg \ A
      /\ \A k \in Names \cup Apps : M("unregistered", k, NoApp) \in Msg \ A
      /\ M("lost", NoApp, NoApp) \in Msg \ A /\ M("acquired", NoApp, NoApp) \in Msg \ A
  BY OutsideMessages, MessageFields, KeyFacts DEF OtherSays
<1>2. ASSUME OtherTakes \/ OtherLeaves PROVE Kept(A, S)
  BY <1>1, <1>2 DEF OtherTakes, OtherLeaves, Kept
<1>3. ASSUME NEW p \in Proxies, OtherCloses(p) PROVE Kept(A, S)
  BY <1>1, <1>3, ReportQueue DEF OtherCloses, Kept
<1>4. ASSUME OtherStays PROVE Kept(A, S)
  <2>1. ASSUME NEW p \in Proxies, NEW a \in Apps, Closes(p, a) PROVE Kept(A, S)
    BY <1>1, <2>1 DEF Closes, Kept
  <2> QED
    BY <1>1, <1>4, <2>1, StaysCases DEF OtherDoes, Announces, Lists, Strikes, Opens, Passes, Kept
<1> QED
  BY <1>2, <1>3, <1>4, OtherSteps

LEMMA NameKept ==
  ASSUME TypeOK, NEW n \in Names, NameGoes(n), Kept(Appeared(n), Vanished(n)),
         Known(n)' => Known(n), ~ passive' => ~ passive, Wanted(n)' => Wanted(n)
  PROVE  NameGoes(n)'
  BY KeptQueue DEF NameGoes

LEMMA AppKept ==
  ASSUME TypeOK, NEW a \in Apps, AppGoes(a), Kept(Adds(a), Gone(a)), Wanted(a)' => Wanted(a)
  PROVE  AppGoes(a)'
  BY KeptQueue DEF AppGoes

LEMMA WantedSame ==
  ASSUME UNCHANGED <<handler, items>>
  PROVE  \A k : (Wanted(k)' <=> Wanted(k)) /\ (Known(k)' <=> Known(k))
  BY DEF Wanted, Known, handler, items

LEMMA AppDead ==
  ASSUME TypeOK, DeadGo, AppStep
  PROVE  DeadGo'
<1> SUFFICES ASSUME ~ filtered, echoes = 0
             PROVE  /\ \A n \in Names \ owned' : NameGoes(n)'
                    /\ \A a \in Apps \ alive' : AppGoes(a)'
                    /\ \A p \in Proxies \ open' : Known(p)' => Has(queue', Gone(p))
  BY AppStepFrame DEF DeadGo
<1>1. \A k : (Wanted(k)' <=> Wanted(k)) /\ (Known(k)' <=> Known(k))
  BY AppStepFrame, WantedSame
<1>2. passive' = passive /\ open' = open
  BY AppStepFrame
<1>3. ASSUME NEW m \in Msg, queue' = queue \/ queue' = Append(queue, m)
      PROVE  /\ \A n \in Names : NameGoes(n) /\ m \notin Appeared(n) => NameGoes(n)'
             /\ \A a \in Apps : AppGoes(a) /\ m \notin Adds(a) => AppGoes(a)'
             /\ \A p \in Proxies \ open' : Known(p)' => Has(queue', Gone(p))
  <2>1. ASSUME NEW A, NEW S, m \notin A PROVE Kept(A, S)
    BY <1>3, <2>1 DEF Kept
  <2>2. ASSUME NEW n \in Names, NameGoes(n), m \notin Appeared(n) PROVE NameGoes(n)'
    BY <1>1, <1>2, <2>1, <2>2, NameKept
  <2>3. ASSUME NEW a \in Apps, AppGoes(a), m \notin Adds(a) PROVE AppGoes(a)'
    BY <1>1, <2>1, <2>3, AppKept
  <2>4. ASSUME NEW p \in Proxies \ open', Known(p)' PROVE Has(queue', Gone(p))
    <3>1. Has(queue, Gone(p)) /\ Kept({}, Gone(p))
      BY <1>1, <1>2, <2>1, <2>4 DEF DeadGo
    <3> QED
      BY <3>1, KeptQueue
  <2> QED
    BY <2>2, <2>3, <2>4
<1>4. ASSUME NEW a \in Apps, NEW k \in Keys, AppRegisters(a, k)
      PROVE  /\ \A n \in Names \ owned' : NameGoes(n)'
             /\ \A b \in Apps \ alive' : AppGoes(b)'
             /\ \A p \in Proxies \ open' : Known(p)' => Has(queue', Gone(p))
  <2>1. /\ M("register", k, a) \in Msg /\ owned' = owned /\ alive' = alive
        /\ queue' = queue \/ queue' = Append(queue, M("register", k, a))
    BY <1>4, MakeMessage DEF AppRegisters
  <2>2. \A n : M("register", k, a) \notin Appeared(n)
    BY <2>1, InSets
  <2>3. \A b \in Apps \ alive : M("register", k, a) \notin Adds(b)
    <3>1. \A b \in Apps \ alive : k # b
      BY <1>4, KeyFacts DEF AppRegisters
    <3> QED
      BY <2>1, <3>1, InSets
  <2>4. /\ \A n \in Names \ owned : NameGoes(n) /\ M("register", k, a) \notin Appeared(n)
        /\ \A b \in Apps \ alive : AppGoes(b) /\ M("register", k, a) \notin Adds(b)
    BY <2>2, <2>3 DEF DeadGo
  <2> QED
    BY <1>3, <2>1, <2>4
<1>5. ASSUME NEW a \in Apps, AppExits(a)
      PROVE  /\ \A n \in Names \ owned' : NameGoes(n)'
             /\ \A b \in Apps \ alive' : AppGoes(b)'
             /\ \A p \in Proxies \ open' : Known(p)' => Has(queue', Gone(p))
  <2>1. /\ M("gone", a, NoApp) \in Msg /\ owned' = owned /\ alive' = alive \ {a}
        /\ queue' = Append(queue, M("gone", a, NoApp))
    BY <1>5, MakeMessage, ReportQueue DEF AppExits
  <2>2. \A x : M("gone", a, NoApp) \notin Appeared(x) /\ M("gone", a, NoApp) \notin Adds(x)
    BY <2>1, InSets
  <2>3. AppGoes(a)'
    <3>1. M("gone", a, NoApp) \in Gone(a)
      BY <2>1, InSets
    <3> QED
      BY <2>1, <2>2, <3>1, ToldQueue DEF AppGoes
  <2>4. /\ \A n \in Names \ owned : NameGoes(n) /\ M("gone", a, NoApp) \notin Appeared(n)
        /\ \A b \in Apps \ alive : AppGoes(b) /\ M("gone", a, NoApp) \notin Adds(b)
    BY <2>2 DEF DeadGo
  <2>5. /\ \A n \in Names \ owned : NameGoes(n)'
        /\ \A b \in Apps \ alive : AppGoes(b)'
        /\ \A p \in Proxies \ open' : Known(p)' => Has(queue', Gone(p))
    BY <1>3, <2>1, <2>4
  <2> QED
    BY <2>1, <2>3, <2>5
<1>6. ASSUME NEW n \in Names, AppOwns(n) \/ AppReleases(n), NEW t \in {"appeared", "vanished"},
             Report(M(t, n, NoApp)), t = "vanished" \/ owned' = owned \cup {n}, t = "appeared" \/ owned' = owned \ {n}
      PROVE  /\ \A x \in Names \ owned' : NameGoes(x)'
             /\ \A b \in Apps \ alive' : AppGoes(b)'
             /\ \A p \in Proxies \ open' : Known(p)' => Has(queue', Gone(p))
  <2>1. /\ M(t, n, NoApp) \in Msg /\ alive' = alive
        /\ queue' = Append(queue, M(t, n, NoApp))
    BY <1>6, MakeMessage, ReportQueue DEF AppOwns, AppReleases
  <2>2. \A x : M(t, n, NoApp) \notin Adds(x) /\ (x # n => M(t, n, NoApp) \notin Appeared(x))
    BY <2>1, InSets
  <2>3. t = "vanished" => NameGoes(n)'
    <3>1. t = "vanished" => M(t, n, NoApp) \in Vanished(n) /\ M(t, n, NoApp) \notin Appeared(n)
      BY <2>1, InSets
    <3> QED
      BY <2>1, <3>1, ToldQueue DEF NameGoes
  <2>4. /\ \A x \in Names \ (owned \cup {n}) : NameGoes(x) /\ M(t, n, NoApp) \notin Appeared(x)
        /\ \A b \in Apps \ alive : AppGoes(b) /\ M(t, n, NoApp) \notin Adds(b)
    BY <2>2 DEF DeadGo
  <2>5. /\ \A x \in Names \ (owned \cup {n}) : NameGoes(x)'
        /\ \A b \in Apps \ alive : AppGoes(b)'
        /\ \A p \in Proxies \ open' : Known(p)' => Has(queue', Gone(p))
    BY <1>3, <2>1, <2>4
  <2> QED
    BY <1>6, <2>1, <2>3, <2>5
<1>7. ASSUME NEW n \in Names, AppOwns(n) \/ AppReleases(n)
      PROVE  \E t \in {"appeared", "vanished"} : /\ Report(M(t, n, NoApp))
                                                 /\ t = "vanished" \/ owned' = owned \cup {n}
                                                 /\ t = "appeared" \/ owned' = owned \ {n}
  BY <1>7, Zenon DEF AppOwns, AppReleases
<1> QED
  BY <1>4, <1>5, <1>6, <1>7 DEF AppStep

LEMMA OtherDead ==
  ASSUME TypeOK, DeadGo, OtherStep
  PROVE  DeadGo'
<1> SUFFICES ASSUME ~ filtered, echoes = 0
             PROVE  /\ \A n \in Names \ owned : NameGoes(n)'
                    /\ \A a \in Apps \ alive : AppGoes(a)'
                    /\ \A p \in Proxies \ open' : Known(p)' => Has(queue', Gone(p))
  BY OtherStepFrame DEF DeadGo
<1>1. passive' = passive /\ \A k : (Wanted(k)' <=> Wanted(k)) /\ (Known(k)' <=> Known(k))
  BY OtherStepFrame, WantedSame
<1>2. (\A n : Appeared(n) \cap OtherSays = {}) /\ (\A a \in Apps : Adds(a) \cap OtherSays = {})
  BY DEF Appeared, Adds, OtherSays
<1>3. ASSUME NEW n \in Names \ owned PROVE NameGoes(n)'
  BY <1>1, <1>2, OtherKept, NameKept DEF DeadGo
<1>4. ASSUME NEW a \in Apps \ alive PROVE AppGoes(a)'
  BY <1>1, <1>2, OtherKept, AppKept DEF DeadGo
<1>5. ASSUME NEW p \in Proxies \ open', Known(p)' PROVE Has(queue', Gone(p))
  <2>1. CASE p \notin open
    <3>1. Kept({}, Gone(p)) /\ Has(queue, Gone(p))
      BY <1>1, <1>5, <2>1, OtherKept DEF DeadGo
    <3> QED
      BY <3>1, KeptQueue
  <2>2. CASE p \in open
    <3> DEFINE m == M("gone", p, NoApp)
    <3>1. m \in Msg /\ m \in Gone(p) /\ queue \in Seq(Msg) /\ Append(queue, m) \in Seq(Msg)
      BY MakeMessage, InSets, TypeParts, AppendFacts DEF QueueType
    <3>2. ASSUME NEW r \in Proxies, OtherCloses(r) PROVE queue' = Append(queue, m)
      <4>1. r = p
        BY <1>5, <2>2, <3>2 DEF OtherCloses
      <4> QED
        BY <3>1, <3>2, <4>1, ReportQueue DEF OtherCloses
    <3>3. ASSUME NEW r \in Proxies, NEW a \in Apps, Closes(r, a)
          PROVE  queue' = Append(queue, m) \/ queue' = Append(Append(queue, m), M("unregistered", a, NoApp))
      BY <1>5, <2>2, <3>3 DEF Closes
    <3>4. \/ queue' = Append(queue, m)
          \/ \E a \in Apps : queue' = Append(Append(queue, m), M("unregistered", a, NoApp))
      <4>1. OtherTakes \/ OtherLeaves => open' = open
        BY DEF OtherTakes, OtherLeaves, other
      <4>2. ASSUME OtherStays PROVE \E r \in Proxies, a \in Apps : Closes(r, a)
        BY <1>5, <2>2, <4>2, StaysCases DEF OtherDoes, Announces, Lists, Strikes, Opens, Passes
      <4> HIDE DEF m
      <4> QED
        BY <1>5, <2>2, <3>2, <3>3, <4>1, <4>2, OtherSteps
    <3> HIDE DEF m
    <3>5. Has(Append(queue, m), Gone(p))
      BY <3>1, HasAppend
    <3>6. \A a \in Apps : M("unregistered", a, NoApp) \in Msg
      BY OutsideMessages
    <3> QED
      BY <3>1, <3>4, <3>5, <3>6, HasAppend
  <2> QED
    BY <2>1, <2>2
<1> QED
  BY <1>3, <1>4, <1>5

LEMMA HandlerDead ==
  ASSUME TypeOK, OwnerKnown, Unheard, DeadGo, Handler
  PROVE  DeadGo'
<1> DEFINE m == Head(queue)
<1>1. /\ m \in Msg /\ queue # <<>> /\ queue' = Tail(queue) /\ echoes' = echoes /\ todo = {} /\ dels = {}
      /\ UNCHANGED <<filtered, st, uname, alive, owned, open>> /\ (passive => passive')
  BY HandlerEffect DEF items
<1>2. queue \in Seq(Msg)
  BY TypeParts DEF QueueType
<1> SUFFICES ASSUME ~ filtered, echoes = 0
             PROVE  /\ \A n \in Names \ owned : NameGoes(n)'
                    /\ \A a \in Apps \ alive : AppGoes(a)'
                    /\ \A p \in Proxies \ open : Known(p)' => Has(queue', Gone(p))
  BY <1>1 DEF DeadGo
<1>3. \A k : /\ Known(k)' => Known(k) /\ k \notin dels'
             /\ Wanted(k)' => k \in todo' \/ (Wanted(k) /\ st[k] # "none" /\ k \notin dels')
  BY <1>1 DEF Known, Wanted
<1>4. \A k \in todo' : /\ k = m.k /\ m.t \in {"register", "appeared", "registered"}
                       /\ m.t = "register" => k \in Apps \cup owned
  BY HandlerEffect
<1>5. /\ m.t = "vanished" => dels' = {m.k}
      /\ m.t = "gone" => dels' = {k \in Tracked : uname[k] = m.k} \cup ({m.k} \cap Apps \cap Tracked)
  BY HandlerEffect
<1>6. ~ passive => m \notin Signals
  <2>1. 1 \in 1..Len(queue) /\ queue[1] = m
    BY <1>1, <1>2, SeqFacts
  <2> QED
    BY <2>1 DEF Unheard, Has
<1>7. m.t \in {"appeared", "vanished"} => m.k \in Names
  BY <1>1, ReadMessage
<1> HIDE DEF m
<1>8. ASSUME NEW A, NEW S, Followed(queue, A, S) PROVE Followed(queue', A, S) /\ (m \in A => Has(queue', S))
  BY <1>1, <1>2, <1>8, FollowedTail DEF m
<1>9. ASSUME NEW S, Has(queue, S), m \notin S PROVE Has(queue', S)
  BY <1>1, <1>2, <1>9, HasTail DEF m
<1>10. ASSUME NEW n \in Names \ owned PROVE NameGoes(n)'
  <2>1. NameGoes(n)
    BY DEF DeadGo
  <2>2. m \in Vanished(n) => n \in dels'
    BY <1>5 DEF Vanished
  <2>3. ASSUME Known(n)' PROVE Has(queue', Vanished(n))
    BY <1>3, <1>9, <2>1, <2>2, <2>3 DEF NameGoes
  <2>4. ASSUME ~ passive', Wanted(n)' PROVE Has(queue', Vanished(n))
    <3>1. ~ passive
      BY <1>1, <2>4
    <3>2. CASE n \in todo'
      <4>1. m.t = "appeared" /\ m.k = n
        BY <1>1, <1>4, <1>6, <3>1, <3>2, KeyFacts DEF Signals
      <4>2. m \in Appeared(n)
        BY <1>1, <4>1 DEF Appeared
      <4> QED
        BY <1>8, <2>1, <4>2 DEF NameGoes
    <3>3. CASE n \notin todo'
      BY <1>3, <1>9, <2>1, <2>2, <2>4, <3>1, <3>3 DEF NameGoes
    <3> QED
      BY <3>2, <3>3
  <2>5. Followed(queue', Appeared(n), Vanished(n))
    BY <1>8, <2>1 DEF NameGoes
  <2> QED
    BY <2>3, <2>4, <2>5 DEF NameGoes
<1>11. ASSUME NEW a \in Apps \ alive PROVE AppGoes(a)'
  <2>1. AppGoes(a)
    BY DEF DeadGo
  <2>2. ASSUME Wanted(a)' PROVE Has(queue', Gone(a))
    <3>1. CASE a \in todo'
      <4>1. m \in Adds(a)
        BY <1>1, <1>4, <1>7, <3>1, KeyFacts DEF Adds
      <4> QED
        BY <1>8, <2>1, <4>1 DEF AppGoes
    <3>2. CASE a \notin todo'
      <4>1. Wanted(a) /\ a \in Tracked /\ a \notin dels'
        BY <1>3, <2>2, <3>2, KeyFacts DEF Tracked
      <4>2. m \notin Gone(a)
        BY <1>5, <4>1 DEF Gone
      <4> QED
        BY <1>9, <2>1, <4>1, <4>2 DEF AppGoes
    <3> QED
      BY <3>1, <3>2
  <2>3. Followed(queue', Adds(a), Gone(a))
    BY <1>8, <2>1 DEF AppGoes
  <2> QED
    BY <2>2, <2>3 DEF AppGoes
<1>12. ASSUME NEW p \in Proxies \ open, Known(p)' PROVE Has(queue', Gone(p))
  <2>1. Known(p) /\ p \notin dels' /\ p \in Tracked /\ uname[p] = p
    BY <1>3, <1>12, KeyFacts DEF Known, Tracked, OwnerKnown, Src
  <2>2. m \notin Gone(p)
    BY <1>5, <2>1 DEF Gone
  <2>3. Has(queue, Gone(p))
    BY <2>1 DEF DeadGo
  <2> QED
    BY <1>9, <2>2, <2>3
<1> QED
  BY <1>10, <1>11, <1>12

LEMMA PlanDead ==
  ASSUME TypeOK, Unheard, DeadGo, InitialScan \/ Bootstrap
  PROVE  DeadGo'
<1>1. /\ UNCHANGED <<filtered, queue, echoes, dels, st, uname, passive, alive, owned, open>> /\ todo = {}
      /\ todo' = owned \/ (passive /\ todo' = others)
  BY PlanEffect DEF bus, items, Unheard
<1>2. owned \subseteq Names /\ others \subseteq Names \cup Proxies
  BY TypeParts DEF OutsideType
<1>3. \A k : /\ Known(k)' => Known(k)
             /\ Wanted(k)' => Wanted(k) \/ k \in todo'
  BY <1>1 DEF Known, Wanted
<1>4. \A A, S : Kept(A, S)
  BY <1>1 DEF Kept
<1> SUFFICES ASSUME ~ filtered, echoes = 0
             PROVE  /\ \A n \in Names \ owned : NameGoes(n)'
                    /\ \A a \in Apps \ alive : AppGoes(a)'
                    /\ \A p \in Proxies \ open : Known(p)' => Has(queue', Gone(p))
  BY <1>1 DEF DeadGo
<1>5. ASSUME NEW n \in Names \ owned PROVE NameGoes(n)'
  BY <1>1, <1>3 DEF DeadGo, NameGoes
<1>6. ASSUME NEW a \in Apps \ alive PROVE AppGoes(a)'
  <2>1. Wanted(a)' => Wanted(a)
    BY <1>1, <1>2, <1>3, KeyFacts
  <2> QED
    BY <1>4, <2>1, AppKept DEF DeadGo
<1> QED
  BY <1>1, <1>3, <1>5, <1>6 DEF DeadGo

LEMMA WorksDead ==
  ASSUME TypeOK, CurItem, DeadGo, Works
  PROVE  DeadGo'
<1> SUFFICES ASSUME ~ filtered, echoes' = 0
             PROVE  /\ \A n \in Names \ owned : NameGoes(n)'
                    /\ \A a \in Apps \ alive : AppGoes(a)'
                    /\ \A p \in Proxies \ open : Known(p)' => Has(queue', Gone(p))
  BY WorksFrame DEF DeadGo
<1>1. queue' = queue /\ echoes = 0 /\ passive' = passive
  BY WorksQueue, WorksFrame DEF bus
<1>2. \A A, S : Kept(A, S)
  BY <1>1 DEF Kept
<1>3. /\ \A k \in Keys : Wanted(k)' => Wanted(k) \/ k \in owned
      /\ \A k \in Keys : Known(k)' => Known(k) \/ k \in owned \cup open
  BY WorksItems
<1>4. owned \subseteq Names /\ open \subseteq Proxies
  BY TypeParts DEF OutsideType
<1>5. ASSUME NEW n \in Names \ owned PROVE NameGoes(n)'
  <2>1. (Wanted(n)' => Wanted(n)) /\ (Known(n)' => Known(n))
    BY <1>3, <1>4, KeyFacts
  <2> QED
    BY <1>1, <1>2, <2>1, NameKept DEF DeadGo
<1>6. ASSUME NEW a \in Apps \ alive PROVE AppGoes(a)'
  <2>1. Wanted(a)' => Wanted(a)
    BY <1>3, <1>4, KeyFacts
  <2> QED
    BY <1>1, <1>2, <2>1, AppKept DEF DeadGo
<1>7. ASSUME NEW p \in Proxies \ open, Known(p)' PROVE Has(queue', Gone(p))
  BY <1>1, <1>3, <1>4, <1>7, KeyFacts DEF DeadGo
<1> QED
  BY <1>5, <1>6, <1>7

LEMMA NextDead == TypeOK /\ CurItem /\ OwnerKnown /\ Unheard /\ DeadGo /\ [Next]_vars => DeadGo'
  BY AppDead, OtherDead, HandlerDead, PlanDead, WorksDead, NextSteps DEF Ours

-----------------------------------------------------------------------------
(* No name with an owner is forgotten. *)

LEMMA DueKeys ==
  ASSUME TypeOK, NEW k \in Due
  PROVE  /\ k \in Keys /\ k \in Names \cup Proxies /\ k \notin Apps
         /\ k \in owned \/ (k \in others /\ k \in open /\ k \in Proxies /\ watcher = "theirs")
         /\ k \in Names => k \in owned /\ Src(k) = Home[k] /\ Home[k] \in Apps
         /\ k \in Proxies => k \in others /\ k \in open /\ watcher = "theirs" /\ Src(k) = k
  BY TypeParts, KeyFacts DEF Due, OutsideType, Src

LEMMA SafeKept ==
  ASSUME TypeOK, NEW k, Safe(k), Kept(Takes(k), Brings(k)), UNCHANGED <<st, dels, todo, plan>>
  PROVE  Safe(k)'
<1>1. Here(k)' <=> Here(k)
  BY DEF Here, Wanted, Scanning, Booting
<1> QED
  BY <1>1, KeptQueue DEF Safe

LEMMA SafeTold ==
  ASSUME TypeOK, NEW k, NEW m \in Msg, m \notin Takes(k), m \in Brings(k), queue' = Append(queue, m)
  PROVE  Safe(k)'
  BY ToldQueue DEF Safe

(* The loss of the watcher's name is still to be handled: everything will be  *)
(* looked for again.                                                          *)
LEMMA SafeLost ==
  ASSUME NEW k, Has(queue, Lost), queue' = queue, ~ Has(queue, Takes(k))
  PROVE  Safe(k)'
<1>1. Lost \subseteq Brings(k)
  BY DEF Lost, Brings
<1>2. Has(queue', Brings(k))
  BY <1>1 DEF Has
<1>3. Followed(queue', Takes(k), Brings(k))
  BY DEF Has, Followed
<1> QED
  BY <1>2, <1>3 DEF Safe

(* Before the subscription nothing in the queue takes away what is there. *)
LEMMA NothingTakes ==
  ASSUME TypeOK, Unheard, ~ passive, NEW k, ~ Has(queue, Gone(Src(k))), k \notin Names \/ ~ Has(queue, Owners)
  PROVE  ~ Has(queue, Takes(k))
<1> SUFFICES ASSUME NEW i \in 1..Len(queue), queue[i] \in Takes(k) PROVE FALSE
  BY DEF Has
<1>1. queue[i] \in Msg
  BY TypeParts, SeqFacts DEF QueueType
<1>2. queue[i] \notin Signals /\ queue[i] \notin Gone(Src(k)) /\ (k \notin Names \/ queue[i] \notin Owners)
  BY DEF Has, Unheard
<1>3. queue[i].t \in {"appeared", "vanished"} => queue[i].k \in Names
  BY <1>1, ReadMessage
<1> QED
  BY <1>1, <1>2, <1>3 DEF Takes, Signals, Gone, Owners

LEMMA LostWaits ==
  ASSUME UniqueGoes, watcher = "theirs", ~ passive
  PROVE  Has(queue, Lost)
  BY DEF UniqueGoes, Settled

LEMMA ElsewhereName ==
  ASSUME TypeOK, NEW k, Elsewhere(k)
  PROVE  k \in Names
<1>1. PICK i \in 1..Len(oqueue) : oqueue[i] \in Appeared(k)
  BY DEF Elsewhere, Has
<1> QED
  BY <1>1, ReadMessage DEF Appeared

LEMMA ElsewhereRead ==
  ASSUME TypeOK, NEW k, Elsewhere(k), Reads, watcher' = "theirs", passive' = passive,
         Head(oqueue) \notin Appeared(k), Head(oqueue) \notin Vanished(k), k \in others' => k \in others
  PROVE  Elsewhere(k)'
<1>1. oqueue \in Seq(Msg) /\ oqueue # <<>> /\ oqueue' = Tail(oqueue)
  BY TypeParts DEF OutsideType, Reads
<1>2. Has(oqueue', Appeared(k)) /\ (Has(oqueue, Vanished(k)) => Has(oqueue', Vanished(k)))
  BY <1>1, HasTail DEF Elsewhere
<1> QED
  BY <1>2 DEF Elsewhere

LEMMA FollowedHas ==
  ASSUME NEW q, NEW A, NEW S, Followed(q, A, S), Has(q, A)
  PROVE  Has(q, S)
  BY DEF Followed, Has

LEMMA AppLive ==
  ASSUME TypeOK, UniqueGoes, Unheard, Unspoken, OtherList, LiveStay, AppStep
  PROVE  LiveStay'
<1>1. UNCHANGED <<renamer, filtered, echoes, passive, missed, watcher, others, open, st, dels, todo, plan>>
  BY AppStepFrame DEF handler, items
<1> SUFFICES ASSUME ~ renamer, echoes = 0, NEW k \in Due' \ missed PROVE Safe(k)' \/ Elsewhere(k)'
  BY <1>1 DEF LiveStay
<1> USE TypeParts
<1>2. oqueue \in Seq(Msg) /\ owned \subseteq Names
  BY DEF OutsideType
<1>3. ASSUME NEW m \in Msg, m \notin Takes(k), queue' = queue \/ queue' = Append(queue, m),
             oqueue' = oqueue \/ oqueue' = Append(oqueue, m), k \in Due
      PROVE  Safe(k)' \/ Elsewhere(k)'
  <2>1. Safe(k) \/ Elsewhere(k)
    BY <1>3 DEF LiveStay
  <2>2. CASE Safe(k)
    BY <1>1, <1>3, <2>2, SafeKept DEF Kept
  <2>3. CASE Elsewhere(k)
    <3>1. \A S : Has(oqueue, S) => Has(oqueue', S)
      BY <1>2, <1>3, HasAppend
    <3> QED
      BY <1>1, <2>3, <3>1 DEF Elsewhere
  <2> QED
    BY <2>1, <2>2, <2>3
<1>4. ASSUME NEW a \in Apps, NEW j \in Keys, AppRegisters(a, j) PROVE Safe(k)' \/ Elsewhere(k)'
  <2>1. M("register", j, a) \in Msg /\ M("register", j, a) \notin Takes(k)
    BY MakeMessage, InSets
  <2>2. k \in Due
    BY <1>1, <1>4 DEF AppRegisters, Due
  <2> QED
    BY <1>3, <1>4, <2>1, <2>2 DEF AppRegisters
<1>5. ASSUME NEW a \in Apps, AppExits(a) PROVE Safe(k)' \/ Elsewhere(k)'
  <2>1. k \in Due
    BY <1>1, <1>5 DEF AppExits, Due
  <2>2. Src(k) # a
    BY <1>5, <2>1, DueKeys, KeyFacts DEF AppExits, NameOf
  <2>3. M("gone", a, NoApp) \in Msg /\ M("gone", a, NoApp) \notin Takes(k)
    BY <2>2, MakeMessage, InSets
  <2>4. queue' = queue \/ queue' = Append(queue, M("gone", a, NoApp))
    BY <1>5, <2>3, ReportQueue DEF AppExits
  <2>5. oqueue' = oqueue \/ oqueue' = Append(oqueue, M("gone", a, NoApp))
    BY <1>5, <2>3, ReportQueue DEF AppExits
  <2> QED
    BY <1>3, <2>1, <2>3, <2>4, <2>5
<1>6. ASSUME NEW n \in Names, AppReleases(n) PROVE Safe(k)' \/ Elsewhere(k)'
  <2>1. k \in Due /\ k # n
    BY <1>1, <1>2, <1>6, KeyFacts DEF AppReleases, Due, OutsideType
  <2>2. M("vanished", n, NoApp) \in Msg /\ M("vanished", n, NoApp) \notin Takes(k)
    BY <2>1, MakeMessage, InSets
  <2>3. queue' = queue \/ queue' = Append(queue, M("vanished", n, NoApp))
    BY <1>6, <2>2, ReportQueue DEF AppReleases
  <2>4. oqueue' = oqueue \/ oqueue' = Append(oqueue, M("vanished", n, NoApp))
    BY <1>6, <2>2, ReportQueue DEF AppReleases
  <2> QED
    BY <1>3, <2>1, <2>2, <2>3, <2>4
<1>7. ASSUME NEW n \in Names, AppOwns(n) PROVE Safe(k)' \/ Elsewhere(k)'
  <2> DEFINE m == M("appeared", n, NoApp)
  <2>1. /\ m \in Msg /\ m \notin Takes(k) /\ m \notin Takes(n) /\ m \in Brings(n) /\ m \in Appeared(n)
        /\ m.k = n
    BY MakeMessage, InSets, MessageFields
  <2>2. Report(m) /\ owned' = owned \cup {n} /\ n \notin owned /\ Home[n] \in alive
    BY <1>7 DEF AppOwns
  <2> HIDE DEF m
  <2>3. /\ queue' = queue \/ queue' = Append(queue, m)
        /\ ~ filtered => queue' = Append(queue, m)
        /\ filtered => queue' = queue
        /\ watcher = "theirs" => oqueue' = Append(oqueue, m)
        /\ oqueue' = oqueue \/ oqueue' = Append(oqueue, m)
    BY <2>1, <2>2, ReportQueue
  <2>4. CASE k # n
    <3>1. k \in Due
      BY <1>1, <2>2, <2>4 DEF Due
    <3> QED
      BY <1>3, <2>1, <2>3, <3>1
  <2>5. CASE k = n /\ ~ filtered
    BY <2>1, <2>3, <2>5, SafeTold
  <2>6. CASE k = n /\ filtered
    <3>1. watcher = "theirs"
      BY <1>1, <1>2, <2>6, KeyFacts DEF Due, OutsideType
    <3>2. CASE passive
      <4>1. Has(oqueue', Appeared(n)) /\ (n \in others => Has(oqueue', Vanished(n)))
        BY <1>2, <2>1, <2>2, <2>3, <3>1, HasAppend DEF OtherList
      <4> QED
        BY <1>1, <2>6, <3>1, <3>2, <4>1 DEF Elsewhere
    <3>3. CASE ~ passive
      <4>1. ~ Has(queue, Gone(Src(n))) /\ ~ Has(queue, Owners)
        BY <2>2, <2>6 DEF Unspoken, Src
      <4>2. ~ Has(queue, Takes(n))
        BY <3>3, <4>1, NothingTakes
      <4> QED
        BY <2>3, <2>6, <3>1, <3>3, <4>2, SafeLost, LostWaits
    <3> QED
      BY <3>2, <3>3
  <2> QED
    BY <2>4, <2>5, <2>6
<1> QED
  BY <1>4, <1>5, <1>6, <1>7 DEF AppStep

(* What the other watcher adds to the queue while it stays takes away         *)
(* nothing but a name it strikes from its list.                               *)
LEMMA StaysKept ==
  ASSUME TypeOK, OtherStays, NEW k \in Names \cup Proxies, ~ Strikes(k), k \in open => k \in open', k \in open \/ k \notin Proxies
  PROVE  Kept(Takes(k), Brings(k))
<1>1. (k \in Names => Src(k) \in Apps) /\ (k \in Proxies => Src(k) = k)
  BY KeyFacts DEF Src
<1>2. /\ \A p \in Proxies : p # k => M("gone", p, NoApp) \in Msg \ Takes(k)
      /\ \A j \in Names \cup Proxies : M("registered", j, NoApp) \in Msg \ Takes(k)
      /\ \A a \in Apps : M("unregistered", a, NoApp) \in Msg \ Takes(k)
      /\ \A n \in Names : n # k => M("unregistered", n, NoApp) \in Msg \ Takes(k)
  BY <1>1, OutsideMessages, InSets, KeyFacts
<1>3. OtherDoes
  BY StaysCases
<1>4. ASSUME NEW p \in Proxies, NEW a \in Apps, Closes(p, a) PROVE Kept(Takes(k), Brings(k))
  <2>1. p # k
    BY <1>4 DEF Closes
  <2> QED
    BY <1>2, <1>4, <2>1 DEF Closes, Kept
<1>5. ASSUME NEW n \in Names, Strikes(n) PROVE Kept(Takes(k), Brings(k))
  <2>1. n # k
    BY <1>5
  <2> QED
    BY <1>2, <1>5, <2>1 DEF Strikes, Kept
<1> QED
  BY <1>2, <1>3, <1>4, <1>5 DEF OtherDoes, Announces, Lists, Opens, Passes, Kept

LEMMA OtherLive ==
  ASSUME TypeOK, UniqueGoes, Unheard, Unspoken, OtherList, LiveStay, OtherStep
  PROVE  LiveStay'
<1>1. UNCHANGED <<renamer, filtered, echoes, passive, missed, owned, st, dels, todo, plan>>
  BY OtherStepFrame DEF handler, items
<1>2. oqueue \in Seq(Msg) /\ owned \subseteq Names /\ open \subseteq Proxies /\ others \subseteq Names \cup Proxies
  BY TypeParts DEF OutsideType
<1> SUFFICES ASSUME ~ renamer, echoes = 0, NEW k \in Due' \ missed PROVE Safe(k)' \/ Elsewhere(k)'
  BY <1>1 DEF LiveStay
<1>3. CASE OtherTakes
  <2>1. /\ M("lost", NoApp, NoApp) \in Msg /\ M("lost", NoApp, NoApp) \notin Takes(k)
        /\ M("lost", NoApp, NoApp) \in Brings(k)
    BY MakeMessage, InSets
  <2> QED
    BY <1>3, <2>1, SafeTold DEF OtherTakes
<1>4. CASE OtherLeaves
  <2>1. k \in Names
    BY <1>1, <1>2, <1>4 DEF OtherLeaves, Due
  <2>2. /\ M("acquired", NoApp, NoApp) \in Msg /\ M("acquired", NoApp, NoApp) \notin Takes(k)
        /\ M("acquired", NoApp, NoApp) \in Brings(k)
    BY <2>1, MakeMessage, InSets
  <2> QED
    BY <1>4, <2>2, SafeTold DEF OtherLeaves
<1>5. ASSUME NEW p \in Proxies, OtherCloses(p) PROVE Safe(k)' \/ Elsewhere(k)'
  <2>1. watcher = "ours" /\ watcher' = "ours" /\ k \in owned /\ k \in Due
    BY <1>1, <1>5 DEF OtherCloses, Due
  <2>2. Src(k) # p
    BY <1>2, <2>1, KeyFacts DEF Src
  <2>3. M("gone", p, NoApp) \in Msg /\ M("gone", p, NoApp) \notin Takes(k)
    BY <2>2, MakeMessage, InSets
  <2>4. Kept(Takes(k), Brings(k))
    BY <1>5, <2>3, ReportQueue DEF OtherCloses, Kept
  <2>5. Safe(k)
    BY <2>1 DEF LiveStay, Elsewhere
  <2> QED
    BY <1>1, <2>4, <2>5, SafeKept
<1>6. CASE OtherStays
  <2>1. watcher = "theirs" /\ watcher' = "theirs" /\ OtherDoes
    BY <1>6, StaysQueue, StaysCases
  <2>2. ASSUME k \in owned PROVE Safe(k)' \/ Elsewhere(k)'
    <3>1. k \in Due /\ k \in Names /\ k \notin Proxies /\ k \notin open
      BY <1>2, <2>1, <2>2, KeyFacts DEF Due
    <3>2. Safe(k) \/ Elsewhere(k)
      BY <3>1 DEF LiveStay
    <3>3. Followed(oqueue, Vanished(k), Appeared(k))
      BY <2>2 DEF OtherList
    <3>4. ASSUME Strikes(k) PROVE Safe(k)' \/ Elsewhere(k)'
      <4>1. oqueue # <<>> /\ oqueue' = Tail(oqueue) /\ Head(oqueue) \in Vanished(k) /\ k \notin others'
        BY <3>4 DEF Strikes, Reads
      <4>2. Has(oqueue', Appeared(k))
        BY <1>2, <3>3, <4>1, FollowedTail
      <4>3. CASE passive
        BY <1>1, <2>1, <4>1, <4>2, <4>3 DEF Elsewhere
      <4>4. CASE ~ passive
        <5>1. Safe(k) /\ queue' = queue
          BY <3>2, <3>4, <4>4 DEF Elsewhere, Strikes
        <5> QED
          BY <1>1, <5>1, SafeKept DEF Kept
      <4> QED
        BY <4>3, <4>4
    <3>5. ASSUME ~ Strikes(k), Safe(k) PROVE Safe(k)'
      <4>1. Kept(Takes(k), Brings(k))
        BY <1>6, <3>1, <3>5, StaysKept
      <4> QED
        BY <1>1, <3>5, <4>1, SafeKept
    <3>6. ASSUME ~ Strikes(k), Elsewhere(k) PROVE Safe(k)' \/ Elsewhere(k)'
      <4>1. passive
        BY <3>6 DEF Elsewhere
      <4>2. ASSUME NEW p \in Proxies, Announces(p) PROVE Elsewhere(k)'
        BY <1>1, <2>1, <3>1, <3>6, <4>2 DEF Announces, Elsewhere
      <4>3. ASSUME NEW n \in Names, n # k, Lists(n) \/ Strikes(n) PROVE Elsewhere(k)'
        <5>1. Head(oqueue) \notin Appeared(k) /\ Head(oqueue) \notin Vanished(k) /\ Reads /\ (k \in others' => k \in others)
          BY <4>3 DEF Lists, Strikes, Appeared, Vanished
        <5> QED
          BY <1>1, <2>1, <3>6, <5>1, ElsewhereRead
      <4>4. ASSUME Lists(k) PROVE Safe(k)' \/ Elsewhere(k)'
        <5>1. CASE k \notin others
          <6>1. /\ M("registered", k, NoApp) \in Msg /\ M("registered", k, NoApp) \notin Takes(k)
                /\ M("registered", k, NoApp) \in Brings(k)
            BY <3>1, OutsideMessages, InSets
          <6> QED
            BY <4>1, <4>4, <5>1, <6>1, SafeTold DEF Lists
        <5>2. CASE k \in others
          <6>1. oqueue # <<>> /\ oqueue' = Tail(oqueue) /\ Head(oqueue) \notin Vanished(k)
            BY <4>4 DEF Lists, Reads, Appeared, Vanished
          <6>2. Has(oqueue', Vanished(k))
            BY <1>2, <3>6, <5>2, <6>1, HasTail DEF Elsewhere
          <6>3. Followed(oqueue', Vanished(k), Appeared(k))
            BY <1>2, <3>3, <6>1, FollowedTail
          <6>4. Has(oqueue', Appeared(k))
            BY <6>2, <6>3, FollowedHas
          <6> QED
            BY <1>1, <2>1, <4>1, <6>2, <6>4 DEF Elsewhere
        <5> QED
          BY <5>1, <5>2
      <4>5. ASSUME \/ \E p \in Proxies, a \in Apps : Opens(p, a) \/ Closes(p, a)
                   \/ Passes
            PROVE  Elsewhere(k)'
        <5>1. Reads /\ Head(oqueue).t \in {"register", "gone"} /\ others' = others
          BY <4>5 DEF Opens, Closes, Passes
        <5>2. Head(oqueue) \notin Appeared(k) /\ Head(oqueue) \notin Vanished(k)
          BY <5>1 DEF Appeared, Vanished
        <5> QED
          BY <1>1, <2>1, <3>6, <5>1, <5>2, ElsewhereRead
      <4> QED
        BY <2>1, <3>6, <4>2, <4>3, <4>4, <4>5 DEF OtherDoes
    <3> QED
      BY <3>2, <3>4, <3>5, <3>6
  <2>3. ASSUME k \notin owned PROVE Safe(k)'
    <3>1. k \in others' /\ k \in open'
      BY <1>1, <2>3 DEF Due
    <3>2. ASSUME NEW n \in Names PROVE k # n
      <4>1. open' \subseteq Proxies
        BY NextType, TypePartsNext, NextSteps, OtherSteps DEF OutsideType
      <4> QED
        BY <3>1, <4>1, KeyFacts
    <3>3. CASE k \in others /\ k \in open
      <4>1. k \in Due /\ k \in Proxies
        BY <1>2, <2>1, <3>3 DEF Due
      <4>2. Safe(k)
        BY <3>2, <4>1, ElsewhereName DEF LiveStay
      <4>3. ~ Strikes(k)
        BY <3>1 DEF Strikes
      <4>4. Kept(Takes(k), Brings(k))
        BY <1>6, <3>1, <3>3, <4>1, <4>3, StaysKept
      <4> QED
        BY <1>1, <4>2, <4>4, SafeKept
    <3>4. CASE Announces(k) /\ k \in Proxies
      <4>1. CASE passive
        <5>1. /\ M("registered", k, NoApp) \in Msg /\ M("registered", k, NoApp) \notin Takes(k)
              /\ M("registered", k, NoApp) \in Brings(k)
          BY <3>4, OutsideMessages, InSets
        <5> QED
          BY <3>4, <4>1, <5>1, SafeTold DEF Announces
      <4>2. CASE ~ passive
        <5>1. ~ Has(queue, Gone(Src(k))) /\ k \notin Names
          BY <3>4, KeyFacts DEF Unspoken, Announces, Src
        <5>2. ~ Has(queue, Takes(k))
          BY <4>2, <5>1, NothingTakes
        <5>3. queue' = queue
          BY <3>4, <4>2 DEF Announces
        <5> QED
          BY <2>1, <4>2, <5>2, <5>3, SafeLost, LostWaits
      <4> QED
        BY <4>1, <4>2
    <3>5. ASSUME NEW p \in Proxies, Announces(p), k # p PROVE k \in others /\ k \in open
      BY <3>1, <3>5 DEF Announces
    <3>6. ASSUME NEW n \in Names, Lists(n) \/ Strikes(n) PROVE k \in others /\ k \in open
      BY <3>1, <3>2, <3>6 DEF Lists, Strikes
    <3>7. ASSUME NEW p \in Proxies, NEW a \in Apps, Opens(p, a) \/ Closes(p, a) PROVE k \in others /\ k \in open
      <4>1. k \in others /\ (Closes(p, a) => k \in open)
        BY <3>1, <3>7 DEF Opens, Closes
      <4>2. Opens(p, a) => k \in open \/ (k = p /\ serves[p] = NoApp)
        BY <3>1 DEF Opens
      <4> QED
        BY <3>7, <4>1, <4>2 DEF Unspoken
    <3>8. Passes => k \in others /\ k \in open
      BY <3>1 DEF Passes
    <3> QED
      BY <2>1, <3>3, <3>4, <3>5, <3>6, <3>7, <3>8 DEF OtherDoes
  <2> QED
    BY <2>2, <2>3
<1> QED
  BY <1>3, <1>4, <1>5, <1>6, OtherSteps

LEMMA OursLive ==
  ASSUME TypeOK, CurItem, OwnerKnown, LiveStay, Ours
  PROVE  LiveStay'
<1>1. UNCHANGED <<renamer, filtered, owned, watcher, oqueue, others, open>>
  BY OursFrame
<1>2. missed \subseteq missed' /\ (passive => passive') /\ (echoes' = 0 => echoes = 0)
  <2>1. CASE Handler
    <3>1. echoes' = echoes /\ UNCHANGED items
      BY <2>1, HandlerEffect
    <3>2. passive' = TRUE \/ passive' = passive
      BY <2>1, HandlerEffect
    <3> QED
      BY <3>1, <3>2 DEF items
  <2>2. CASE InitialScan \/ Bootstrap
    BY <2>2, PlanEffect DEF items, bus
  <2>3. CASE Works
    BY <2>3, WorksItems, WorksFrame, WorksQueue DEF bus
  <2> QED
    BY <2>1, <2>2, <2>3 DEF Ours
<1> SUFFICES ASSUME ~ renamer, echoes' = 0, NEW k \in Due, k \notin missed' PROVE Safe(k)' \/ Elsewhere(k)'
  BY <1>1 DEF LiveStay, Due
<1>3. CASE Elsewhere(k)
  BY <1>1, <1>2, <1>3 DEF Elsewhere
<1>4. CASE Safe(k)
  <2>1. /\ k \in Names \cup Proxies /\ k \notin Apps /\ k \in Keys
        /\ k \in Names => k \in owned
        /\ k \in Proxies => k \in others /\ k \notin Names
    BY DueKeys, KeyFacts
  <2>2. CASE Handler
    <3> DEFINE m == Head(queue)
    <3>1. /\ m \in Msg /\ queue # <<>> /\ queue' = Tail(queue) /\ todo = {} /\ dels = {} /\ plan = <<>> /\ st' = st
      BY <2>2, HandlerEffect DEF items
    <3>2. queue \in Seq(Msg)
      BY TypeParts DEF QueueType
    <3>3. Followed(queue', Takes(k), Brings(k)) /\ (m \in Takes(k) => Has(queue', Brings(k)))
      BY <1>4, <3>1, <3>2, FollowedTail DEF Safe
    <3>4. ASSUME m \in Brings(k) PROVE Here(k)'
      <4>1. CASE m.t = "lost"
        <5>1. plan' = <<"scan", "boot">>
          BY <2>2, <4>1, HandlerEffect
        <5> QED
          BY <5>1, Zenon DEF Here, Scanning, Booting
      <4>2. CASE m.t = "acquired" /\ k \in Names
        <5>1. plan' = <<"scan">>
          BY <2>2, <4>2, HandlerEffect
        <5> QED
          BY <4>2, <5>1, Zenon DEF Here, Scanning
      <4>3. CASE m.t \in {"appeared", "registered"} /\ m.k = k
        <5>1. todo' = {k}
          BY <2>2, <4>3, HandlerEffect
        <5> QED
          BY <5>1 DEF Here, Wanted
      <4> QED
        BY <3>4, <4>1, <4>2, <4>3 DEF Brings
    <3>5. ASSUME Has(queue, Brings(k)), m \notin Brings(k) PROVE Has(queue', Brings(k))
      BY <3>1, <3>2, <3>5, HasTail
    <3>6. ASSUME Here(k), m \notin Takes(k) PROVE Here(k)'
      <4>1. st[k] # "none"
        BY <3>1, <3>6, PlanValues, Zenon DEF Here, Wanted, Scanning, Booting
      <4>2. k \notin dels'
        <5>1. m.t \in {"vanished", "unregistered"} => m.k # k
          BY <3>1, <3>6 DEF Takes
        <5>2. m.t = "gone" => uname[k] # m.k
          <6>1. m.t = "gone" => m.k # Src(k) /\ m.k # NoApp
            BY <3>1, <3>6, ReadMessage, KeyFacts DEF Takes
          <6> QED
            BY <2>1, <6>1 DEF OwnerKnown
        <5> QED
          BY <2>1, <2>2, <5>1, <5>2, HandlerEffect
      <4> QED
        BY <3>1, <4>1, <4>2 DEF Here, Wanted
    <3> HIDE DEF m
    <3> QED
      BY <1>4, <3>3, <3>4, <3>5, <3>6 DEF Safe
  <2>3. CASE InitialScan \/ Bootstrap
    <3>1. /\ UNCHANGED <<queue, dels, st>> /\ todo = {} /\ dels = {}
          /\ \/ Scanning /\ todo' = owned /\ plan' = IF Booting THEN <<"boot">> ELSE <<>>
             \/ Booting /\ ~ Scanning /\ todo' = others /\ plan' = <<>>
      BY <2>3, PlanEffect DEF items, bus
    <3>2. ASSUME Wanted(k) PROVE Here(k)'
      BY <3>1, <3>2 DEF Wanted, Here
    <3>3. ASSUME k \in Names, Scanning PROVE Here(k)'
      BY <2>1, <3>1, <3>3 DEF Here, Wanted
    <3>4. ASSUME k \in Proxies, Booting PROVE Here(k)'
      <4>1. CASE todo' = others
        BY <2>1, <3>4, <4>1 DEF Here, Wanted
      <4>2. CASE plan' = <<"boot">>
        BY <2>1, <3>4, <4>2, Zenon DEF Here, Booting
      <4> QED
        BY <3>1, <3>4, <4>1, <4>2
    <3>5. Here(k) => Here(k)'
      BY <2>1, <3>2, <3>3, <3>4 DEF Here
    <3> QED
      BY <1>4, <3>1, <3>5 DEF Safe
  <2>4. CASE Works
    <3>1. queue' = queue /\ plan' = plan
      BY <2>4, WorksQueue, WorksFrame DEF bus
    <3>2. Wanted(k) => Wanted(k)'
      BY <2>1, <2>4, WorksItems
    <3> QED
      BY <1>4, <3>1, <3>2 DEF Safe, Here, Scanning, Booting
  <2> QED
    BY <2>2, <2>3, <2>4 DEF Ours
<1> QED
  BY <1>2, <1>3, <1>4 DEF LiveStay

LEMMA NextLive ==
  TypeOK /\ CurItem /\ OwnerKnown /\ UniqueGoes /\ Unheard /\ Unspoken /\ OtherList /\ LiveStay /\ [Next]_vars
  => LiveStay'
  BY AppLive, OtherLive, OursLive, NextSteps

-----------------------------------------------------------------------------
(* All of it together, and what it says once nothing is left to do. *)

ConvergeInv == /\ TypeOK /\ ItemInv /\ OwnerKnown /\ UniqueGoes /\ Unheard /\ Unspoken
               /\ OtherList /\ DeadGo /\ LiveStay

LEMMA InitConverge == Init => ConvergeInv
<1> SUFFICES ASSUME Init PROVE ConvergeInv
  OBVIOUS
<1> DEFINE m == M(IF watcher = "ours" THEN "acquired" ELSE "lost", NoApp, NoApp)
<1>1. m \in Msg /\ m.t \in {"acquired", "lost"} /\ queue = <<m>>
  BY MakeMessage, MessageFields DEF Init
<1> HIDE DEF m
<1>2. Len(queue) = 1 /\ queue[1] = m
  BY <1>1
<1>3. Len(oqueue) = 0 /\ oqueue = <<>> /\ open = {} /\ others \cap Proxies = {} /\ ~ passive
  BY KeyFacts DEF Init
<1>4. TypeOK /\ ItemInv /\ UniqueGoes
  BY InitType, InitItems, InitUnique
<1>5. OwnerKnown
  BY DEF Init, OwnerKnown
<1>6. ~ Booting /\ ~ Scanning /\ todo = {} /\ \A k \in Keys : st[k] = "none"
  BY PlanValues, Zenon DEF Init, Booting, Scanning
<1>7. Unheard
  BY <1>1, <1>2, <1>6, KeyFacts DEF Unheard, Has, Signals
<1>8. Unspoken
  BY <1>1, <1>2, <1>3 DEF Unspoken, Has, Gone, Owners
<1>9. OtherList
  <2>1. /\ \A n : Followed(oqueue, Vanished(n), Appeared(n)) /\ Followed(oqueue, Appeared(n), Vanished(n))
        /\ watcher = "ours" => others = {}
        /\ others \subseteq owned
    BY <1>3, EmptyFollowed DEF Init
  <2> QED
    BY <1>3, <2>1 DEF OtherList
<1>10. DeadGo
  <2>1. ASSUME NEW k \in Keys
        PROVE  /\ ~ Wanted(k) /\ ~ Known(k)
               /\ Followed(queue, Appeared(k), Vanished(k)) /\ Followed(queue, Adds(k), Gone(k))
    BY <1>1, <1>2, <1>6 DEF Wanted, Known, Followed, Appeared, Adds
  <2> QED
    BY <2>1, KeyFacts DEF DeadGo, NameGoes, AppGoes
<1>11. LiveStay
  <2> SUFFICES ASSUME NEW k \in Due PROVE Safe(k)
    BY DEF LiveStay
  <2>1. k \in Names
    BY <1>3, <1>4, TypeParts DEF Due, OutsideType
  <2>2. m \in Brings(k) /\ m \notin Takes(k)
    BY <1>1, <2>1 DEF Brings, Takes
  <2> QED
    BY <1>2, <2>2 DEF Safe, Has, Followed
<1> QED
  BY <1>4, <1>5, <1>7, <1>8, <1>9, <1>10, <1>11 DEF ConvergeInv

LEMMA NextConverge == ConvergeInv /\ [Next]_vars => ConvergeInv'
<1> SUFFICES ASSUME ConvergeInv, [Next]_vars PROVE ConvergeInv'
  OBVIOUS
<1>1. TypeOK /\ ItemInv /\ CurItem /\ OwnerKnown /\ UniqueGoes /\ Unheard /\ Unspoken /\ OtherList /\ DeadGo /\ LiveStay
  BY DEF ConvergeInv, ItemInv
<1>2. TypeOK' /\ ItemInv' /\ OwnerKnown' /\ UniqueGoes'
  BY <1>1, NextType, NextItems, NextOwner, NextUnique
<1>3. Unheard' /\ Unspoken' /\ OtherList'
  BY <1>1, NextUnheard, NextUnspoken, NextOthers
<1>4. DeadGo' /\ LiveStay'
  BY <1>1, NextDead, NextLive
<1> QED
  BY <1>2, <1>3, <1>4 DEF ConvergeInv

LEMMA ConvergeFrom == ConvergeInv => ItemsConverge
<1> SUFFICES ASSUME ConvergeInv, Quiet, NoEcho
             PROVE  NoneLeftOver /\ (renamer \/ (NoneForgotten /\ PanelShows))
  BY DEF ItemsConverge
<1> USE DEF ConvergeInv
<1>1. /\ cur = NoCall /\ dels = {} /\ todo = {} /\ plan = <<>> /\ panelCalls = {} /\ echoes = 0
      /\ \A k \in Keys : st[k] # "owning"
      /\ \A S : ~ Has(queue, S)
  BY EmptyHas DEF Quiet, Idle, Free, NoEcho
<1>2. NoneLeftOver
  <2> SUFFICES ASSUME ~ filtered, NEW k \in Tracked, ~ Live(k)
               PROVE  passive /\ k \notin Apps /\ uname[k] = NoApp
    BY DEF NoneLeftOver
  <2>1. k \in Keys /\ Wanted(k) /\ (uname[k] # NoApp => Known(k))
    BY <1>1 DEF Tracked, Wanted, Known
  <2>2. k \notin Apps
    BY <1>1, <2>1 DEF DeadGo, AppGoes, Live
  <2>3. ASSUME k \in Names PROVE passive /\ uname[k] = NoApp
    <3>1. NameGoes(k)
      BY <1>1, <2>3 DEF DeadGo, Live
    <3> QED
      BY <1>1, <2>1, <3>1 DEF NameGoes
  <2>4. ASSUME k \in Proxies PROVE passive /\ uname[k] = NoApp
    <3>1. passive
      BY <2>4 DEF Unheard, Tracked
    <3>2. uname[k] = NoApp
      BY <1>1, <2>1, <2>4 DEF DeadGo, Live
    <3> QED
      BY <3>1, <3>2
  <2> QED
    BY <2>1, <2>2, <2>3, <2>4 DEF Keys
<1>3. ASSUME ~ renamer PROVE NoneForgotten
  <2>1. ASSUME NEW k \in Due, k \notin missed PROVE k \in Ready
    <3>1. k \in Keys
      BY DueKeys, KeyFacts
    <3>2. ~ Elsewhere(k)
      BY EmptyHas DEF Quiet, Elsewhere
    <3>3. Here(k)
      BY <1>1, <1>3, <2>1, <3>2 DEF LiveStay, Safe
    <3>4. st[k] # "none"
      BY <1>1, <3>3, PlanValues, Zenon DEF Here, Wanted, Scanning, Booting
    <3>5. st[k] \notin {"new", "owning", "waiting", "stuck"}
      BY <1>1, <2>1, <3>1 DEF ItemInv, CurItem
    <3> QED
      BY <3>1, <3>4, <3>5, TypeParts DEF ItemType, Ready
  <2> QED
    BY <2>1 DEF NoneForgotten, Due
<1>4. ASSUME ~ renamer PROVE PanelShows
  BY <1>1, <1>4 DEF ItemInv, PanelInv, PanelShows
<1> QED
  BY <1>2, <1>3, <1>4

(* Whatever the order in which the scan, the register calls, NameOwnerChanged *)
(* and the list and signals of another renamer reach the main loop, once      *)
(* nothing is left to do: no item remains of what is gone, if NameOwnerChanged *)
(* gets through, save one the other renamer told us of when it had already    *)
(* gone; no application with a well-known name and none the other renamer     *)
(* serves is forgotten, unless a call to the target bus failed; and the panel *)
(* shows what is ready.                                                       *)
THEOREM TrayConverges == Spec => []ItemsConverge
  BY InitConverge, NextConverge, ConvergeFrom, PTL DEF Spec
=============================================================================
