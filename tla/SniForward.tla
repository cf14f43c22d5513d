----------------------------- MODULE SniForward -----------------------------
(***************************************************************************)
(* The forwarding half of the StatusNotifierItem proxy: calls of the panel *)
(* to an item go to the item's application, its NewIcon signals go to the  *)
(* panel.  Calls of menus are asynchronous, clicks are answered at once    *)
(* and forwarded 50 ms later, and properties are fetched by calls that     *)
(* block the main loop.  SniProxy says which items there are; here an item *)
(* comes up once and goes with its application.                            *)
(*                                                                         *)
(* An icon stands for IconName and the pixmap rendered from it.  Every     *)
(* application has a menu, which is cached if the first Get succeeds.      *)
(***************************************************************************)
EXTENDS Integers, Sequences, FiniteSets

CONSTANTS
  Items,      \* items, one per application
  Paths,      \* object paths of items on the source bus
  StdPath,    \* /StatusNotifierItem
  Icons,      \* icons an application may show
  Rendered,   \* those the icon theme has
  NoIcon,     \* no icon: nothing cached, nothing shown
  Modes,      \* the values of renamer_mode to look at
  MaxCalls,   \* bound: calls the panel makes of its own accord
  MaxChanges  \* bound: icon changes

ASSUME ConstantsAssumption ==
  /\ Rendered \subseteq Icons /\ Icons \cap {NoIcon, "none", "error"} = {} /\ StdPath \in Paths /\ Modes \subseteq BOOLEAN
  /\ MaxCalls \in Nat /\ MaxChanges \in Nat

(* "menu": ItemIsMenu and Menu; to Set a property is like a Get of "menu" that *)
(* no cache answers.                                                           *)
Kinds == {"click", "call", "icon", "menu"}
None == "none"   \* no answer yet
Error == "error"
Late == -1       \* on the wire, a call whose answer comes too late

VARIABLES
  renamer,  \* renamer_mode_
  path,     \* path[i]: item_object_path
  phase,    \* absent, fetching (ready, in its first Get), up, gone
  cache,    \* cached_pixmap
  menu,     \* items with a cached_menu_path
  cur,      \* the blocking call of the main loop: item, purpose, call, result
  inbox,    \* inbox[i]: calls of the panel not yet dispatched
  timers,   \* clicks whose 50 ms run
  inflight, \* asynchronous calls without a result
  replies,  \* asynchronous calls whose callback is due
  wire,     \* wire[i]: what application i has still to handle
  clicks,   \* clicks[i]: the clicks sent to application i
  srcq,     \* signals of the source bus not yet dispatched
  alive, icon, changes,
  calls,    \* all calls of the panel: item, kind, number of answers
  reread,   \* items whose NewIcon the panel has still to act on
  shown,    \* shown[i]: the icon in the panel
  failed    \* items whose last refresh gave no icon

fixed == <<renamer, path>>
loop  == <<phase, cache, menu, cur, inbox, timers, inflight, replies>>
apps  == <<wire, clicks, srcq, alive, icon, changes>>
panel == <<calls, reread, shown, failed>>
vars  == <<fixed, loop, apps, panel>>

Idle == [i |-> CHOOSE i \in Items : TRUE, why |-> "idle", id |-> 0, res |-> None]

Init ==
  /\ renamer \in Modes /\ path \in [Items -> Paths]
  /\ phase = [i \in Items |-> "absent"] /\ cache = [i \in Items |-> NoIcon] /\ menu = {}
  /\ cur = Idle /\ inbox = [i \in Items |-> <<>>] /\ timers = <<>>
  /\ inflight = {} /\ replies = {}
  /\ wire = [i \in Items |-> <<>>] /\ clicks = [i \in Items |-> <<>>] /\ srcq = <<>>
  /\ alive = Items /\ icon \in [Items -> Icons] /\ changes = 0
  /\ calls = <<>> /\ reread = {} /\ shown = [i \in Items |-> NoIcon] /\ failed = {}

Free == cur = Idle
-----------------------------------------------------------------------------
(* Applications and the bus daemon. *)

(* NewIcon, delivered once the item's subscription exists. *)
AppChangesIcon(i, x) ==
  /\ i \in alive /\ changes < MaxChanges /\ x # icon[i]
  /\ icon' = [icon EXCEPT ![i] = x] /\ changes' = changes + 1
  /\ srcq' = IF phase[i] \in {"fetching", "up"} THEN Append(srcq, [t |-> "NewIcon", i |-> i]) ELSE srcq
  /\ UNCHANGED <<fixed, loop, wire, clicks, alive, panel>>

WaitsFor(i) == cur # Idle /\ cur.i = i /\ cur.res = None

(* An application handles what it is sent in order, when it likes. *)
AppHandles(i) ==
  /\ i \in alive /\ wire[i] # <<>>
  /\ wire' = [wire EXCEPT ![i] = Tail(@)]
  /\ cur' = IF WaitsFor(i) /\ Head(wire[i]) = cur.id THEN [cur EXCEPT !.res = icon[i]] ELSE cur
  /\ replies' = replies \cup ({Head(wire[i])} \cap inflight)
  /\ UNCHANGED <<fixed, phase, cache, menu, inbox, timers, inflight,
                 clicks, srcq, alive, icon, changes, panel>>

CallsOf(i) == {id \in 1..Len(calls) : calls[id].i = i}

(* The daemon answers for an application that is gone. *)
AppExits(i) ==
  /\ i \in alive
  /\ alive' = alive \ {i} /\ wire' = [wire EXCEPT ![i] = <<>>]
  /\ cur' = IF WaitsFor(i) THEN [cur EXCEPT !.res = Error] ELSE cur
  /\ replies' = replies \cup (inflight \cap CallsOf(i))
  /\ srcq' = Append(srcq, [t |-> "gone", i |-> i])
  /\ UNCHANGED <<fixed, phase, cache, menu, inbox, timers, inflight,
                 clicks, icon, changes, panel>>

(* What is on the wire, once nobody waits for the answer to id. *)
Abandoned(s, id) == [n \in 1..Len(s) |-> IF s[n] = id THEN Late ELSE s[n]]

(* The timeouts of g_dbus_connection_call_sync and g_dbus_connection_call.    *)
(* The application still handles what timed out, and its answer is dropped.   *)
SyncTimesOut ==
  /\ cur # Idle /\ cur.res = None
  /\ cur' = [cur EXCEPT !.res = Error]
  /\ wire' = [wire EXCEPT ![cur.i] = Abandoned(@, cur.id)]
  /\ UNCHANGED <<fixed, phase, cache, menu, inbox, timers, inflight, replies,
                 clicks, srcq, alive, icon, changes, panel>>

(* Mutant: calls are made with no timeout. *)
CallTimesOut_Never(id) == id \in inflight /\ FALSE /\ UNCHANGED vars

CallTimesOut(id) ==
  /\ id \in inflight \ replies
  /\ replies' = replies \cup {id}
  /\ UNCHANGED <<fixed, phase, cache, menu, cur, inbox, timers, inflight, apps, panel>>
-----------------------------------------------------------------------------
(* The panel, on the target bus. *)

Calls(i, kind) ==
  /\ phase[i] = "up"
  /\ calls' = Append(calls, [i |-> i, kind |-> kind, answers |-> 0])
  /\ inbox' = [inbox EXCEPT ![i] = Append(@, Len(calls) + 1)]
  /\ UNCHANGED <<fixed, phase, cache, menu, cur, timers, inflight, replies, apps, shown, failed>>

PanelCalls(i, kind) ==
  /\ kind # "icon"
  /\ Cardinality({id \in 1..Len(calls) : calls[id].kind # "icon"}) < MaxCalls
  /\ Calls(i, kind) /\ UNCHANGED reread

(* It reads the icon of a new item, and again after NewIcon. *)
PanelReads(i) == i \in reread /\ Calls(i, "icon") /\ reread' = reread \ {i}
-----------------------------------------------------------------------------
(* The main loop. *)

(* An answer goes nowhere once the item's connection is closed. *)
Answered(ids) == [id \in 1..Len(calls) |->
                    IF id \in ids /\ phase[calls[id].i] # "gone"
                    THEN [calls[id] EXCEPT !.answers = @ + 1] ELSE calls[id]]

(* A blocking call to the application: the main loop does nothing else. *)
Block(i, why, id) ==
  /\ cur' = [i |-> i, why |-> why, id |-> id, res |-> IF i \in alive THEN None ELSE Error]
  /\ wire' = IF i \in alive THEN [wire EXCEPT ![i] = Append(@, id)] ELSE wire

(* Mutant: the subscription is made after the first Get. *)
ItemNameAcquired_LateSubscription(i) ==
  /\ Free /\ phase[i] = "absent"
  /\ Block(i, "start", 0)
  /\ UNCHANGED <<fixed, phase, cache, menu, inbox, timers, inflight, replies,
                 clicks, srcq, alive, icon, changes, panel>>

(* on_item_name_acquired: objects, subscription, then the first Get.  What    *)
(* was asked before, the path of the menu, only took time.                    *)
ItemNameAcquired(i) ==
  /\ Free /\ phase[i] = "absent"
  /\ phase' = [phase EXCEPT ![i] = "fetching"]
  /\ Block(i, "start", 0)
  /\ UNCHANGED <<fixed, cache, menu, inbox, timers, inflight, replies,
                 clicks, srcq, alive, icon, changes, panel>>

(* Mutant: the cache takes whatever the call returned. *)
Refreshed_Unchecked(i, x) == [cache EXCEPT ![i] = x]

(* icon_name_to_pixmap: an icon the theme has not leaves the old pixmap. *)
Refreshed(i, x) == IF x \in Rendered THEN [cache EXCEPT ![i] = x] ELSE cache
FailedAfter(i, x) == IF x \in (IF renamer THEN Rendered ELSE Icons) THEN failed \ {i} ELSE failed \cup {i}

(* ... from the result of that Get: caches, and the item is advertised. *)
ItemUp ==
  /\ cur.why = "start" /\ cur.res # None
  /\ phase' = [phase EXCEPT ![cur.i] = "up"]
  /\ cache' = IF renamer THEN Refreshed(cur.i, cur.res) ELSE cache
  /\ menu' = IF cur.res # Error THEN menu \cup {cur.i} ELSE menu
  /\ failed' = IF renamer THEN FailedAfter(cur.i, cur.res) ELSE failed
  /\ reread' = reread \cup {cur.i} /\ cur' = Idle
  /\ UNCHANGED <<fixed, inbox, timers, inflight, replies, apps, calls, shown>>

(* Mutant: the panel's invocation is kept for the deferred event. *)
HandleClick_KeepsInvocation(i) ==
  /\ Free /\ inbox[i] # <<>> /\ calls[Head(inbox[i])].kind = "click"
  /\ inbox' = [inbox EXCEPT ![i] = Tail(@)]
  /\ calls' = Answered({Head(inbox[i])})
  /\ timers' = Append(timers, Head(inbox[i]))
  /\ inflight' = inflight \cup {Head(inbox[i])} /\ replies' = replies \cup {Head(inbox[i])}
  /\ UNCHANGED <<fixed, phase, cache, menu, cur, apps, reread, shown, failed>>

(* on_method_call: a clicked event. *)
HandleClick(i) ==
  /\ Free /\ inbox[i] # <<>> /\ calls[Head(inbox[i])].kind = "click"
  /\ inbox' = [inbox EXCEPT ![i] = Tail(@)]
  /\ calls' = Answered({Head(inbox[i])})
  /\ timers' = Append(timers, Head(inbox[i]))
  /\ UNCHANGED <<fixed, phase, cache, menu, cur, inflight, replies, apps, reread, shown, failed>>

(* Mutant: the last click to come is the first to be forwarded. *)
ForwardClick_LastFirst ==
  /\ Free /\ timers # <<>>
  /\ timers' = SubSeq(timers, 1, Len(timers) - 1)
  /\ LET id == timers[Len(timers)]
         i  == calls[id].i
     IN  IF i \in alive
         THEN /\ wire' = [wire EXCEPT ![i] = Append(@, id)]
              /\ clicks' = [clicks EXCEPT ![i] = Append(@, id)]
         ELSE UNCHANGED <<wire, clicks>>
  /\ UNCHANGED <<fixed, phase, cache, menu, cur, inbox, inflight, replies,
                 srcq, alive, icon, changes, panel>>

(* Mutant: a click on an item with calls under way is dropped. *)
ForwardClick_DropsWhenBusy ==
  /\ Free /\ timers # <<>>
  /\ timers' = Tail(timers)
  /\ LET id == Head(timers)
         i  == calls[id].i
     IN  IF i \in alive /\ inflight = {}
         THEN /\ wire' = [wire EXCEPT ![i] = Append(@, id)]
              /\ clicks' = [clicks EXCEPT ![i] = Append(@, id)]
         ELSE UNCHANGED <<wire, clicks>>
  /\ UNCHANGED <<fixed, phase, cache, menu, cur, inbox, inflight, replies,
                 srcq, alive, icon, changes, panel>>

(* on_event_click_delay, forward_deferred_event: timers of one length run     *)
(* out in order; to an application that is gone the event is lost.            *)
ForwardClick ==
  /\ Free /\ timers # <<>>
  /\ timers' = Tail(timers)
  /\ LET id == Head(timers)
         i  == calls[id].i
     IN  IF i \in alive
         THEN /\ wire' = [wire EXCEPT ![i] = Append(@, id)]
              /\ clicks' = [clicks EXCEPT ![i] = Append(@, id)]
         ELSE UNCHANGED <<wire, clicks>>
  /\ UNCHANGED <<fixed, phase, cache, menu, cur, inbox, inflight, replies,
                 srcq, alive, icon, changes, panel>>

(* on_method_call: any other method. *)
HandleCall(i) ==
  /\ Free /\ inbox[i] # <<>> /\ calls[Head(inbox[i])].kind = "call"
  /\ inbox' = [inbox EXCEPT ![i] = Tail(@)]
  /\ LET id == Head(inbox[i])
     IN  /\ inflight' = inflight \cup {id}
         /\ wire' = IF i \in alive THEN [wire EXCEPT ![i] = Append(@, id)] ELSE wire
         /\ replies' = IF i \in alive THEN replies ELSE replies \cup {id}
  /\ UNCHANGED <<fixed, phase, cache, menu, cur, timers, clicks, srcq, alive, icon, changes, panel>>

(* method_reply_callback: a result or an error, a timeout's included. *)
MethodReply(id) ==
  /\ Free /\ id \in replies
  /\ replies' = replies \ {id} /\ inflight' = inflight \ {id}
  /\ calls' = Answered({id})
  /\ UNCHANGED <<fixed, phase, cache, menu, cur, inbox, timers, apps, reread, shown, failed>>

(* on_get_property answers these itself. *)
Synthesised(i, kind) ==
  \/ renamer /\ kind = "icon" /\ cache[i] # NoIcon
  \/ ~ renamer /\ kind = "menu" /\ i \in menu

(* on_get_property, from the caches. *)
GetCached(i) ==
  /\ Free /\ inbox[i] # <<>> /\ Synthesised(i, calls[Head(inbox[i])].kind)
  /\ inbox' = [inbox EXCEPT ![i] = Tail(@)]
  /\ calls' = Answered({Head(inbox[i])})
  /\ shown' = IF renamer THEN [shown EXCEPT ![i] = cache[i]] ELSE shown
  /\ UNCHANGED <<fixed, phase, cache, menu, cur, timers, inflight, replies, apps, reread, failed>>

(* on_get_property, on_set_property: asked of the application ... *)
HandleProperty(i) ==
  /\ Free /\ inbox[i] # <<>>
  /\ calls[Head(inbox[i])].kind \in {"icon", "menu"}
  /\ ~ Synthesised(i, calls[Head(inbox[i])].kind)
  /\ inbox' = [inbox EXCEPT ![i] = Tail(@)]
  /\ Block(i, "property", Head(inbox[i]))
  /\ UNCHANGED <<fixed, phase, cache, menu, timers, inflight, replies,
                 clicks, srcq, alive, icon, changes, panel>>

(* ... and answered. *)
PropertyReply ==
  /\ cur.why = "property" /\ cur.res # None
  /\ cur' = Idle /\ calls' = Answered({cur.id})
  /\ IF calls[cur.id].kind = "icon"
     THEN /\ shown' = IF cur.res \in Icons THEN [shown EXCEPT ![cur.i] = cur.res] ELSE shown
          /\ failed' = IF renamer THEN failed ELSE FailedAfter(cur.i, cur.res)
     ELSE UNCHANGED <<shown, failed>>
  /\ UNCHANGED <<fixed, phase, cache, menu, inbox, timers, inflight, replies, apps, reread>>

(* The panel's tray only looks at /StatusNotifierItem: unless it is the       *)
(* renamer, the proxy exports every item there.                               *)
Exported(j) == IF renamer THEN path[j] ELSE StdPath

(* on_signal_received: the items that have the signal's path. *)
Candidates(i) == {j \in Items : phase[j] = "up" /\ Exported(j) = path[i]}

NewIconFrom == /\ Free /\ srcq # <<>> /\ Head(srcq).t = "NewIcon"
               /\ srcq' = Tail(srcq)

(* The first of them gets it; the renamer renders its icon before. *)
ForwardSignal(j) ==
  /\ NewIconFrom /\ j \in Candidates(Head(srcq).i)
  /\ IF renamer
     THEN Block(j, "signal", 0) /\ UNCHANGED reread
     ELSE reread' = reread \cup {j} /\ UNCHANGED <<cur, wire>>
  /\ UNCHANGED <<fixed, phase, cache, menu, inbox, timers, inflight, replies,
                 clicks, alive, icon, changes, calls, shown, failed>>

IconRefreshed ==
  /\ cur.why = "signal" /\ cur.res # None
  /\ cache' = Refreshed(cur.i, cur.res)
  /\ failed' = FailedAfter(cur.i, cur.res)
  /\ reread' = reread \cup {cur.i} /\ cur' = Idle
  /\ UNCHANGED <<fixed, phase, menu, inbox, timers, inflight, replies, apps, calls, shown>>

IgnoreSignal ==
  /\ NewIconFrom /\ Candidates(Head(srcq).i) = {}
  /\ UNCHANGED <<fixed, loop, wire, clicks, alive, icon, changes, panel>>

(* remove_item closes the item's connection to the panel, and the daemon of   *)
(* the target bus answers what the item owes.                                 *)
RemoveItem ==
  /\ Free /\ srcq # <<>> /\ Head(srcq).t = "gone"
  /\ LET i == Head(srcq).i
         owed == {id \in CallsOf(i) : calls[id].answers = 0}
     IN  /\ phase' = [phase EXCEPT ![i] = "gone"]
         /\ inbox' = [inbox EXCEPT ![i] = <<>>]
         /\ calls' = Answered(owed)
         /\ reread' = reread \ {i} /\ shown' = [shown EXCEPT ![i] = NoIcon]
  /\ srcq' = Tail(srcq)
  /\ UNCHANGED <<fixed, cache, menu, cur, timers, inflight, replies,
                 wire, clicks, alive, icon, changes, failed>>
-----------------------------------------------------------------------------
AppStep == \E i \in Items : AppHandles(i) \/ AppExits(i) \/ \E x \in Icons : AppChangesIcon(i, x)

PanelStep == \E i \in Items : PanelReads(i) \/ \E kind \in Kinds : PanelCalls(i, kind)

Timeouts == SyncTimesOut \/ \E id \in inflight : CallTimesOut(id)

LoopStep ==
  \/ ItemUp \/ ForwardClick \/ PropertyReply \/ IconRefreshed \/ IgnoreSignal \/ RemoveItem
  \/ \E i \in Items : \/ ItemNameAcquired(i) \/ HandleClick(i) \/ HandleCall(i) \/ GetCached(i)
                      \/ HandleProperty(i) \/ ForwardSignal(i)
  \/ \E id \in replies : MethodReply(id)

Next == AppStep \/ PanelStep \/ Timeouts \/ LoopStep

Spec == Init /\ [][Next]_vars

(* The main loop runs and GDBus keeps its timeouts.  An application need not  *)
(* answer and the panel need not call.                                        *)
FairSpec == Spec /\ WF_vars(LoopStep) /\ WF_vars(Timeouts)
-----------------------------------------------------------------------------
(* Type invariant. *)
TypeOK ==
  /\ renamer \in BOOLEAN /\ path \in [Items -> Paths]
  /\ phase \in [Items -> {"absent", "fetching", "up", "gone"}]
  /\ cache \in [Items -> Icons \cup {NoIcon}] /\ shown \in [Items -> Icons \cup {NoIcon}]
  /\ icon \in [Items -> Icons]
  /\ menu \subseteq Items /\ alive \subseteq Items /\ reread \subseteq Items /\ failed \subseteq Items
  /\ cur \in {Idle} \cup [i : Items, why : {"start", "property", "signal"},
                         id : 0..Len(calls), res : Icons \cup {None, Error}]
  /\ calls \in Seq([i : Items, kind : Kinds, answers : Nat])
  /\ inbox \in [Items -> Seq(1..Len(calls))] /\ timers \in Seq(1..Len(calls))
  /\ wire \in [Items -> Seq(Late..Len(calls))] /\ clicks \in [Items -> Seq(1..Len(calls))]
  /\ inflight \subseteq 1..Len(calls) /\ replies \subseteq inflight
  /\ srcq \in Seq([t : {"NewIcon", "gone"}, i : Items]) /\ changes \in Nat

(* A call of the panel is answered once at most: by the application's result, *)
(* its timeout, the click's immediate OK or the closed connection.            *)
AnsweredOnce == \A id \in 1..Len(calls) : calls[id].answers <= 1

(* Clicks reach the application in the order the user made them.             *)
ClicksInOrder == \A i \in Items : \A m, n \in 1..Len(clicks[i]) : m < n => clicks[i][m] < clicks[i][n]

OwnPath(i) == Exported(i) = path[i] /\ \A j \in Items : Exported(j) = path[i] => j = i

Settled(i) ==
  /\ Free /\ srcq = <<>> /\ i \notin reread
  /\ \A id \in CallsOf(i) : calls[id].answers > 0

(* When everything has settled the panel shows the application's icon, even   *)
(* one changed while the proxy fetched the previous one, provided the item    *)
(* has a path of its own and the last fetch found an icon.                    *)
IconFresh ==
  \A i \in Items :
    phase[i] = "up" /\ Settled(i) /\ OwnPath(i) /\ i \notin failed /\ i \in alive => shown[i] = icon[i]

Waiting(i) == \E id \in CallsOf(i) : calls[id].answers = 0

(* The panel is never left waiting, whatever the application does.           *)
CallsAnswered == \A i \in Items : Waiting(i) ~> ~ Waiting(i)

Sent(i) == {clicks[i][n] : n \in 1..Len(clicks[i])}
Owed(i) == {id \in CallsOf(i) : calls[id].kind = "click" /\ calls[id].answers > 0} \ Sent(i)

(* A click the panel was told is done reaches the application unless that    *)
(* has exited.                                                               *)
ClickDelivered == \A i \in Items : Owed(i) # {} ~> Owed(i) = {} \/ i \notin alive

(* "Find which item this signal belongs to": a signal is forwarded to the item *)
(* of the application that sent it.                                            *)
SignalGoesToItsItem ==
  [][\A j \in Items : ForwardSignal(j) => j = Head(srcq).i]_vars
=============================================================================
