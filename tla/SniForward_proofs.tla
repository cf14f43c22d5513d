-------------------------- MODULE SniForward_proofs --------------------------
(***************************************************************************)
(* Proofs about SniForward, for any number of items and calls, any paths,  *)
(* any icons and both modes of the proxy.                                  *)
(***************************************************************************)
EXTENDS SniForward, TLAPS

-----------------------------------------------------------------------------
(* The inductive invariants. *)

(* What the panel is owed is in one place: an inbox, a blocking call or the   *)
(* asynchronous calls.  Only a closed connection leaves answers behind.       *)
InboxOwned ==
  \A i \in Items : \A n \in 1..Len(inbox[i]) :
    /\ calls[inbox[i][n]].i = i /\ calls[inbox[i][n]].answers = 0
    /\ inbox[i][n] \notin inflight /\ phase[i] = "up"
InflightOwned ==
  \A id \in inflight :
    /\ calls[id].kind = "call"
    /\ calls[id].answers = 0 \/ phase[calls[id].i] = "gone"
CurOwned ==
  cur # Idle =>
    /\ phase[cur.i] = IF cur.why = "start" THEN "fetching" ELSE "up"
    /\ cur.why = "property" =>
         /\ cur.id # 0 /\ calls[cur.id].i = cur.i
         /\ calls[cur.id].kind \in {"icon", "menu"} /\ calls[cur.id].answers = 0
         /\ \A n \in 1..Len(inbox[cur.i]) : inbox[cur.i][n] # cur.id
InboxOrder ==
  \A i \in Items : \A m, n \in 1..Len(inbox[i]) : m < n => inbox[i][m] < inbox[i][n]
Owned == AnsweredOnce /\ InboxOwned /\ InflightOwned /\ CurOwned /\ InboxOrder

(* The clicks of an item, in the order of their ids: those sent, those that   *)
(* wait for their 50 ms, those in the inbox.                                  *)
TimersOrder ==
  \A m, n \in 1..Len(timers) :
    m < n /\ calls[timers[m]].i = calls[timers[n]].i => timers[m] < timers[n]
TimersBeforeInbox ==
  \A m \in 1..Len(timers) : \A n \in 1..Len(inbox[calls[timers[m]].i]) :
    timers[m] < inbox[calls[timers[m]].i][n]
SentBeforeTimers ==
  \A n \in 1..Len(timers) : \A m \in 1..Len(clicks[calls[timers[n]].i]) :
    clicks[calls[timers[n]].i][m] < timers[n]
SentBeforeInbox ==
  \A i \in Items : \A m \in 1..Len(clicks[i]), n \in 1..Len(inbox[i]) : clicks[i][m] < inbox[i][n]
Ordered == ClicksInOrder /\ TimersOrder /\ TimersBeforeInbox /\ SentBeforeTimers /\ SentBeforeInbox

(* What is under way that will bring the panel the icon of i. *)
SignalDue(i) == \E n \in 1..Len(srcq) : srcq[n].t = "NewIcon" /\ srcq[n].i = i
IconCalls(i) == {id \in CallsOf(i) : calls[id].kind = "icon" /\ calls[id].answers = 0}
ReadDue(i) == i \in reread \/ IconCalls(i) # {}
Current(i, x) == x = icon[i] \/ SignalDue(i)

(* A result that is not stale, or whose NewIcon is still to come. *)
FetchFresh == cur # Idle /\ cur.i \in alive /\ cur.res \in Icons => Current(cur.i, cur.res)
(* The renamer asks only for what it has not cached; it alone blocks for a    *)
(* signal.                                                                    *)
NothingCached ==
  /\ renamer /\ cur.why = "property" /\ calls[cur.id].kind = "icon" => cache[cur.i] = NoIcon
  /\ cur.why = "signal" => renamer
Concerned(i) == phase[i] = "up" /\ OwnPath(i) /\ i \notin failed /\ i \in alive
CacheFresh ==
  \A i \in Items : renamer /\ Concerned(i) =>
    Current(i, cache[i]) \/ (cur.why = "signal" /\ cur.i = i)
CacheShown ==
  \A i \in Items : renamer /\ phase[i] = "up" =>
    cache[i] = NoIcon \/ shown[i] = cache[i] \/ ReadDue(i)
ShownFresh ==
  \A i \in Items : ~ renamer /\ Concerned(i) => Current(i, shown[i]) \/ ReadDue(i)
Fresh == FetchFresh /\ NothingCached /\ CacheFresh /\ CacheShown /\ ShownFresh
-----------------------------------------------------------------------------
(* Sequences and functions. *)

LEMMA SeqFacts ==
  ASSUME NEW S, NEW s \in Seq(S)
  PROVE  /\ Len(s) \in Nat /\ \A n \in 1..Len(s) : s[n] \in S
         /\ s # <<>> => /\ Len(s) \in Nat \ {0} /\ Head(s) \in S /\ Head(s) = s[1]
                        /\ Tail(s) \in Seq(S) /\ Len(Tail(s)) = Len(s) - 1
                        /\ \A n \in 1..Len(s) - 1 : Tail(s)[n] = s[n + 1]
  OBVIOUS

LEMMA AppendFacts ==
  ASSUME NEW S, NEW s \in Seq(S), NEW x \in S
  PROVE  /\ Append(s, x) \in Seq(S) /\ Len(Append(s, x)) = Len(s) + 1
         /\ Append(s, x)[Len(s) + 1] = x
         /\ \A n \in 1..Len(s) : Append(s, x)[n] = s[n]
  OBVIOUS

LEMMA MapFacts ==
  ASSUME NEW S, NEW n \in Nat, NEW f \in [1..n -> S]
  PROVE  f \in Seq(S) /\ Len(f) = n
  OBVIOUS

LEMMA EmptySeq == \A S : <<>> \in Seq(S) /\ Len(<<>>) = 0
  OBVIOUS

LEMMA WiderSeq ==
  ASSUME NEW S, NEW T, S \subseteq T
  PROVE  Seq(S) \subseteq Seq(T)
  OBVIOUS

LEMMA Updating ==
  ASSUME NEW S, NEW T, NEW f \in [S -> T], NEW x \in S, NEW v \in T
  PROVE  /\ [f EXCEPT ![x] = v] \in [S -> T] /\ [f EXCEPT ![x] = v][x] = v
         /\ \A y \in S \ {x} : [f EXCEPT ![x] = v][y] = f[y]
  OBVIOUS

-----------------------------------------------------------------------------
(* The parts of the type invariant. *)

Call == [i : Items, kind : Kinds, answers : Nat]
Blocking == [i : Items, why : {"start", "property", "signal"},
             id : 0..Len(calls), res : Icons \cup {None, Error}]
FixedType == renamer \in BOOLEAN /\ path \in [Items -> Paths]
PhaseType == phase \in [Items -> {"absent", "fetching", "up", "gone"}]
IconType ==
  /\ cache \in [Items -> Icons \cup {NoIcon}] /\ shown \in [Items -> Icons \cup {NoIcon}]
  /\ icon \in [Items -> Icons]
SetType == menu \subseteq Items /\ alive \subseteq Items /\ reread \subseteq Items /\ failed \subseteq Items
CurType == cur \in {Idle} \cup Blocking
CallType == calls \in Seq(Call)
InboxType == inbox \in [Items -> Seq(1..Len(calls))]
TimerType == timers \in Seq(1..Len(calls))
WireType == wire \in [Items -> Seq(Late..Len(calls))]
ClickType == clicks \in [Items -> Seq(1..Len(calls))]
AsyncType == inflight \subseteq 1..Len(calls) /\ replies \subseteq inflight
SrcType == srcq \in Seq([t : {"NewIcon", "gone"}, i : Items]) /\ changes \in Nat

LEMMA TypeParts ==
  TypeOK <=> /\ FixedType /\ PhaseType /\ IconType /\ SetType /\ CurType /\ CallType
             /\ InboxType /\ TimerType /\ WireType /\ ClickType /\ AsyncType /\ SrcType
  BY Zenon DEF TypeOK, FixedType, PhaseType, IconType, SetType, CurType, CallType, Call, Blocking,
               InboxType, TimerType, WireType, ClickType, AsyncType, SrcType

LEMMA TypePartsNext ==
  TypeOK' <=> /\ FixedType' /\ PhaseType' /\ IconType' /\ SetType' /\ CurType' /\ CallType'
              /\ InboxType' /\ TimerType' /\ WireType' /\ ClickType' /\ AsyncType' /\ SrcType'
  BY Zenon DEF TypeOK, FixedType, PhaseType, IconType, SetType, CurType, CallType, Call, Blocking,
               InboxType, TimerType, WireType, ClickType, AsyncType, SrcType

(* Nothing that refers to calls is disturbed when calls grow. *)
Grown == Len(calls) \in Nat /\ Len(calls') \in Nat /\ Len(calls) <= Len(calls')

LEMMA FixedSame == FixedType /\ UNCHANGED fixed => FixedType'
  BY DEF FixedType, fixed
LEMMA PhaseSame == PhaseType /\ UNCHANGED phase => PhaseType'
  BY DEF PhaseType
LEMMA IconSame == IconType /\ UNCHANGED <<cache, shown, icon>> => IconType'
  BY DEF IconType
LEMMA SetSame == SetType /\ UNCHANGED <<menu, alive, reread, failed>> => SetType'
  BY DEF SetType
LEMMA CallSame == CallType /\ UNCHANGED calls => CallType' /\ Grown
  BY SeqFacts DEF CallType, Call, Grown
LEMMA CurSame == CurType /\ UNCHANGED cur /\ Grown => CurType'
<1> SUFFICES ASSUME CurType, UNCHANGED cur, Grown, cur # Idle PROVE cur \in Blocking'
  BY DEF CurType
<1> QED
  BY DEF CurType, Blocking, Grown
LEMMA InboxSame == InboxType /\ UNCHANGED inbox /\ Grown => InboxType'
<1>1. Grown => 1..Len(calls) \subseteq 1..Len(calls')
  BY DEF Grown
<1> QED
  BY <1>1, WiderSeq DEF InboxType
LEMMA TimerSame == TimerType /\ UNCHANGED timers /\ Grown => TimerType'
<1>1. Grown => 1..Len(calls) \subseteq 1..Len(calls')
  BY DEF Grown
<1> QED
  BY <1>1, WiderSeq DEF TimerType
LEMMA WireSame == WireType /\ UNCHANGED wire /\ Grown => WireType'
<1>1. Grown => Late..Len(calls) \subseteq Late..Len(calls')
  BY DEF Grown, Late
<1> QED
  BY <1>1, WiderSeq DEF WireType
LEMMA ClickSame == ClickType /\ UNCHANGED clicks /\ Grown => ClickType'
<1>1. Grown => 1..Len(calls) \subseteq 1..Len(calls')
  BY DEF Grown
<1> QED
  BY <1>1, WiderSeq DEF ClickType
LEMMA AsyncSame == AsyncType /\ UNCHANGED <<inflight, replies>> /\ Grown => AsyncType'
<1>1. Grown => 1..Len(calls) \subseteq 1..Len(calls')
  BY DEF Grown
<1> QED
  BY <1>1 DEF AsyncType
LEMMA SrcSame == SrcType /\ UNCHANGED <<srcq, changes>> => SrcType'
  BY DEF SrcType

(* No field of Idle but the item is left open. *)
LEMMA IdleFacts == Idle.why = "idle" /\ Idle.id = 0 /\ Idle.res = None
  BY DEF Idle

LEMMA BlockingFacts ==
  ASSUME CurType, cur # Idle
  PROVE  /\ cur.i \in Items /\ cur.why \in {"start", "property", "signal"}
         /\ cur.id \in 0..Len(calls) /\ cur.res \in Icons \cup {None, Error}
         /\ cur = [i |-> cur.i, why |-> cur.why, id |-> cur.id, res |-> cur.res]
  BY DEF CurType, Blocking

LEMMA NotIdle ==
  ASSUME cur.why \in {"start", "property", "signal"}
  PROVE  cur # Idle
  BY IdleFacts

(* What an answer does to calls. *)
LEMMA AnsweredFacts ==
  ASSUME CallType, NEW ids
  PROVE  /\ Answered(ids) \in Seq(Call) /\ Len(Answered(ids)) = Len(calls)
         /\ \A id \in 1..Len(calls) :
              /\ Answered(ids)[id].i = calls[id].i /\ Answered(ids)[id].kind = calls[id].kind
              /\ Answered(ids)[id].answers = IF id \in ids /\ phase[calls[id].i] # "gone"
                                             THEN calls[id].answers + 1 ELSE calls[id].answers
<1>1. Len(calls) \in Nat /\ \A id \in 1..Len(calls) : calls[id] \in Call
  BY SeqFacts DEF CallType
<1>2. ASSUME NEW id \in 1..Len(calls)
      PROVE  /\ [calls[id] EXCEPT !.answers = @ + 1] \in Call
             /\ [calls[id] EXCEPT !.answers = @ + 1].i = calls[id].i
             /\ [calls[id] EXCEPT !.answers = @ + 1].kind = calls[id].kind
             /\ [calls[id] EXCEPT !.answers = @ + 1].answers = calls[id].answers + 1
  BY <1>1 DEF Call
<1>3. Answered(ids) \in [1..Len(calls) -> Call]
  BY <1>1, <1>2 DEF Answered
<1>4. Answered(ids) \in Seq(Call) /\ Len(Answered(ids)) = Len(calls)
  BY <1>1, <1>3, MapFacts
<1> QED
  BY <1>1, <1>2, <1>4 DEF Answered

LEMMA CallFields ==
  ASSUME CallType
  PROVE  /\ Len(calls) \in Nat
         /\ \A id \in 1..Len(calls) : /\ calls[id].i \in Items /\ calls[id].kind \in Kinds
                                      /\ calls[id].answers \in Nat
<1>1. Len(calls) \in Nat /\ \A id \in 1..Len(calls) : calls[id] \in Call
  BY SeqFacts DEF CallType
<1> QED
  BY <1>1 DEF Call

LEMMA AnsweredGrown ==
  ASSUME CallType, NEW ids, calls' = Answered(ids)
  PROVE  CallType' /\ Grown /\ Len(calls') = Len(calls)
  BY AnsweredFacts, SeqFacts DEF CallType, Grown, Call

(* A call that comes in is the last one. *)
LEMMA CallsFacts ==
  ASSUME CallType, NEW i \in Items, NEW kind \in Kinds,
         calls' = Append(calls, [i |-> i, kind |-> kind, answers |-> 0])
  PROVE  /\ CallType' /\ Grown /\ Len(calls') = Len(calls) + 1
         /\ calls'[Len(calls) + 1] = [i |-> i, kind |-> kind, answers |-> 0]
         /\ \A id \in 1..Len(calls) : calls'[id] = calls[id] /\ calls[id] \in Call
<1> DEFINE r == [i |-> i, kind |-> kind, answers |-> 0]
<1>1. r \in Call
  BY DEF Call
<1>2. calls' = Append(calls, r)
  OBVIOUS
<1>3. calls \in Seq(Call)
  BY DEF CallType
<1> HIDE DEF r
<1>4. calls' \in Seq(Call) /\ Len(calls') = Len(calls) + 1 /\ Len(calls) \in Nat
  BY <1>1, <1>2, <1>3, AppendFacts, SeqFacts
<1>5. calls'[Len(calls) + 1] = r /\ \A id \in 1..Len(calls) : calls'[id] = calls[id] /\ calls[id] \in Call
  BY <1>1, <1>2, <1>3, AppendFacts, SeqFacts
<1> QED
  BY <1>4, <1>5 DEF CallType, Grown, Call, r

LEMMA AppChangesIconType ==
  ASSUME TypeOK, NEW i \in Items, NEW x \in Icons, AppChangesIcon(i, x)
  PROVE  TypeOK'
<1> USE TypeParts DEF loop, panel, AppChangesIcon
<1>1. IconType'
  BY Updating DEF IconType
<1>2. SetType'
  BY DEF SetType
<1>3. SrcType'
  <2> DEFINE r == [t |-> "NewIcon", i |-> i]
  <2>1. r \in [t : {"NewIcon", "gone"}, i : Items]
    OBVIOUS
  <2>2. srcq' \in {srcq, Append(srcq, r)} /\ changes' \in Nat
    BY DEF SrcType
  <2> HIDE DEF r
  <2> QED
    BY <2>1, <2>2, AppendFacts DEF SrcType
<1>4. CallType' /\ Grown
  BY CallSame
<1> QED
  BY TypePartsNext, FixedSame, PhaseSame, CurSame, InboxSame, TimerSame, WireSame,
     ClickSame, AsyncSame, <1>1, <1>2, <1>3, <1>4

LEMMA AppHandlesType ==
  ASSUME TypeOK, NEW i \in Items, AppHandles(i)
  PROVE  TypeOK'
<1> USE TypeParts DEF AppHandles, panel
<1>1. CurType' /\ CallType' /\ Grown
  <2>1. WaitsFor(i) => [cur EXCEPT !.res = icon[i]] \in Blocking
    BY DEF WaitsFor, CurType, Blocking, IconType
  <2> QED
    BY <2>1, CallSame DEF CurType, Blocking
<1>2. WireType'
  BY SeqFacts, Updating DEF WireType
<1>3. AsyncType'
  BY DEF AsyncType
<1> QED
  BY TypePartsNext, FixedSame, PhaseSame, IconSame, SetSame, InboxSame, TimerSame,
     ClickSame, SrcSame, <1>1, <1>2, <1>3

LEMMA AppExitsType ==
  ASSUME TypeOK, NEW i \in Items, AppExits(i)
  PROVE  TypeOK'
<1> USE TypeParts DEF AppExits, panel
<1>1. CurType' /\ CallType' /\ Grown
  <2>1. WaitsFor(i) => [cur EXCEPT !.res = Error] \in Blocking
    BY DEF WaitsFor, CurType, Blocking
  <2> QED
    BY <2>1, CallSame DEF CurType, Blocking
<1>2. WireType'
  BY EmptySeq, Updating DEF WireType
<1>3. AsyncType'
  BY DEF AsyncType
<1>4. SrcType'
  <2> DEFINE r == [t |-> "gone", i |-> i]
  <2>1. r \in [t : {"NewIcon", "gone"}, i : Items]
    OBVIOUS
  <2>2. srcq' = Append(srcq, r)
    OBVIOUS
  <2> HIDE DEF r
  <2> QED
    BY <2>1, <2>2, AppendFacts DEF SrcType
<1>5. SetType'
  BY DEF SetType
<1> QED
  BY TypePartsNext, FixedSame, PhaseSame, IconSame, InboxSame, TimerSame,
     ClickSame, <1>1, <1>2, <1>3, <1>4, <1>5

LEMMA SyncTimesOutType ==
  ASSUME TypeOK, SyncTimesOut
  PROVE  TypeOK'
<1> USE TypeParts DEF SyncTimesOut, panel
<1>1. CurType' /\ CallType' /\ Grown
  <2>1. [cur EXCEPT !.res = Error] \in Blocking
    BY DEF CurType, Blocking
  <2> QED
    BY <2>1, CallSame DEF CurType, Blocking
<1>2. WireType'
  <2>1. cur.i \in Items /\ wire[cur.i] \in Seq(Late..Len(calls)) /\ Late \in Late..Len(calls)
    BY BlockingFacts, SeqFacts DEF WireType, CallType, Late
  <2>2. Abandoned(wire[cur.i], cur.id) \in Seq(Late..Len(calls))
    BY <2>1, MapFacts, SeqFacts DEF Abandoned
  <2> QED
    BY <2>1, <2>2, Updating DEF WireType
<1> QED
  BY TypePartsNext, FixedSame, PhaseSame, IconSame, SetSame, InboxSame, TimerSame,
     ClickSame, AsyncSame, SrcSame, <1>1, <1>2

LEMMA CallTimesOutType ==
  ASSUME TypeOK, NEW id \in inflight, CallTimesOut(id)
  PROVE  TypeOK'
<1> USE TypeParts DEF CallTimesOut, apps, panel
<1>1. AsyncType' /\ CallType' /\ Grown
  BY CallSame DEF AsyncType
<1> QED
  BY TypePartsNext, FixedSame, PhaseSame, IconSame, SetSame, CurSame, InboxSame, TimerSame,
     WireSame, ClickSame, SrcSame, <1>1

LEMMA CallsTypes ==
  ASSUME TypeOK, NEW i \in Items, NEW kind \in Kinds, Calls(i, kind), reread' \subseteq Items
  PROVE  TypeOK'
<1> USE TypeParts DEF Calls, apps
<1>1. CallType' /\ Grown /\ Len(calls') = Len(calls) + 1
  BY CallsFacts
<1>2. InboxType'
  <2>1. Len(calls) + 1 \in 1..Len(calls') /\ 1..Len(calls) \subseteq 1..Len(calls')
    BY <1>1 DEF Grown
  <2>2. inbox \in [Items -> Seq(1..Len(calls'))]
    BY <2>1, WiderSeq DEF InboxType
  <2> QED
    BY <2>1, <2>2, AppendFacts, Updating DEF InboxType
<1>3. SetType'
  BY DEF SetType
<1> QED
  BY TypePartsNext, FixedSame, PhaseSame, IconSame, CurSame, TimerSame,
     WireSame, ClickSame, AsyncSame, SrcSame, <1>1, <1>2, <1>3

LEMMA PanelType ==
  ASSUME TypeOK, PanelStep
  PROVE  TypeOK'
<1>1. PICK i \in Items : PanelReads(i) \/ \E kind \in Kinds : PanelCalls(i, kind)
  BY DEF PanelStep
<1>2. reread \subseteq Items
  BY TypeParts DEF SetType
<1> QED
  BY <1>1, <1>2, CallsTypes DEF PanelReads, PanelCalls, Kinds

(* A blocking call. *)
LEMMA BlockType ==
  ASSUME TypeOK, Grown, UNCHANGED calls, NEW i \in Items,
         NEW why \in {"start", "property", "signal"}, NEW id \in 0..Len(calls), Block(i, why, id)
  PROVE  CurType' /\ WireType'
<1> USE TypeParts DEF Block
<1>1. CurType'
  BY DEF CurType, Blocking
<1>2. WireType'
  <2>1. id \in Late..Len(calls)
    BY DEF Grown, Late
  <2> QED
    BY <2>1, AppendFacts, Updating DEF WireType
<1> QED
  BY <1>1, <1>2

LEMMA ItemNameAcquiredType ==
  ASSUME TypeOK, NEW i \in Items, ItemNameAcquired(i)
  PROVE  TypeOK'
<1> USE TypeParts DEF ItemNameAcquired, panel
<1>1. PhaseType' /\ CallType' /\ Grown
  BY CallSame, Updating DEF PhaseType
<1>2. CurType' /\ WireType'
  BY <1>1, BlockType DEF Grown
<1> QED
  BY TypePartsNext, FixedSame, IconSame, SetSame, InboxSame, TimerSame,
     ClickSame, AsyncSame, SrcSame, <1>1, <1>2

LEMMA FailedType ==
  ASSUME TypeOK, NEW i \in Items, NEW x
  PROVE  FailedAfter(i, x) \subseteq Items /\ Refreshed(i, x) \in [Items -> Icons \cup {NoIcon}]
<1>1. Rendered \subseteq Icons
  BY ConstantsAssumption
<1> QED
  BY TypeParts, <1>1 DEF FailedAfter, Refreshed, SetType, IconType

LEMMA ItemUpType ==
  ASSUME TypeOK, ItemUp
  PROVE  TypeOK'
<1> USE TypeParts DEF ItemUp, apps
<1>1. PhaseType' /\ CallType' /\ Grown /\ cur.i \in Items
  BY CallSame, Updating, BlockingFacts, NotIdle DEF PhaseType
<1>2. IconType'
  BY <1>1, FailedType DEF IconType
<1>3. SetType'
  BY <1>1, FailedType DEF SetType
<1>4. CurType'
  BY DEF CurType
<1> QED
  BY TypePartsNext, FixedSame, InboxSame, TimerSame, WireSame,
     ClickSame, AsyncSame, SrcSame, <1>1, <1>2, <1>3, <1>4

LEMMA InboxTail ==
  ASSUME TypeOK, Grown, NEW i \in Items, inbox[i] # <<>>,
         inbox' = [inbox EXCEPT ![i] = Tail(@)]
  PROVE  /\ inbox' \in [Items -> Seq(1..Len(calls))] /\ Head(inbox[i]) \in 1..Len(calls)
         /\ Len(calls') = Len(calls) => InboxType'
  BY TypeParts, SeqFacts, Updating DEF InboxType

LEMMA HandleClickType ==
  ASSUME TypeOK, NEW i \in Items, HandleClick(i)
  PROVE  TypeOK'
<1> USE TypeParts DEF HandleClick, apps
<1>1. CallType' /\ Grown /\ Len(calls') = Len(calls)
  BY AnsweredGrown
<1>2. InboxType' /\ Head(inbox[i]) \in 1..Len(calls)
  BY <1>1, InboxTail
<1>3. TimerType'
  BY <1>1, <1>2, AppendFacts DEF TimerType
<1> QED
  BY TypePartsNext, FixedSame, PhaseSame, IconSame, SetSame, CurSame, WireSame,
     ClickSame, AsyncSame, SrcSame, <1>1, <1>2, <1>3

LEMMA ForwardClickType ==
  ASSUME TypeOK, ForwardClick
  PROVE  TypeOK'
<1> USE TypeParts DEF ForwardClick, panel
<1>1. CallType' /\ Grown
  BY CallSame
<1>2. TimerType' /\ Head(timers) \in 1..Len(calls)
  BY SeqFacts DEF TimerType
<1> DEFINE id == Head(timers)
           i  == calls[id].i
<1>3. i \in Items /\ id \in Late..Len(calls) /\ id \in 1..Len(calls)
  BY <1>1, <1>2, CallFields DEF Late, Grown
<1>4. /\ wire' \in {wire, [wire EXCEPT ![i] = Append(@, id)]}
      /\ clicks' \in {clicks, [clicks EXCEPT ![i] = Append(@, id)]}
  OBVIOUS
<1>5. UNCHANGED calls
  OBVIOUS
<1> HIDE DEF id, i
<1>6. wire[i] \in Seq(Late..Len(calls)) /\ clicks[i] \in Seq(1..Len(calls))
  BY <1>3 DEF WireType, ClickType
<1>7. Append(wire[i], id) \in Seq(Late..Len(calls)) /\ Append(clicks[i], id) \in Seq(1..Len(calls))
  BY <1>3, <1>6, AppendFacts
<1>8. WireType' /\ ClickType'
  <2>1. [wire EXCEPT ![i] = Append(@, id)] \in [Items -> Seq(Late..Len(calls))]
    BY <1>3, <1>7, Updating, Zenon DEF WireType
  <2>2. [clicks EXCEPT ![i] = Append(@, id)] \in [Items -> Seq(1..Len(calls))]
    BY <1>3, <1>7, Updating, Zenon DEF ClickType
  <2> QED
    BY <1>4, <1>5, <2>1, <2>2, Zenon DEF WireType, ClickType
<1> QED
  BY TypePartsNext, FixedSame, PhaseSame, IconSame, SetSame, CurSame, InboxSame,
     AsyncSame, SrcSame, <1>1, <1>2, <1>8

LEMMA HandleCallType ==
  ASSUME TypeOK, NEW i \in Items, HandleCall(i)
  PROVE  TypeOK'
<1> USE TypeParts DEF HandleCall, panel
<1>1. CallType' /\ Grown
  BY CallSame
<1>2. InboxType' /\ Head(inbox[i]) \in 1..Len(calls)
  BY <1>1, InboxTail
<1>3. Head(inbox[i]) \in Late..Len(calls)
  BY <1>1, <1>2 DEF Late, Grown
<1>4. WireType'
  BY <1>1, <1>3, AppendFacts, Updating DEF WireType
<1>5. AsyncType'
  BY <1>1, <1>2 DEF AsyncType
<1> QED
  BY TypePartsNext, FixedSame, PhaseSame, IconSame, SetSame, CurSame, TimerSame,
     ClickSame, SrcSame, <1>1, <1>2, <1>4, <1>5

LEMMA MethodReplyType ==
  ASSUME TypeOK, NEW id \in replies, MethodReply(id)
  PROVE  TypeOK'
<1> USE TypeParts DEF MethodReply, apps
<1>1. CallType' /\ Grown /\ Len(calls') = Len(calls)
  BY AnsweredGrown
<1>2. AsyncType'
  BY <1>1 DEF AsyncType
<1> QED
  BY TypePartsNext, FixedSame, PhaseSame, IconSame, SetSame, CurSame, InboxSame, TimerSame, WireSame,
     ClickSame, SrcSame, <1>1, <1>2

LEMMA GetCachedType ==
  ASSUME TypeOK, NEW i \in Items, GetCached(i)
  PROVE  TypeOK'
<1> USE TypeParts DEF GetCached, apps
<1>1. CallType' /\ Grown /\ Len(calls') = Len(calls)
  BY AnsweredGrown
<1>2. InboxType'
  BY <1>1, InboxTail
<1>3. IconType'
  BY Updating DEF IconType
<1> QED
  BY TypePartsNext, FixedSame, PhaseSame, SetSame, CurSame, TimerSame, WireSame,
     ClickSame, AsyncSame, SrcSame, <1>1, <1>2, <1>3

LEMMA HandlePropertyType ==
  ASSUME TypeOK, NEW i \in Items, HandleProperty(i)
  PROVE  TypeOK'
<1> USE TypeParts DEF HandleProperty, panel
<1>1. CallType' /\ Grown
  BY CallSame
<1>2. InboxType' /\ Head(inbox[i]) \in 1..Len(calls)
  BY <1>1, InboxTail
<1>3. Head(inbox[i]) \in 0..Len(calls)
  BY <1>1, <1>2 DEF Grown
<1>4. CurType' /\ WireType'
  BY <1>1, <1>3, BlockType
<1> QED
  BY TypePartsNext, FixedSame, PhaseSame, IconSame, SetSame, TimerSame,
     ClickSame, AsyncSame, SrcSame, <1>1, <1>2, <1>4

LEMMA PropertyReplyType ==
  ASSUME TypeOK, PropertyReply
  PROVE  TypeOK'
<1> USE TypeParts DEF PropertyReply, apps
<1>1. CallType' /\ Grown /\ cur.i \in Items
  BY AnsweredGrown, BlockingFacts, NotIdle
<1>2. IconType'
  BY <1>1, Updating DEF IconType
<1>3. SetType'
  BY <1>1, FailedType DEF SetType
<1>4. CurType'
  BY DEF CurType
<1> QED
  BY TypePartsNext, FixedSame, PhaseSame, InboxSame, TimerSame, WireSame,
     ClickSame, AsyncSame, SrcSame, <1>1, <1>2, <1>3, <1>4

LEMMA SignalType ==
  ASSUME TypeOK, NewIconFrom
  PROVE  /\ srcq' \in Seq([t : {"NewIcon", "gone"}, i : Items])
         /\ Head(srcq) \in [t : {"NewIcon", "gone"}, i : Items]
  BY TypeParts, SeqFacts DEF NewIconFrom, SrcType

LEMMA ForwardSignalType ==
  ASSUME TypeOK, NEW j \in Items, ForwardSignal(j)
  PROVE  TypeOK'
<1> USE TypeParts DEF ForwardSignal
<1>1. CallType' /\ Grown
  BY CallSame
<1>2. CurType' /\ WireType'
  <2>1. CASE renamer
    BY <1>1, <2>1, BlockType DEF Grown
  <2>2. CASE ~ renamer
    BY <1>1, <2>2, CurSame, WireSame
  <2> QED
    BY <2>1, <2>2
<1>3. SetType'
  BY DEF SetType
<1>4. SrcType'
  BY SignalType DEF SrcType
<1> QED
  BY TypePartsNext, FixedSame, PhaseSame, IconSame, InboxSame, TimerSame,
     ClickSame, AsyncSame, <1>1, <1>2, <1>3, <1>4

LEMMA IconRefreshedType ==
  ASSUME TypeOK, IconRefreshed
  PROVE  TypeOK'
<1> USE TypeParts DEF IconRefreshed, apps
<1>1. CallType' /\ Grown /\ cur.i \in Items
  BY CallSame, BlockingFacts, NotIdle
<1>2. IconType'
  BY <1>1, FailedType DEF IconType
<1>3. SetType'
  BY <1>1, FailedType DEF SetType
<1>4. CurType'
  BY DEF CurType
<1> QED
  BY TypePartsNext, FixedSame, PhaseSame, InboxSame, TimerSame, WireSame,
     ClickSame, AsyncSame, SrcSame, <1>1, <1>2, <1>3, <1>4

LEMMA IgnoreSignalType ==
  ASSUME TypeOK, IgnoreSignal
  PROVE  TypeOK'
<1> USE TypeParts DEF IgnoreSignal, loop, panel
<1>1. CallType' /\ Grown
  BY CallSame
<1>2. SrcType'
  BY SignalType DEF SrcType
<1> QED
  BY TypePartsNext, FixedSame, PhaseSame, IconSame, SetSame, CurSame, InboxSame, TimerSame, WireSame,
     ClickSame, AsyncSame, <1>1, <1>2

LEMMA RemoveItemType ==
  ASSUME TypeOK, RemoveItem
  PROVE  TypeOK'
<1> USE TypeParts DEF RemoveItem
<1>1. Head(srcq).i \in Items /\ SrcType'
  <2>1. Head(srcq) \in [t : {"NewIcon", "gone"}, i : Items] /\ SrcType'
    BY SeqFacts DEF SrcType
  <2> QED
    BY <2>1
<1>2. CallType' /\ Grown
  BY AnsweredGrown
<1>3. PhaseType'
  BY <1>1, Updating DEF PhaseType
<1>4. InboxType'
  BY <1>1, <1>2, InboxSame, EmptySeq, Updating, AnsweredGrown DEF InboxType
<1>5. IconType'
  BY <1>1, Updating DEF IconType
<1>6. SetType'
  BY DEF SetType
<1> QED
  BY TypePartsNext, FixedSame, CurSame, TimerSame, WireSame,
     ClickSame, AsyncSame, <1>1, <1>2, <1>3, <1>4, <1>5, <1>6

LEMMA StutterType == TypeOK /\ UNCHANGED vars => TypeOK'
<1> SUFFICES ASSUME TypeOK, UNCHANGED vars PROVE TypeOK'
  OBVIOUS
<1> QED
  BY TypeParts, TypePartsNext, FixedSame, PhaseSame, IconSame, SetSame, CurSame, CallSame, InboxSame,
     TimerSame, WireSame, ClickSame, AsyncSame, SrcSame DEF vars, loop, apps, panel

LEMMA InitType == Init => TypeOK
<1> SUFFICES ASSUME Init PROVE TypeOK
  OBVIOUS
<1> USE DEF Init
<1>1. CurType
  BY DEF CurType
<1>2. calls = <<>> /\ CallType /\ TimerType /\ SrcType
  BY EmptySeq DEF CallType, TimerType, SrcType
<1>3. InboxType /\ WireType /\ ClickType
  BY EmptySeq DEF InboxType, WireType, ClickType
<1> QED
  BY TypeParts, <1>1, <1>2, <1>3, ConstantsAssumption
     DEF FixedType, PhaseType, IconType, SetType, AsyncType

(* A step preserves the type invariant. *)
LEMMA NextType == TypeOK /\ [Next]_vars => TypeOK'
<1> SUFFICES ASSUME TypeOK, [Next]_vars PROVE TypeOK'
  OBVIOUS
<1>1. CASE AppStep
  BY <1>1, AppChangesIconType, AppHandlesType, AppExitsType DEF AppStep
<1>2. CASE PanelStep
  BY <1>2, PanelType
<1>3. CASE Timeouts
  BY <1>3, SyncTimesOutType, CallTimesOutType DEF Timeouts
<1>4. CASE LoopStep
  BY <1>4, ItemUpType, ForwardClickType, PropertyReplyType, IconRefreshedType, IgnoreSignalType,
     RemoveItemType, ItemNameAcquiredType, HandleClickType, HandleCallType, GetCachedType,
     HandlePropertyType, ForwardSignalType, MethodReplyType DEF LoopStep
<1>5. CASE UNCHANGED vars
  BY <1>5, StutterType
<1> QED
  BY <1>1, <1>2, <1>3, <1>4, <1>5 DEF Next

(* Every variable keeps its type; what refers to a call refers to one that    *)
(* the panel has made (on_method_call, on_get_property and their callbacks).  *)
THEOREM TypeCorrect == Spec => []TypeOK
  BY InitType, NextType, PTL DEF Spec
-----------------------------------------------------------------------------
(* Every call is answered once. *)

LEMMA InboxFields ==
  ASSUME TypeOK, NEW i \in Items
  PROVE  /\ inbox[i] \in Seq(1..Len(calls)) /\ Len(inbox[i]) \in Nat
         /\ \A n \in 1..Len(inbox[i]) : inbox[i][n] \in 1..Len(calls) /\ inbox[i][n] \in Nat
<1>1. inbox[i] \in Seq(1..Len(calls)) /\ Len(calls) \in Nat
  BY TypeParts, CallFields DEF InboxType
<1> QED
  BY <1>1, SeqFacts

(* cur is still the same blocking call, if perhaps with a result. *)
CurKept == \/ cur' = cur
           \/ cur # Idle /\ cur' # Idle /\ cur'.i = cur.i /\ cur'.why = cur.why /\ cur'.id = cur.id

LEMMA OwnedKept ==
  ASSUME Owned, UNCHANGED <<calls, inbox, inflight, phase>>, CurKept \/ cur' = Idle
  PROVE  Owned'
<1>1. AnsweredOnce' /\ InboxOwned' /\ InflightOwned' /\ InboxOrder'
  BY DEF Owned, AnsweredOnce, InboxOwned, InflightOwned, InboxOrder
<1>2. CurOwned'
  BY DEF Owned, CurOwned, CurKept
<1> QED
  BY <1>1, <1>2 DEF Owned

LEMMA ResultKept ==
  ASSUME TypeOK, cur # Idle, NEW x, cur' = [cur EXCEPT !.res = x]
  PROVE  CurKept
<1>1. /\ cur.why \in {"start", "property", "signal"}
      /\ cur = [i |-> cur.i, why |-> cur.why, id |-> cur.id, res |-> cur.res]
  BY TypeParts, BlockingFacts
<1>2. cur'.i = cur.i /\ cur'.why = cur.why /\ cur'.id = cur.id
  BY <1>1
<1> QED
  BY <1>1, <1>2, IdleFacts DEF CurKept

LEMMA AppKept ==
  ASSUME TypeOK, AppStep \/ Timeouts
  PROVE  CurKept /\ UNCHANGED <<calls, inbox, inflight, phase, timers, reread, shown, failed, cache, renamer, path>>
<1> USE DEF fixed, loop, apps, panel
<1>1. ASSUME NEW i \in Items, NEW x \in Icons, AppChangesIcon(i, x)
      PROVE  CurKept /\ UNCHANGED <<calls, inbox, inflight, phase, timers, reread, shown, failed, cache, renamer, path>>
  BY <1>1 DEF AppChangesIcon, CurKept
<1>2. ASSUME NEW i \in Items, AppHandles(i)
      PROVE  CurKept /\ UNCHANGED <<calls, inbox, inflight, phase, timers, reread, shown, failed, cache, renamer, path>>
  <2>1. CurKept
    BY <1>2, ResultKept DEF AppHandles, CurKept, WaitsFor
  <2> QED
    BY <1>2, <2>1 DEF AppHandles
<1>3. ASSUME NEW i \in Items, AppExits(i)
      PROVE  CurKept /\ UNCHANGED <<calls, inbox, inflight, phase, timers, reread, shown, failed, cache, renamer, path>>
  <2>1. CurKept
    BY <1>3, ResultKept DEF AppExits, CurKept, WaitsFor
  <2> QED
    BY <1>3, <2>1 DEF AppExits
<1>4. ASSUME SyncTimesOut
      PROVE  CurKept /\ UNCHANGED <<calls, inbox, inflight, phase, timers, reread, shown, failed, cache, renamer, path>>
  <2>1. CurKept
    BY <1>4, ResultKept DEF SyncTimesOut
  <2> QED
    BY <1>4, <2>1 DEF SyncTimesOut
<1>5. ASSUME NEW id \in inflight, CallTimesOut(id)
      PROVE  CurKept /\ UNCHANGED <<calls, inbox, inflight, phase, timers, reread, shown, failed, cache, renamer, path>>
  BY <1>5 DEF CallTimesOut, CurKept
<1> QED
  BY <1>1, <1>2, <1>3, <1>4, <1>5, Zenon DEF AppStep, Timeouts

LEMMA CallsOwned ==
  ASSUME TypeOK, Owned, NEW i \in Items, NEW kind \in Kinds, Calls(i, kind)
  PROVE  Owned'
<1> DEFINE new == Len(calls) + 1
<1>1. /\ Len(calls) \in Nat /\ Len(calls') = new
      /\ calls'[new] = [i |-> i, kind |-> kind, answers |-> 0]
      /\ \A id \in 1..Len(calls) : calls'[id] = calls[id] /\ calls[id].answers \in Nat
      /\ 1..Len(calls') = 1..Len(calls) \cup {new} /\ new \notin 1..Len(calls)
  BY TypeParts, CallsFacts, CallFields DEF Calls
<1>2. /\ inbox'[i] = Append(inbox[i], new) /\ \A j \in Items \ {i} : inbox'[j] = inbox[j]
      /\ phase[i] = "up" /\ UNCHANGED <<inflight, phase, cur>>
  BY TypeParts DEF Calls, InboxType
<1>3. inflight \subseteq 1..Len(calls) /\ new \notin inflight
  BY <1>1, TypeParts DEF AsyncType
<1>4. /\ Len(inbox[i]) \in Nat /\ Len(inbox'[i]) = Len(inbox[i]) + 1 /\ inbox'[i][Len(inbox[i]) + 1] = new
      /\ \A n \in 1..Len(inbox[i]) : inbox'[i][n] = inbox[i][n] /\ inbox[i][n] \in 1..Len(calls)
  <2>1. inbox[i] \in Seq(Nat) /\ new \in Nat
    BY <1>1, InboxFields, WiderSeq
  <2> QED
    BY <1>2, <2>1, AppendFacts, InboxFields
<1> HIDE DEF new
<1>5. AnsweredOnce'
  BY <1>1 DEF AnsweredOnce, Owned
<1>6. InboxOwned'
  <2> SUFFICES ASSUME NEW j \in Items, NEW n \in 1..Len(inbox'[j])
               PROVE  /\ calls'[inbox'[j][n]].i = j /\ calls'[inbox'[j][n]].answers = 0
                      /\ inbox'[j][n] \notin inflight' /\ phase'[j] = "up"
    BY DEF InboxOwned
  <2>1. CASE j # i
    <3>1. inbox'[j] = inbox[j] /\ n \in 1..Len(inbox[j]) /\ inbox[j][n] \in 1..Len(calls)
      BY <1>2, <2>1, InboxFields
    <3>2. calls'[inbox[j][n]] = calls[inbox[j][n]]
      BY <1>1, <3>1
    <3> QED
      BY <1>2, <3>1, <3>2 DEF InboxOwned, Owned
  <2>2. CASE j = i /\ n = Len(inbox[i]) + 1
    BY <1>1, <1>2, <1>3, <1>4, <2>2
  <2>3. CASE j = i /\ n # Len(inbox[i]) + 1
    <3>1. n \in 1..Len(inbox[i])
      BY <1>4, <2>3
    <3>2. inbox'[i][n] = inbox[i][n] /\ calls'[inbox[i][n]] = calls[inbox[i][n]]
      BY <1>1, <1>4, <3>1
    <3> QED
      BY <1>2, <2>3, <3>1, <3>2 DEF InboxOwned, Owned
  <2> QED
    BY <2>1, <2>2, <2>3
<1>7. InflightOwned'
  BY <1>1, <1>2, <1>3 DEF InflightOwned, Owned
<1>8. CurOwned'
  <2> SUFFICES ASSUME cur # Idle PROVE CurOwned'
    BY <1>2 DEF CurOwned
  <2>1. cur.i \in Items /\ cur.id \in 0..Len(calls)
    BY TypeParts, BlockingFacts
  <2>2. ASSUME cur.why = "property"
        PROVE  /\ cur.id \in 1..Len(calls) /\ calls'[cur.id] = calls[cur.id]
               /\ \A n \in 1..Len(inbox'[cur.i]) : inbox'[cur.i][n] # cur.id
    <3>1. cur.id \in 1..Len(calls) /\ cur.id # new
      BY <1>1, <2>1, <2>2 DEF CurOwned, Owned
    <3>2. \A n \in 1..Len(inbox[cur.i]) : inbox[cur.i][n] # cur.id
      BY <2>2 DEF CurOwned, Owned
    <3>3. calls'[cur.id] = calls[cur.id]
      BY <1>1, <3>1
    <3>4. CASE cur.i # i
      BY <1>2, <2>1, <3>1, <3>2, <3>3, <3>4
    <3>5. CASE cur.i = i
      <4> SUFFICES ASSUME NEW n \in 1..Len(inbox'[i]) PROVE inbox'[i][n] # cur.id
        BY <3>1, <3>3, <3>5
      <4>1. n = Len(inbox[i]) + 1 \/ n \in 1..Len(inbox[i])
        BY <1>4
      <4> QED
        BY <1>4, <3>1, <3>2, <3>5, <4>1
    <3> QED
      BY <3>4, <3>5
  <2>3. phase'[cur.i] = IF cur.why = "start" THEN "fetching" ELSE "up"
    BY <1>2 DEF CurOwned, Owned
  <2>4. cur.why = "property" =>
          /\ cur.id # 0 /\ calls[cur.id].i = cur.i
          /\ calls[cur.id].kind \in {"icon", "menu"} /\ calls[cur.id].answers = 0
    BY DEF CurOwned, Owned
  <2> QED
    BY <1>2, <2>2, <2>3, <2>4 DEF CurOwned
<1>9. InboxOrder'
  <2> SUFFICES ASSUME NEW j \in Items, NEW m \in 1..Len(inbox'[j]), NEW n \in 1..Len(inbox'[j]), m < n
               PROVE  inbox'[j][m] < inbox'[j][n]
    BY DEF InboxOrder
  <2>1. CASE j # i
    BY <1>2, <2>1 DEF Owned, InboxOrder
  <2>2. CASE j = i /\ n = Len(inbox[i]) + 1
    <3>1. m \in 1..Len(inbox[i])
      BY <1>4, <2>2
    <3>2. inbox'[i][m] \in 1..Len(calls) /\ inbox'[i][n] = new
      BY <1>4, <2>2, <3>1
    <3>3. \A k \in 1..Len(calls) : k < new
      BY <1>1 DEF new
    <3> QED
      BY <2>2, <3>2, <3>3
  <2>3. CASE j = i /\ n # Len(inbox[i]) + 1
    <3>1. m \in 1..Len(inbox[i]) /\ n \in 1..Len(inbox[i])
      BY <1>4, <2>3
    <3> QED
      BY <1>4, <2>3, <3>1 DEF Owned, InboxOrder
  <2> QED
    BY <2>1, <2>2, <2>3
<1> QED
  BY <1>5, <1>6, <1>7, <1>8, <1>9 DEF Owned

(* Taking the head of an inbox. *)
HeadTaken(i, h) ==
  /\ h \in 1..Len(calls) /\ h \in Nat /\ h = inbox[i][1] /\ 1 \in 1..Len(inbox[i])
  /\ calls[h].i = i /\ calls[h].answers = 0 /\ h \notin inflight /\ phase[i] = "up"
  /\ \A j \in Items \ {i} : inbox'[j] = inbox[j]
  /\ Len(inbox[i]) \in Nat /\ Len(inbox'[i]) = Len(inbox[i]) - 1
  /\ \A n \in 1..Len(inbox'[i]) : /\ n + 1 \in 1..Len(inbox[i])
                                  /\ inbox'[i][n] = inbox[i][n + 1] /\ h < inbox'[i][n]
  /\ \A j \in Items : \A n \in 1..Len(inbox'[j]) :
       /\ inbox'[j][n] # h /\ inbox'[j][n] \in 1..Len(calls) /\ inbox'[j][n] \in Nat
       /\ \E m \in 1..Len(inbox[j]) : inbox'[j][n] = inbox[j][m]
  /\ InboxOrder'

LEMMA TakeHead ==
  ASSUME TypeOK, Owned, NEW i \in Items, inbox[i] # <<>>, inbox' = [inbox EXCEPT ![i] = Tail(@)]
  PROVE  HeadTaken(i, Head(inbox[i]))
<1> DEFINE h == Head(inbox[i])
<1>1. /\ h = inbox[i][1] /\ Len(inbox[i]) \in Nat \ {0}
      /\ Len(Tail(inbox[i])) = Len(inbox[i]) - 1
      /\ \A n \in 1..Len(inbox[i]) - 1 : Tail(inbox[i])[n] = inbox[i][n + 1]
  BY InboxFields, SeqFacts
<1>2. inbox'[i] = Tail(inbox[i]) /\ \A j \in Items \ {i} : inbox'[j] = inbox[j]
  BY TypeParts DEF InboxType
<1>3. 1 \in 1..Len(inbox[i]) /\ h \in 1..Len(calls) /\ h \in Nat
  BY <1>1, InboxFields
<1>4. calls[h].i = i /\ calls[h].answers = 0 /\ h \notin inflight /\ phase[i] = "up"
  BY <1>1, <1>3 DEF Owned, InboxOwned
<1> HIDE DEF h
<1>5. ASSUME NEW n \in 1..Len(inbox'[i])
      PROVE  /\ n + 1 \in 1..Len(inbox[i])
             /\ inbox'[i][n] = inbox[i][n + 1] /\ h < inbox'[i][n]
  <2> DEFINE k == Len(inbox[i])
  <2>0. k \in Nat \ {0} /\ n \in 1..k - 1
    BY <1>1, <1>2
  <2> HIDE DEF k
  <2>1. n + 1 \in 1..k /\ n \in 1..k - 1 /\ 1 < n + 1
    BY <2>0
  <2> USE DEF k
  <2>2. inbox[i][1] < inbox[i][n + 1]
    BY <1>3, <2>1 DEF Owned, InboxOrder
  <2> QED
    BY <1>1, <1>2, <2>1, <2>2
<1>6. ASSUME NEW j \in Items, NEW n \in 1..Len(inbox'[j])
      PROVE  /\ inbox'[j][n] # h /\ inbox'[j][n] \in 1..Len(calls) /\ inbox'[j][n] \in Nat
             /\ \E m \in 1..Len(inbox[j]) : inbox'[j][n] = inbox[j][m]
  <2>1. CASE j = i
    <3>1. /\ n + 1 \in 1..Len(inbox[i]) /\ inbox'[i][n] = inbox[i][n + 1] /\ h < inbox'[i][n]
          /\ inbox[i][n + 1] \in 1..Len(calls) /\ inbox[i][n + 1] \in Nat
      BY <1>5, <2>1, InboxFields
    <3> QED
      BY <1>3, <2>1, <3>1
  <2>2. CASE j # i
    <3>1. inbox'[j] = inbox[j] /\ calls[inbox[j][n]].i = j
      BY <1>2, <2>2 DEF Owned, InboxOwned
    <3> QED
      BY <1>4, <2>2, <3>1, InboxFields
  <2> QED
    BY <2>1, <2>2
<1>7. InboxOrder'
  <2> SUFFICES ASSUME NEW j \in Items, NEW m \in 1..Len(inbox'[j]), NEW n \in 1..Len(inbox'[j]), m < n
               PROVE  inbox'[j][m] < inbox'[j][n]
    BY DEF InboxOrder
  <2>1. CASE j = i
    <3>1. m + 1 < n + 1
      BY <1>1, <1>2, <2>1
    <3> QED
      BY <1>5, <2>1, <3>1 DEF Owned, InboxOrder
  <2>2. CASE j # i
    BY <1>2, <2>2 DEF Owned, InboxOrder
  <2> QED
    BY <2>1, <2>2
<1> QED
  BY <1>1, <1>2, <1>3, <1>4, <1>5, <1>6, <1>7 DEF h, HeadTaken

(* Answering what is owed. *)
LEMMA AnsweredOwed ==
  ASSUME TypeOK, Owned, NEW ids, calls' = Answered(ids),
         \A id \in 1..Len(calls) : id \in ids => calls[id].answers = 0 \/ phase[calls[id].i] = "gone"
  PROVE  /\ AnsweredOnce' /\ Len(calls') = Len(calls)
         /\ \A id \in 1..Len(calls) :
              /\ calls'[id].i = calls[id].i /\ calls'[id].kind = calls[id].kind
              /\ id \notin ids => calls'[id].answers = calls[id].answers
<1>1. /\ Len(calls') = Len(calls)
      /\ \A id \in 1..Len(calls) :
           /\ calls'[id].i = calls[id].i /\ calls'[id].kind = calls[id].kind
           /\ calls'[id].answers = IF id \in ids /\ phase[calls[id].i] # "gone"
                                   THEN calls[id].answers + 1 ELSE calls[id].answers
  BY AnsweredFacts, TypeParts
<1>2. AnsweredOnce'
  <2> SUFFICES ASSUME NEW id \in 1..Len(calls) PROVE calls'[id].answers <= 1
    BY <1>1 DEF AnsweredOnce
  <2>1. calls[id].answers <= 1
    BY DEF Owned, AnsweredOnce
  <2>2. CASE id \in ids /\ phase[calls[id].i] # "gone"
    BY <1>1, <2>2
  <2>3. CASE ~ (id \in ids /\ phase[calls[id].i] # "gone")
    BY <1>1, <2>1, <2>3
  <2> QED
    BY <2>2, <2>3
<1> QED
  BY <1>1, <1>2

LEMMA AnswersHead ==
  ASSUME TypeOK, Owned, NEW i \in Items, Free, inbox[i] # <<>>,
         inbox' = [inbox EXCEPT ![i] = Tail(@)], calls' = Answered({Head(inbox[i])}),
         UNCHANGED <<inflight, phase, cur>>
  PROVE  Owned'
<1> DEFINE h == Head(inbox[i])
<1>1. /\ h \in 1..Len(calls) /\ calls[h].answers = 0 /\ h \notin inflight /\ InboxOrder'
      /\ \A j \in Items : \A n \in 1..Len(inbox'[j]) :
           /\ inbox'[j][n] # h /\ inbox'[j][n] \in 1..Len(calls)
           /\ \E m \in 1..Len(inbox[j]) : inbox'[j][n] = inbox[j][m]
  <2>1. HeadTaken(i, h)
    BY TakeHead
  <2> HIDE DEF h
  <2> QED
    BY <2>1 DEF HeadTaken
<1>2. calls' = Answered({h})
  OBVIOUS
<1> HIDE DEF h
<1>3. /\ AnsweredOnce' /\ Len(calls') = Len(calls)
      /\ \A id \in 1..Len(calls) :
           /\ calls'[id].i = calls[id].i /\ calls'[id].kind = calls[id].kind
           /\ id # h => calls'[id].answers = calls[id].answers
  <2>1. \A id \in 1..Len(calls) : id \in {h} => calls[id].answers = 0 \/ phase[calls[id].i] = "gone"
    BY <1>1
  <2>2. \A id : id # h => id \notin {h}
    OBVIOUS
  <2> QED
    BY <1>2, <2>1, <2>2, AnsweredOwed, Zenon
<1>4. InboxOwned'
  <2> SUFFICES ASSUME NEW j \in Items, NEW n \in 1..Len(inbox'[j])
               PROVE  /\ calls'[inbox'[j][n]].i = j /\ calls'[inbox'[j][n]].answers = 0
                      /\ inbox'[j][n] \notin inflight' /\ phase'[j] = "up"
    BY DEF InboxOwned
  <2>1. PICK m \in 1..Len(inbox[j]) : inbox'[j][n] = inbox[j][m]
    BY <1>1
  <2>2. /\ calls[inbox[j][m]].i = j /\ calls[inbox[j][m]].answers = 0
        /\ inbox[j][m] \notin inflight /\ phase[j] = "up"
    BY DEF Owned, InboxOwned
  <2>3. inbox'[j][n] \in 1..Len(calls) /\ inbox'[j][n] # h
    BY <1>1
  <2>4. /\ calls'[inbox'[j][n]].i = calls[inbox'[j][n]].i
        /\ calls'[inbox'[j][n]].answers = calls[inbox'[j][n]].answers
    BY <1>3, <2>3
  <2> QED
    BY <2>1, <2>2, <2>4
<1>5. InflightOwned'
  <2>1. \A id \in inflight : id \in 1..Len(calls) /\ id # h
    BY <1>1, TypeParts DEF AsyncType
  <2> QED
    BY <1>3, <2>1 DEF InflightOwned, Owned
<1>6. CurOwned'
  BY DEF CurOwned, Free
<1> QED
  BY <1>1, <1>3, <1>4, <1>5, <1>6 DEF Owned

LEMMA HandleCallOwned ==
  ASSUME TypeOK, Owned, NEW i \in Items, HandleCall(i)
  PROVE  Owned'
<1> DEFINE h == Head(inbox[i])
<1>1. /\ h \in 1..Len(calls) /\ calls[h].answers = 0 /\ InboxOrder'
      /\ \A j \in Items : \A n \in 1..Len(inbox'[j]) :
           /\ inbox'[j][n] # h /\ \E m \in 1..Len(inbox[j]) : inbox'[j][n] = inbox[j][m]
  <2>1. HeadTaken(i, h)
    BY TakeHead DEF HandleCall
  <2> QED
    BY <2>1, Zenon DEF HeadTaken
<1>2. /\ inflight' = inflight \cup {h} /\ UNCHANGED <<calls, phase, cur>> /\ Free
      /\ calls[h].kind = "call"
  BY DEF HandleCall, panel
<1> HIDE DEF h
<1>3. InboxOwned'
  <2> SUFFICES ASSUME NEW j \in Items, NEW n \in 1..Len(inbox'[j])
               PROVE  /\ calls[inbox'[j][n]].i = j /\ calls[inbox'[j][n]].answers = 0
                      /\ inbox'[j][n] \notin inflight' /\ phase[j] = "up"
    BY <1>2 DEF InboxOwned
  <2>1. PICK m \in 1..Len(inbox[j]) : inbox'[j][n] = inbox[j][m]
    BY <1>1
  <2>2. /\ calls[inbox[j][m]].i = j /\ calls[inbox[j][m]].answers = 0
        /\ inbox[j][m] \notin inflight /\ phase[j] = "up"
    BY DEF Owned, InboxOwned
  <2> QED
    BY <1>1, <1>2, <2>1, <2>2
<1>4. InflightOwned'
  BY <1>1, <1>2 DEF InflightOwned, Owned
<1>5. CurOwned' /\ AnsweredOnce'
  BY <1>2 DEF CurOwned, Free, AnsweredOnce, Owned
<1> QED
  BY <1>1, <1>3, <1>4, <1>5 DEF Owned

LEMMA HandlePropertyOwned ==
  ASSUME TypeOK, Owned, NEW i \in Items, HandleProperty(i)
  PROVE  Owned'
<1> DEFINE h == Head(inbox[i])
<1>1. /\ h \in 1..Len(calls) /\ calls[h].i = i /\ calls[h].answers = 0 /\ phase[i] = "up" /\ InboxOrder'
      /\ \A j \in Items : \A n \in 1..Len(inbox'[j]) :
           /\ inbox'[j][n] # h /\ \E m \in 1..Len(inbox[j]) : inbox'[j][n] = inbox[j][m]
  <2>1. HeadTaken(i, h)
    BY TakeHead DEF HandleProperty
  <2> QED
    BY <2>1, Zenon DEF HeadTaken
<1>2. /\ UNCHANGED <<calls, phase, inflight>> /\ cur'.i = i /\ cur'.why = "property" /\ cur'.id = h
      /\ calls[h].kind \in {"icon", "menu"}
  BY DEF HandleProperty, panel, Block
<1> HIDE DEF h
<1>3. InboxOwned'
  <2> SUFFICES ASSUME NEW j \in Items, NEW n \in 1..Len(inbox'[j])
               PROVE  /\ calls[inbox'[j][n]].i = j /\ calls[inbox'[j][n]].answers = 0
                      /\ inbox'[j][n] \notin inflight /\ phase[j] = "up"
    BY <1>2 DEF InboxOwned
  <2>1. PICK m \in 1..Len(inbox[j]) : inbox'[j][n] = inbox[j][m]
    BY <1>1
  <2> QED
    BY <2>1 DEF Owned, InboxOwned
<1>4. InflightOwned' /\ AnsweredOnce'
  BY <1>2 DEF InflightOwned, AnsweredOnce, Owned
<1>5. CurOwned'
  BY <1>1, <1>2 DEF CurOwned
<1> QED
  BY <1>1, <1>3, <1>4, <1>5 DEF Owned

(* Answering a call that is in no inbox; inflight may lose it. *)
LEMMA AnswersOne ==
  ASSUME TypeOK, Owned, NEW id \in 1..Len(calls), calls' = Answered({id}), UNCHANGED <<inbox, phase>>,
         calls[id].answers = 0 \/ phase[calls[id].i] = "gone", cur' = Idle,
         \A j \in Items : \A n \in 1..Len(inbox[j]) : inbox[j][n] # id,
         inflight' \subseteq inflight, id \notin inflight'
  PROVE  Owned'
<1>1. /\ AnsweredOnce' /\ Len(calls') = Len(calls)
      /\ \A k \in 1..Len(calls) :
           /\ calls'[k].i = calls[k].i /\ calls'[k].kind = calls[k].kind
           /\ k # id => calls'[k].answers = calls[k].answers
  <2>1. \A k \in 1..Len(calls) : k \in {id} => calls[k].answers = 0 \/ phase[calls[k].i] = "gone"
    OBVIOUS
  <2>2. \A k : k # id => k \notin {id}
    OBVIOUS
  <2> QED
    BY <2>1, <2>2, AnsweredOwed, Zenon
<1>2. InboxOwned'
  <2> SUFFICES ASSUME NEW j \in Items, NEW n \in 1..Len(inbox'[j])
               PROVE  /\ calls'[inbox'[j][n]].i = j /\ calls'[inbox'[j][n]].answers = 0
                      /\ inbox'[j][n] \notin inflight' /\ phase'[j] = "up"
    BY DEF InboxOwned
  <2>1. inbox'[j][n] = inbox[j][n] /\ n \in 1..Len(inbox[j])
    OBVIOUS
  <2>2. inbox[j][n] \in 1..Len(calls) /\ inbox[j][n] # id
    BY <2>1, InboxFields
  <2>3. /\ calls'[inbox[j][n]].i = calls[inbox[j][n]].i
        /\ calls'[inbox[j][n]].answers = calls[inbox[j][n]].answers
    BY <1>1, <2>2
  <2> QED
    BY <2>1, <2>2, <2>3 DEF Owned, InboxOwned
<1>3. InflightOwned'
  <2>1. \A k \in inflight' : k \in inflight /\ k \in 1..Len(calls) /\ k # id
    BY TypeParts DEF AsyncType
  <2> QED
    BY <1>1, <2>1 DEF InflightOwned, Owned
<1>4. CurOwned' /\ InboxOrder'
  BY DEF CurOwned, InboxOrder, Owned
<1> QED
  BY <1>1, <1>2, <1>3, <1>4 DEF Owned

LEMMA MethodReplyOwned ==
  ASSUME TypeOK, Owned, NEW id \in replies, MethodReply(id)
  PROVE  Owned'
<1>1. id \in inflight /\ id \in 1..Len(calls)
  BY TypeParts DEF AsyncType
<1>2. \A j \in Items : \A n \in 1..Len(inbox[j]) : inbox[j][n] # id
  BY <1>1 DEF Owned, InboxOwned
<1>3. calls[id].answers = 0 \/ phase[calls[id].i] = "gone"
  BY <1>1 DEF Owned, InflightOwned
<1> QED
  BY <1>1, <1>2, <1>3, AnswersOne DEF MethodReply, Free

LEMMA PropertyReplyOwned ==
  ASSUME TypeOK, Owned, PropertyReply
  PROVE  Owned'
<1>1. cur # Idle /\ cur.why = "property" /\ cur.i \in Items /\ cur.id \in 0..Len(calls)
  BY NotIdle, BlockingFacts, TypeParts DEF PropertyReply
<1>2. /\ cur.id # 0 /\ calls[cur.id].i = cur.i
      /\ calls[cur.id].kind \in {"icon", "menu"} /\ calls[cur.id].answers = 0
      /\ \A n \in 1..Len(inbox[cur.i]) : inbox[cur.i][n] # cur.id
  BY <1>1 DEF Owned, CurOwned
<1>3. cur.id \in 1..Len(calls) /\ cur.id \notin inflight
  BY <1>1, <1>2, CallFields, TypeParts DEF Owned, InflightOwned
<1>4. \A j \in Items : \A n \in 1..Len(inbox[j]) : inbox[j][n] # cur.id
  BY <1>2 DEF Owned, InboxOwned
<1>5. calls' = Answered({cur.id}) /\ UNCHANGED <<inbox, phase, inflight>> /\ cur' = Idle
  BY DEF PropertyReply
<1> QED
  BY <1>2, <1>3, <1>4, <1>5, AnswersOne

LEMMA ItemNameAcquiredOwned ==
  ASSUME TypeOK, Owned, NEW i \in Items, ItemNameAcquired(i)
  PROVE  Owned'
<1>1. /\ UNCHANGED <<calls, inbox, inflight>> /\ cur'.i = i /\ cur'.why = "start"
      /\ phase[i] = "absent" /\ phase'[i] = "fetching" /\ \A j \in Items \ {i} : phase'[j] = phase[j]
  BY TypeParts DEF ItemNameAcquired, panel, Block, PhaseType
<1>2. InboxOwned'
  BY <1>1 DEF Owned, InboxOwned
<1>3. InflightOwned'
  <2>1. \A id \in inflight : calls[id].i \in Items
    BY TypeParts, CallFields DEF AsyncType
  <2> QED
    BY <1>1, <2>1 DEF Owned, InflightOwned
<1>4. CurOwned' /\ AnsweredOnce' /\ InboxOrder'
  BY <1>1 DEF CurOwned, AnsweredOnce, InboxOrder, Owned
<1> QED
  BY <1>2, <1>3, <1>4 DEF Owned

LEMMA ItemUpOwned ==
  ASSUME TypeOK, Owned, ItemUp
  PROVE  Owned'
<1>1. cur # Idle /\ cur.i \in Items /\ phase[cur.i] = "fetching"
  BY NotIdle, BlockingFacts, TypeParts DEF ItemUp, Owned, CurOwned
<1>2. /\ UNCHANGED <<calls, inbox, inflight>> /\ cur' = Idle
      /\ phase'[cur.i] = "up" /\ \A j \in Items \ {cur.i} : phase'[j] = phase[j]
  BY <1>1, TypeParts DEF ItemUp, PhaseType
<1>3. InboxOwned'
  BY <1>1, <1>2 DEF Owned, InboxOwned
<1>4. InflightOwned'
  <2>1. \A id \in inflight : calls[id].i \in Items
    BY TypeParts, CallFields DEF AsyncType
  <2> QED
    BY <1>1, <1>2, <2>1 DEF Owned, InflightOwned
<1>5. CurOwned' /\ AnsweredOnce' /\ InboxOrder'
  BY <1>2 DEF CurOwned, AnsweredOnce, InboxOrder, Owned
<1> QED
  BY <1>3, <1>4, <1>5 DEF Owned

LEMMA ForwardSignalOwned ==
  ASSUME TypeOK, Owned, NEW j \in Items, ForwardSignal(j)
  PROVE  Owned'
<1>1. phase[j] = "up" /\ UNCHANGED <<calls, inbox, inflight, phase>>
  BY DEF ForwardSignal, Candidates
<1>2. CASE renamer
  <2>1. cur'.i = j /\ cur'.why = "signal"
    BY <1>2 DEF ForwardSignal, Block
  <2>2. CurOwned'
    BY <1>1, <2>1 DEF CurOwned
  <2> QED
    BY <1>1, <2>2 DEF Owned, AnsweredOnce, InboxOwned, InflightOwned, InboxOrder
<1>3. CASE ~ renamer
  BY <1>1, <1>3, OwnedKept DEF ForwardSignal, CurKept
<1> QED
  BY <1>2, <1>3

LEMMA RemoveItemOwned ==
  ASSUME TypeOK, Owned, RemoveItem
  PROVE  Owned'
<1> DEFINE i == Head(srcq).i
           owed == {id \in CallsOf(i) : calls[id].answers = 0}
<1>1. i \in Items
  <2>1. Head(srcq) \in [t : {"NewIcon", "gone"}, i : Items]
    BY TypeParts, SeqFacts DEF RemoveItem, SrcType
  <2> QED
    BY <2>1
<1>2. /\ calls' = Answered(owed) /\ cur' = Idle /\ UNCHANGED inflight
      /\ inbox' = [inbox EXCEPT ![i] = <<>>] /\ phase' = [phase EXCEPT ![i] = "gone"]
  BY DEF RemoveItem, Free
<1>3. \A id \in 1..Len(calls) : id \in owed <=> calls[id].i = i /\ calls[id].answers = 0
  BY DEF CallsOf
<1> HIDE DEF i, owed
<1>4. /\ inbox'[i] = <<>> /\ \A j \in Items \ {i} : inbox'[j] = inbox[j]
      /\ phase'[i] = "gone" /\ \A j \in Items \ {i} : phase'[j] = phase[j]
  BY <1>1, <1>2, TypeParts DEF InboxType, PhaseType
<1>5. /\ AnsweredOnce' /\ Len(calls') = Len(calls)
      /\ \A id \in 1..Len(calls) :
           /\ calls'[id].i = calls[id].i /\ calls'[id].kind = calls[id].kind
           /\ id \notin owed => calls'[id].answers = calls[id].answers
  BY <1>2, <1>3, AnsweredOwed
<1>6. InboxOwned'
  <2> SUFFICES ASSUME NEW j \in Items, NEW n \in 1..Len(inbox'[j])
               PROVE  /\ calls'[inbox'[j][n]].i = j /\ calls'[inbox'[j][n]].answers = 0
                      /\ inbox'[j][n] \notin inflight' /\ phase'[j] = "up"
    BY DEF InboxOwned
  <2>1. j # i
    BY <1>4, EmptySeq
  <2>2. inbox'[j] = inbox[j] /\ phase'[j] = phase[j] /\ inbox[j][n] \in 1..Len(calls)
    BY <1>4, <2>1, InboxFields
  <2>3. /\ calls[inbox[j][n]].i = j /\ calls[inbox[j][n]].answers = 0
        /\ inbox[j][n] \notin inflight /\ phase[j] = "up"
    BY <2>2 DEF Owned, InboxOwned
  <2> QED
    BY <1>2, <1>3, <1>5, <2>1, <2>2, <2>3
<1>7. InflightOwned'
  <2> SUFFICES ASSUME NEW id \in inflight
               PROVE  /\ calls'[id].kind = "call"
                      /\ calls'[id].answers = 0 \/ phase'[calls'[id].i] = "gone"
    BY <1>2 DEF InflightOwned
  <2>1. id \in 1..Len(calls) /\ calls[id].i \in Items
    BY TypeParts, CallFields DEF AsyncType
  <2>2. calls[id].kind = "call" /\ (calls[id].answers = 0 \/ phase[calls[id].i] = "gone")
    BY DEF Owned, InflightOwned
  <2> QED
    BY <1>3, <1>4, <1>5, <2>1, <2>2
<1>8. InboxOrder'
  BY <1>4, EmptySeq DEF Owned, InboxOrder
<1>9. CurOwned'
  BY <1>2 DEF CurOwned
<1> QED
  BY <1>5, <1>6, <1>7, <1>8, <1>9 DEF Owned

LEMMA InitOwned == Init => Owned
  BY EmptySeq DEF Init, Owned, AnsweredOnce, InboxOwned, InflightOwned, CurOwned, InboxOrder

(* A step preserves the ownership of calls. *)
LEMMA NextOwned == TypeOK /\ Owned /\ [Next]_vars => Owned'
<1> SUFFICES ASSUME TypeOK, Owned, [Next]_vars PROVE Owned'
  OBVIOUS
<1>1. CASE AppStep \/ Timeouts
  BY <1>1, AppKept, OwnedKept
<1>2. CASE PanelStep
  BY <1>2, CallsOwned DEF PanelStep, PanelReads, PanelCalls, Kinds
<1>3. CASE LoopStep
  <2> USE DEF panel
  <2>1. ASSUME NEW i \in Items, HandleClick(i) \/ GetCached(i) PROVE Owned'
    BY <2>1, AnswersHead DEF HandleClick, GetCached
  <2>2. ASSUME ForwardClick \/ IconRefreshed \/ IgnoreSignal PROVE Owned'
    BY <2>2, OwnedKept DEF ForwardClick, IconRefreshed, IgnoreSignal, CurKept, loop
  <2> QED
    BY <1>3, <2>1, <2>2, ItemUpOwned, PropertyReplyOwned, RemoveItemOwned, ItemNameAcquiredOwned,
       HandleCallOwned, HandlePropertyOwned, ForwardSignalOwned, MethodReplyOwned DEF LoopStep
<1>4. CASE UNCHANGED vars
  BY <1>4, OwnedKept DEF vars, loop, panel, CurKept
<1> QED
  BY <1>1, <1>2, <1>3, <1>4 DEF Next

(* A call of the panel gets at most one answer, from method_reply_callback,   *)
(* on_get_property, the immediate answer to a click or remove_item.           *)
THEOREM CallAnsweredOnce == Spec => []AnsweredOnce
<1>1. Init => TypeOK /\ Owned
  BY InitType, InitOwned
<1>2. TypeOK /\ Owned /\ [Next]_vars => TypeOK' /\ Owned'
  BY NextType, NextOwned
<1>3. Owned => AnsweredOnce
  BY DEF Owned
<1> QED
  BY <1>1, <1>2, <1>3, PTL DEF Spec
-----------------------------------------------------------------------------
(* Clicks in order. *)

LEMMA TimerFields ==
  ASSUME TypeOK
  PROVE  /\ timers \in Seq(1..Len(calls)) /\ Len(timers) \in Nat /\ Len(calls) \in Nat
         /\ \A n \in 1..Len(timers) : /\ timers[n] \in 1..Len(calls) /\ timers[n] \in Nat
                                      /\ calls[timers[n]].i \in Items
<1>1. timers \in Seq(1..Len(calls)) /\ Len(calls) \in Nat
  BY TypeParts, CallFields DEF TimerType
<1>2. Len(timers) \in Nat /\ \A n \in 1..Len(timers) : timers[n] \in 1..Len(calls)
  BY <1>1, SeqFacts
<1> QED
  BY <1>1, <1>2, TypeParts, CallFields

LEMMA ClickFields ==
  ASSUME TypeOK, NEW i \in Items
  PROVE  /\ clicks[i] \in Seq(1..Len(calls)) /\ Len(clicks[i]) \in Nat
         /\ \A n \in 1..Len(clicks[i]) : clicks[i][n] \in 1..Len(calls) /\ clicks[i][n] \in Nat
<1>1. clicks[i] \in Seq(1..Len(calls)) /\ Len(calls) \in Nat
  BY TypeParts, CallFields DEF ClickType
<1> QED
  BY <1>1, SeqFacts

(* What an inbox holds was there, or is new. *)
InboxFrom == \A j \in Items : \A n \in 1..Len(inbox'[j]) :
               \/ \E m \in 1..Len(inbox[j]) : inbox'[j][n] = inbox[j][m]
               \/ inbox'[j][n] = Len(calls) + 1
ItemsKept == \A id \in 1..Len(calls) : calls'[id].i = calls[id].i

LEMMA OrderedKept ==
  ASSUME TypeOK, Ordered, UNCHANGED <<clicks, timers>>, InboxFrom, ItemsKept
  PROVE  Ordered'
<1>1. ClicksInOrder'
  BY DEF Ordered, ClicksInOrder
<1>2. \A n \in 1..Len(timers) : calls'[timers[n]].i = calls[timers[n]].i
  BY TimerFields DEF ItemsKept
<1>3. TimersOrder' /\ SentBeforeTimers'
  BY <1>2 DEF Ordered, TimersOrder, SentBeforeTimers
<1>4. TimersBeforeInbox'
  <2> SUFFICES ASSUME NEW m \in 1..Len(timers), NEW j \in Items, j = calls[timers[m]].i,
                      NEW n \in 1..Len(inbox'[j])
               PROVE  timers[m] < inbox'[j][n]
    BY <1>2, TimerFields DEF TimersBeforeInbox
  <2>1. \A k \in 1..Len(inbox[j]) : timers[m] < inbox[j][k]
    BY DEF Ordered, TimersBeforeInbox
  <2>2. timers[m] < Len(calls) + 1
    BY TimerFields
  <2> QED
    BY <2>1, <2>2 DEF InboxFrom
<1>5. SentBeforeInbox'
  <2> SUFFICES ASSUME NEW j \in Items, NEW m \in 1..Len(clicks[j]), NEW n \in 1..Len(inbox'[j])
               PROVE  clicks[j][m] < inbox'[j][n]
    BY DEF SentBeforeInbox
  <2>1. \A k \in 1..Len(inbox[j]) : clicks[j][m] < inbox[j][k]
    BY DEF Ordered, SentBeforeInbox
  <2>2. clicks[j][m] < Len(calls) + 1
    BY ClickFields, TimerFields
  <2> QED
    BY <2>1, <2>2 DEF InboxFrom
<1> QED
  BY <1>1, <1>3, <1>4, <1>5 DEF Ordered

LEMMA AnsweredItems ==
  ASSUME TypeOK, NEW ids, calls' = Answered(ids)
  PROVE  ItemsKept
  BY TypeParts, AnsweredFacts DEF ItemsKept

LEMMA HandleClickOrdered ==
  ASSUME TypeOK, Owned, Ordered, NEW i \in Items, HandleClick(i)
  PROVE  Ordered'
<1> DEFINE h == Head(inbox[i])
<1>1. HeadTaken(i, h)
  BY TakeHead DEF HandleClick
<1>2. UNCHANGED clicks /\ timers' = Append(timers, h) /\ calls' = Answered({h})
  BY DEF HandleClick, apps
<1> HIDE DEF h
<1>3. h \in 1..Len(calls) /\ h \in Nat /\ calls[h].i = i /\ h = inbox[i][1] /\ 1 \in 1..Len(inbox[i])
  BY <1>1 DEF HeadTaken
<1>4. ItemsKept
  BY <1>2, AnsweredItems
<1>5. InboxFrom
  BY <1>1 DEF HeadTaken, InboxFrom
<1>6. \A n \in 1..Len(inbox'[i]) : h < inbox'[i][n]
  BY <1>1 DEF HeadTaken
<1> DEFINE k == Len(timers) + 1
<1>7. /\ Len(timers) \in Nat /\ Len(timers') = k /\ timers'[k] = h
      /\ \A n \in 1..Len(timers) : timers'[n] = timers[n]
  BY <1>2, <1>3, TimerFields, AppendFacts
<1>8. 1..Len(timers') = 1..Len(timers) \cup {k} /\ \A m \in 1..Len(timers) : m < k
  BY <1>7
<1>9. \A m \in 1..Len(timers) : /\ calls'[timers'[m]].i = calls[timers[m]].i /\ timers'[m] = timers[m]
                                /\ calls[timers[m]].i \in Items
  BY <1>4, <1>7, TimerFields DEF ItemsKept
<1>10. calls'[timers'[k]].i = i
  BY <1>3, <1>4, <1>7 DEF ItemsKept
<1>11. Len(timers) \in Nat /\ k \in Nat /\ k \notin 1..Len(timers) /\ \A n \in 1..Len(timers) : ~ (k < n)
  BY <1>7
<1> HIDE DEF k
<1>12. ClicksInOrder'
  BY <1>2 DEF Ordered, ClicksInOrder
<1>13. TimersOrder'
  <2> SUFFICES ASSUME NEW m \in 1..Len(timers'), NEW n \in 1..Len(timers'), m < n,
                      calls'[timers'[m]].i = calls'[timers'[n]].i
               PROVE  timers'[m] < timers'[n]
    BY DEF TimersOrder
  <2>1. CASE n = k
    <3>1. m \in 1..Len(timers)
      BY <1>8, <1>11, <2>1
    <3>2. calls[timers[m]].i = i
      BY <1>9, <1>10, <2>1, <3>1
    <3>3. timers[m] < inbox[i][1]
      BY <1>3, <3>1, <3>2 DEF Ordered, TimersBeforeInbox
    <3> QED
      BY <1>3, <1>7, <1>9, <2>1, <3>1, <3>3
  <2>2. CASE n # k
    <3>1. n \in 1..Len(timers) /\ m \in 1..Len(timers)
      BY <1>8, <1>11, <2>2
    <3> QED
      BY <1>9, <3>1 DEF Ordered, TimersOrder
  <2> QED
    BY <2>1, <2>2
<1>14. TimersBeforeInbox'
  <2> SUFFICES ASSUME NEW m \in 1..Len(timers'), NEW j, j = calls'[timers'[m]].i,
                      NEW n \in 1..Len(inbox'[j])
               PROVE  timers'[m] < inbox'[j][n]
    BY DEF TimersBeforeInbox
  <2>1. CASE m = k
    BY <1>6, <1>7, <1>10, <2>1
  <2>2. CASE m # k
    <3>1. m \in 1..Len(timers)
      BY <1>8, <2>2
    <3>2. j \in Items /\ j = calls[timers[m]].i /\ timers'[m] = timers[m]
      BY <1>9, <3>1
    <3>3. PICK l \in 1..Len(inbox[j]) : inbox'[j][n] = inbox[j][l]
      BY <1>1, <3>2 DEF HeadTaken
    <3>4. timers[m] < inbox[j][l]
      BY <3>1, <3>2 DEF Ordered, TimersBeforeInbox
    <3> QED
      BY <3>2, <3>3, <3>4
  <2> QED
    BY <2>1, <2>2
<1>15. SentBeforeTimers'
  <2> SUFFICES ASSUME NEW n \in 1..Len(timers'), NEW j, j = calls'[timers'[n]].i,
                      NEW m \in 1..Len(clicks[j])
               PROVE  clicks[j][m] < timers'[n]
    BY <1>2 DEF SentBeforeTimers
  <2>1. CASE n = k
    <3>1. clicks[i][m] < inbox[i][1]
      BY <1>3, <1>10, <2>1 DEF Ordered, SentBeforeInbox
    <3> QED
      BY <1>3, <1>7, <1>10, <2>1, <3>1
  <2>2. CASE n # k
    <3>1. n \in 1..Len(timers)
      BY <1>8, <2>2
    <3> QED
      BY <1>9, <3>1 DEF Ordered, SentBeforeTimers
  <2> QED
    BY <2>1, <2>2
<1>16. SentBeforeInbox'
  <2> SUFFICES ASSUME NEW j \in Items, NEW m \in 1..Len(clicks[j]), NEW n \in 1..Len(inbox'[j])
               PROVE  clicks[j][m] < inbox'[j][n]
    BY <1>2 DEF SentBeforeInbox
  <2>1. PICK l \in 1..Len(inbox[j]) : inbox'[j][n] = inbox[j][l]
    BY <1>1 DEF HeadTaken
  <2> QED
    BY <2>1 DEF Ordered, SentBeforeInbox
<1> QED
  BY <1>12, <1>13, <1>14, <1>15, <1>16 DEF Ordered

LEMMA ForwardClickOrdered ==
  ASSUME TypeOK, Owned, Ordered, ForwardClick
  PROVE  Ordered'
<1> DEFINE h == Head(timers)
           i == calls[h].i
<1>1. /\ UNCHANGED <<calls, inbox>> /\ timers' = Tail(timers) /\ timers # <<>>
      /\ clicks' \in {clicks, [clicks EXCEPT ![i] = Append(@, h)]}
  BY DEF ForwardClick, panel
<1>2. /\ h = timers[1] /\ 1 \in 1..Len(timers) /\ Len(timers') = Len(timers) - 1 /\ Len(timers) \in Nat
      /\ \A n \in 1..Len(timers'): timers'[n] = timers[n + 1]
  BY <1>1, TimerFields, SeqFacts
<1>3. \A n \in 1..Len(timers') : n + 1 \in 1..Len(timers) /\ 1 < n + 1
  BY <1>2
<1>4. i \in Items /\ h \in Nat /\ h \in 1..Len(calls)
  BY <1>2, TimerFields
<1>i. i = calls[h].i
  OBVIOUS
<1> HIDE DEF h, i
<1>5. \A m \in 1..Len(clicks[i]) : clicks[i][m] < h
  BY <1>2, <1>i DEF Ordered, SentBeforeTimers
<1>6. \A n \in 1..Len(inbox[i]) : h < inbox[i][n]
  BY <1>2, <1>i DEF Ordered, TimersBeforeInbox
<1>7. ASSUME NEW n \in 1..Len(timers'), calls[timers'[n]].i = i
      PROVE  h < timers'[n]
  <2>1. calls[timers[1]].i = calls[timers[n + 1]].i
    BY <1>2, <1>7, <1>i
  <2>2. timers[1] < timers[n + 1]
    BY <1>2, <1>3, <2>1 DEF Ordered, TimersOrder
  <2> QED
    BY <1>2, <2>2
(* What was sent before this click, and this click. *)
<1>8. ASSUME NEW j \in Items, NEW m \in 1..Len(clicks'[j])
      PROVE  \/ m \in 1..Len(clicks[j]) /\ clicks'[j][m] = clicks[j][m]
             \/ j = i /\ clicks'[j][m] = h /\ m = Len(clicks[i]) + 1
  <2>1. CASE clicks' = clicks \/ j # i
    BY <1>1, <1>4, <2>1, TypeParts DEF ClickType
  <2>2. CASE clicks' # clicks /\ j = i
    <3>1. clicks'[i] = Append(clicks[i], h)
      BY <1>1, <1>4, <2>2, TypeParts DEF ClickType
    <3>2. /\ Len(clicks[i]) \in Nat /\ Len(clicks'[i]) = Len(clicks[i]) + 1
          /\ clicks'[i][Len(clicks[i]) + 1] = h
          /\ \A n \in 1..Len(clicks[i]) : clicks'[i][n] = clicks[i][n]
      BY <1>4, <3>1, ClickFields, AppendFacts
    <3> QED
      BY <2>2, <3>2
  <2> QED
    BY <2>1, <2>2
<1>9. ClicksInOrder'
  <2> SUFFICES ASSUME NEW j \in Items, NEW m \in 1..Len(clicks'[j]), NEW n \in 1..Len(clicks'[j]), m < n
               PROVE  clicks'[j][m] < clicks'[j][n]
    BY DEF ClicksInOrder
  <2>1. CASE n \in 1..Len(clicks[j]) /\ clicks'[j][n] = clicks[j][n]
    <3>1. m \in 1..Len(clicks[j]) /\ clicks'[j][m] = clicks[j][m]
      BY <1>4, <1>8, <2>1, ClickFields
    <3> QED
      BY <2>1, <3>1 DEF Ordered, ClicksInOrder
  <2>2. CASE j = i /\ clicks'[j][n] = h /\ n = Len(clicks[i]) + 1
    <3>1. m \in 1..Len(clicks[j]) /\ clicks'[j][m] = clicks[j][m]
      BY <1>4, <1>8, <2>2, ClickFields
    <3> QED
      BY <1>5, <2>2, <3>1
  <2> QED
    BY <1>8, <2>1, <2>2
<1>10. TimersOrder'
  <2> SUFFICES ASSUME NEW m \in 1..Len(timers'), NEW n \in 1..Len(timers'), m < n,
                      calls[timers'[m]].i = calls[timers'[n]].i
               PROVE  timers'[m] < timers'[n]
    BY <1>1 DEF TimersOrder
  <2>1. m + 1 < n + 1
    BY <1>2
  <2> QED
    BY <1>2, <1>3, <2>1 DEF Ordered, TimersOrder
<1>11. TimersBeforeInbox'
  BY <1>1, <1>2, <1>3 DEF Ordered, TimersBeforeInbox
<1>12. SentBeforeTimers'
  <2> SUFFICES ASSUME NEW n \in 1..Len(timers'), NEW j \in Items, j = calls[timers'[n]].i,
                      NEW m \in 1..Len(clicks'[j])
               PROVE  clicks'[j][m] < timers'[n]
    BY <1>1, <1>2, <1>3, TimerFields DEF SentBeforeTimers
  <2>1. CASE m \in 1..Len(clicks[j]) /\ clicks'[j][m] = clicks[j][m]
    BY <1>2, <1>3, <2>1 DEF Ordered, SentBeforeTimers
  <2>2. CASE j = i /\ clicks'[j][m] = h
    BY <1>7, <2>2
  <2> QED
    BY <1>8, <2>1, <2>2
<1>13. SentBeforeInbox'
  <2> SUFFICES ASSUME NEW j \in Items, NEW m \in 1..Len(clicks'[j]), NEW n \in 1..Len(inbox[j])
               PROVE  clicks'[j][m] < inbox[j][n]
    BY <1>1 DEF SentBeforeInbox
  <2>1. CASE m \in 1..Len(clicks[j]) /\ clicks'[j][m] = clicks[j][m]
    BY <2>1 DEF Ordered, SentBeforeInbox
  <2>2. CASE j = i /\ clicks'[j][m] = h
    BY <1>6, <2>2
  <2> QED
    BY <1>8, <2>1, <2>2
<1> QED
  BY <1>9, <1>10, <1>11, <1>12, <1>13 DEF Ordered

LEMMA InitOrdered == Init => Ordered
  BY EmptySeq DEF Init, Ordered, ClicksInOrder, TimersOrder, TimersBeforeInbox, SentBeforeTimers,
                  SentBeforeInbox

(* A step preserves the order of clicks. *)
LEMMA NextOrdered == TypeOK /\ Owned /\ Ordered /\ [Next]_vars => Ordered'
<1> SUFFICES ASSUME TypeOK, Owned, Ordered, [Next]_vars PROVE Ordered'
  OBVIOUS
<1> USE DEF apps, panel, loop
<1>0. UNCHANGED inbox => InboxFrom
  BY DEF InboxFrom
<1>1. CASE AppStep \/ Timeouts
  <2>1. UNCHANGED <<calls, inbox, timers>>
    BY <1>1, AppKept
  <2>2. UNCHANGED clicks
    BY <1>1 DEF AppStep, Timeouts, AppChangesIcon, AppHandles, AppExits, SyncTimesOut, CallTimesOut
  <2> QED
    BY <1>0, <2>1, <2>2, OrderedKept DEF ItemsKept
<1>2. CASE PanelStep
  <2>1. PICK i \in Items, kind \in Kinds : Calls(i, kind)
    BY <1>2 DEF PanelStep, PanelReads, PanelCalls, Kinds
  <2>2. ItemsKept
    BY <2>1, TypeParts, CallsFacts DEF Calls, ItemsKept
  <2>3. InboxFrom
    <3>1. inbox[i] \in Seq(Nat) /\ Len(calls) + 1 \in Nat
      BY InboxFields, TimerFields, WiderSeq
    <3>2. /\ inbox'[i] = Append(inbox[i], Len(calls) + 1)
          /\ \A j \in Items \ {i} : inbox'[j] = inbox[j]
      BY <2>1, TypeParts DEF Calls, InboxType
    <3>3. \A n \in 1..Len(inbox'[i]) : \/ n \in 1..Len(inbox[i]) /\ inbox'[i][n] = inbox[i][n]
                                       \/ inbox'[i][n] = Len(calls) + 1
      BY <3>1, <3>2
    <3> QED
      BY <3>2, <3>3 DEF InboxFrom
  <2> QED
    BY <2>1, <2>2, <2>3, OrderedKept DEF Calls
<1>3. CASE LoopStep
  <2>1. ASSUME ItemUp \/ IconRefreshed \/ IgnoreSignal \/ \E i \in Items : ItemNameAcquired(i) \/ ForwardSignal(i)
        PROVE  Ordered'
    <3>1. UNCHANGED <<calls, inbox, timers, clicks>>
      BY <2>1 DEF ItemUp, IconRefreshed, IgnoreSignal, ItemNameAcquired, ForwardSignal
    <3> QED
      BY <1>0, <3>1, OrderedKept DEF ItemsKept
  <2>2. ASSUME PropertyReply \/ \E id \in replies : MethodReply(id)
        PROVE  Ordered'
    <3>1. UNCHANGED <<inbox, timers, clicks>> /\ ItemsKept
      BY <2>2, AnsweredItems DEF PropertyReply, MethodReply
    <3> QED
      BY <1>0, <3>1, OrderedKept
  <2>3. ASSUME NEW i \in Items, GetCached(i) \/ HandleCall(i) \/ HandleProperty(i)
        PROVE  Ordered'
    <3>1. UNCHANGED <<timers, clicks>> /\ ItemsKept
      BY <2>3, AnsweredItems DEF GetCached, HandleCall, HandleProperty, ItemsKept
    <3>2. HeadTaken(i, Head(inbox[i]))
      BY <2>3, TakeHead DEF GetCached, HandleCall, HandleProperty
    <3>3. InboxFrom
      BY <3>2 DEF HeadTaken, InboxFrom
    <3> QED
      BY <3>1, <3>3, OrderedKept
  <2>4. ASSUME RemoveItem PROVE Ordered'
    <3> DEFINE i == Head(srcq).i
    <3>1. UNCHANGED <<timers, clicks>> /\ ItemsKept
      BY <2>4, AnsweredItems DEF RemoveItem
    <3>2. inbox' = [inbox EXCEPT ![i] = <<>>]
      BY <2>4 DEF RemoveItem
    <3> HIDE DEF i
    <3>3. \A j \in Items : inbox'[j] = inbox[j] \/ inbox'[j] = <<>>
      BY <3>2, TypeParts DEF InboxType
    <3>4. InboxFrom
      BY <3>3, EmptySeq DEF InboxFrom
    <3> QED
      BY <3>1, <3>4, OrderedKept
  <2> QED
    BY <1>3, <2>1, <2>2, <2>3, <2>4, ForwardClickOrdered, HandleClickOrdered DEF LoopStep
<1>4. CASE UNCHANGED vars
  BY <1>0, <1>4, OrderedKept DEF vars, ItemsKept
<1> QED
  BY <1>1, <1>2, <1>3, <1>4 DEF Next

(* forward_deferred_event sends the clicks of an item in the order in which   *)
(* on_method_call took them from the panel.                                   *)
THEOREM ClicksSentInOrder == Spec => []ClicksInOrder
<1>1. Init => TypeOK /\ Owned /\ Ordered
  BY InitType, InitOwned, InitOrdered
<1>2. TypeOK /\ Owned /\ Ordered /\ [Next]_vars => TypeOK' /\ Owned' /\ Ordered'
  BY NextType, NextOwned, NextOrdered
<1>3. Ordered => ClicksInOrder
  BY DEF Ordered
<1> QED
  BY <1>1, <1>2, <1>3, PTL DEF Spec
-----------------------------------------------------------------------------
(* The icon in the panel. *)

Signal == [t : {"NewIcon", "gone"}, i : Items]

LEMMA SignalAppended ==
  ASSUME TypeOK, NEW r \in Signal, srcq' = Append(srcq, r), NEW i \in Items
  PROVE  /\ SignalDue(i) => SignalDue(i)'
         /\ r.t = "NewIcon" /\ r.i = i => SignalDue(i)'
<1>1. srcq \in Seq(Signal)
  BY TypeParts DEF SrcType, Signal
<1>2. /\ Len(srcq) \in Nat /\ Len(srcq') = Len(srcq) + 1 /\ srcq'[Len(srcq) + 1] = r
      /\ \A n \in 1..Len(srcq) : srcq'[n] = srcq[n]
  BY <1>1, AppendFacts, SeqFacts
<1>3. 1..Len(srcq) \subseteq 1..Len(srcq') /\ Len(srcq) + 1 \in 1..Len(srcq')
  BY <1>2
<1> QED
  BY <1>2, <1>3 DEF SignalDue

LEMMA SignalTaken ==
  ASSUME TypeOK, srcq # <<>>, srcq' = Tail(srcq), NEW i \in Items, SignalDue(i),
         Head(srcq).t # "NewIcon" \/ Head(srcq).i # i
  PROVE  SignalDue(i)'
<1>1. srcq \in Seq(Signal)
  BY TypeParts DEF SrcType, Signal
<1>2. /\ Len(srcq) \in Nat \ {0} /\ Len(srcq') = Len(srcq) - 1 /\ Head(srcq) = srcq[1]
      /\ \A n \in 1..Len(srcq) - 1 : srcq'[n] = srcq[n + 1]
  BY <1>1, SeqFacts
<1>3. PICK n \in 1..Len(srcq) : srcq[n].t = "NewIcon" /\ srcq[n].i = i
  BY DEF SignalDue
<1>4. n # 1
  BY <1>2, <1>3
<1>5. n - 1 \in 1..Len(srcq') /\ srcq'[n - 1] = srcq[n]
  BY <1>2, <1>4
<1> QED
  BY <1>3, <1>5 DEF SignalDue

(* A read stays due unless it is answered. *)
LEMMA ReadKept ==
  ASSUME TypeOK, NEW ids, calls' = Answered(ids), NEW i \in Items, i \in reread => i \in reread',
         \A id \in 1..Len(calls) : id \in ids => calls[id].kind # "icon" \/ calls[id].i # i,
         ReadDue(i)
  PROVE  ReadDue(i)'
<1>1. /\ Len(calls') = Len(calls)
      /\ \A id \in 1..Len(calls) :
           /\ calls'[id].i = calls[id].i /\ calls'[id].kind = calls[id].kind
           /\ id \notin ids => calls'[id].answers = calls[id].answers
  BY AnsweredFacts, TypeParts
<1>2. CASE i \in reread
  BY <1>2 DEF ReadDue
<1>3. CASE IconCalls(i) # {}
  <2>1. PICK id \in 1..Len(calls) : calls[id].i = i /\ calls[id].kind = "icon" /\ calls[id].answers = 0
    BY <1>3 DEF IconCalls, CallsOf
  <2>2. id \in 1..Len(calls') /\ calls'[id].i = i /\ calls'[id].kind = "icon" /\ calls'[id].answers = 0
    BY <1>1, <2>1
  <2> QED
    BY <2>2 DEF ReadDue, IconCalls, CallsOf
<1> QED
  BY <1>2, <1>3 DEF ReadDue

LEMMA ReadMade ==
  ASSUME TypeOK, NEW i \in Items, NEW kind \in Kinds, Calls(i, kind), NEW j \in Items,
         ReadDue(j), j \in reread => j \in reread' \/ (j = i /\ kind = "icon")
  PROVE  ReadDue(j)'
<1>1. /\ Len(calls) \in Nat /\ Len(calls') = Len(calls) + 1
      /\ calls'[Len(calls) + 1] = [i |-> i, kind |-> kind, answers |-> 0]
      /\ \A id \in 1..Len(calls) : calls'[id] = calls[id]
  BY TypeParts, CallsFacts, CallFields DEF Calls
<1>2. 1..Len(calls) \subseteq 1..Len(calls') /\ Len(calls) + 1 \in 1..Len(calls')
  BY <1>1
<1>3. CASE j \in reread'
  BY <1>3 DEF ReadDue
<1>4. CASE j = i /\ kind = "icon"
  BY <1>1, <1>2, <1>4 DEF ReadDue, IconCalls, CallsOf
<1>5. CASE IconCalls(j) # {}
  <2>1. PICK id \in 1..Len(calls) : calls[id].i = j /\ calls[id].kind = "icon" /\ calls[id].answers = 0
    BY <1>5 DEF IconCalls, CallsOf
  <2>2. id \in 1..Len(calls') /\ calls'[id].i = j /\ calls'[id].kind = "icon" /\ calls'[id].answers = 0
    BY <1>1, <1>2, <2>1
  <2> QED
    BY <2>2 DEF ReadDue, IconCalls, CallsOf
<1> QED
  BY <1>3, <1>4, <1>5 DEF ReadDue

LEMMA PathsKept == UNCHANGED fixed => \A i \in Items : OwnPath(i)' <=> OwnPath(i)
  BY DEF fixed, OwnPath, Exported

LEMMA ResultIcons == None \notin Icons /\ Error \notin Icons /\ NoIcon \notin Icons /\ Rendered \subseteq Icons
  BY ConstantsAssumption DEF None, Error

(* What is due stays due ... *)
DuesKept == \A i \in Items : phase'[i] = "up" =>
              /\ phase[i] = "up" /\ (SignalDue(i) => SignalDue(i)') /\ (ReadDue(i) => ReadDue(i)')

(* ... and so the icons stay fresh, if none is touched. *)
LEMMA FreshKept ==
  ASSUME Fresh, DuesKept, UNCHANGED fixed, UNCHANGED <<icon, cache, shown, failed>>, alive' \subseteq alive,
         cur.why = "signal" => cur'.why = "signal" /\ cur'.i = cur.i
  PROVE  CacheFresh' /\ CacheShown' /\ ShownFresh'
<1>1. UNCHANGED renamer /\ \A i \in Items : Concerned(i)' => Concerned(i) /\ phase'[i] = "up"
  BY PathsKept DEF DuesKept, Concerned, fixed
<1>2. CacheFresh'
  BY <1>1 DEF Fresh, CacheFresh, Current, DuesKept
<1>3. CacheShown'
  BY <1>1 DEF Fresh, CacheShown, DuesKept
<1>4. ShownFresh'
  BY <1>1 DEF Fresh, ShownFresh, Current, DuesKept
<1> QED
  BY <1>2, <1>3, <1>4

LEMMA IdleFresh ==
  ASSUME cur' = Idle
  PROVE  FetchFresh' /\ NothingCached'
  BY IdleFacts DEF FetchFresh, NothingCached

LEMMA SameDues ==
  ASSUME UNCHANGED <<srcq, calls>>, reread \subseteq reread', NEW i
  PROVE  (SignalDue(i) => SignalDue(i)') /\ (ReadDue(i) => ReadDue(i)')
  BY DEF SignalDue, ReadDue, IconCalls, CallsOf

LEMMA AppChangesIconFresh ==
  ASSUME TypeOK, Owned, Fresh, NEW i \in Items, NEW x \in Icons, AppChangesIcon(i, x)
  PROVE  Fresh'
<1>1. /\ UNCHANGED <<phase, cache, cur, calls, reread, shown, failed, alive, renamer>> /\ UNCHANGED fixed
      /\ \A j \in Items \ {i} : icon'[j] = icon[j]
  BY TypeParts DEF AppChangesIcon, loop, panel, IconType, fixed
<1>2. \A j \in Items : /\ SignalDue(j) => SignalDue(j)'
                       /\ phase[i] \in {"fetching", "up"} => SignalDue(i)'
  <2> DEFINE r == [t |-> "NewIcon", i |-> i]
  <2>1. r \in Signal /\ r.t = "NewIcon" /\ r.i = i
    BY DEF Signal
  <2>2. IF phase[i] \in {"fetching", "up"} THEN srcq' = Append(srcq, r) ELSE srcq' = srcq
    BY DEF AppChangesIcon
  <2> HIDE DEF r
  <2>3. CASE phase[i] \in {"fetching", "up"}
    BY <2>1, <2>2, <2>3, SignalAppended
  <2>4. CASE phase[i] \notin {"fetching", "up"}
    BY <2>2, <2>4 DEF SignalDue
  <2> QED
    BY <2>3, <2>4
<1>3. \A j \in Items : ReadDue(j)' <=> ReadDue(j)
  BY <1>1 DEF ReadDue, IconCalls, CallsOf
<1>4. ASSUME NEW j \in Items, phase[j] \in {"fetching", "up"}, NEW y, Current(j, y)
      PROVE  Current(j, y)'
  <2>1. CASE j = i
    <3>1. SignalDue(j)'
      BY <1>2, <1>4, <2>1
    <3> QED
      BY <3>1 DEF Current
  <2>2. CASE j # i
    <3>1. icon'[j] = icon[j] /\ (SignalDue(j) => SignalDue(j)')
      BY <1>1, <1>2, <2>2
    <3>2. y = icon[j] \/ SignalDue(j)
      BY <1>4 DEF Current
    <3> QED
      BY <3>1, <3>2 DEF Current
  <2> QED
    BY <2>1, <2>2
<1>5. \A j \in Items : Concerned(j)' => Concerned(j) /\ phase[j] = "up"
  BY <1>1, PathsKept DEF Concerned
<1>6. FetchFresh'
  <2>1. cur # Idle => cur.i \in Items /\ phase[cur.i] \in {"fetching", "up"}
    BY TypeParts, BlockingFacts DEF Owned, CurOwned
  <2> QED
    BY <1>1, <1>4, <2>1 DEF Fresh, FetchFresh
<1>7. NothingCached' /\ CacheShown'
  BY <1>1, <1>3 DEF Fresh, NothingCached, CacheShown
<1>8. CacheFresh'
  BY <1>1, <1>4, <1>5 DEF Fresh, CacheFresh
<1>9. ShownFresh'
  BY <1>1, <1>3, <1>4, <1>5 DEF Fresh, ShownFresh
<1> QED
  BY <1>6, <1>7, <1>8, <1>9 DEF Fresh

(* An application answers, exits, or a timeout expires. *)
LEMMA ResultFresh ==
  ASSUME TypeOK, Owned, Fresh, Timeouts \/ \E i \in Items : AppHandles(i) \/ AppExits(i)
  PROVE  Fresh'
<1>1. CurKept /\ UNCHANGED <<calls, phase, reread, shown, failed, cache>> /\ UNCHANGED fixed
  BY AppKept DEF AppStep, fixed
<1>2. UNCHANGED icon /\ alive' \subseteq alive
  BY DEF Timeouts, AppHandles, AppExits, SyncTimesOut, CallTimesOut, apps
<1>3. \A j \in Items : SignalDue(j) => SignalDue(j)'
  <2>1. CASE UNCHANGED srcq
    BY <2>1 DEF SignalDue
  <2>2. ASSUME NEW i \in Items, AppExits(i) PROVE \A j \in Items : SignalDue(j) => SignalDue(j)'
    <3> DEFINE r == [t |-> "gone", i |-> i]
    <3>1. r \in Signal /\ srcq' = Append(srcq, r)
      BY <2>2 DEF Signal, AppExits
    <3> HIDE DEF r
    <3> QED
      BY <3>1, SignalAppended
  <2> QED
    BY <2>1, <2>2 DEF Timeouts, AppHandles, SyncTimesOut, CallTimesOut, apps
<1>4. \A j \in Items : ReadDue(j)' <=> ReadDue(j)
  BY <1>1 DEF ReadDue, IconCalls, CallsOf
<1>5. DuesKept
  BY <1>1, <1>3, <1>4 DEF DuesKept
<1>6. cur'.why = cur.why /\ cur'.i = cur.i /\ cur'.id = cur.id
  BY <1>1 DEF CurKept
<1>7. NothingCached'
  BY <1>1, <1>6 DEF Fresh, NothingCached, fixed
<1>8. FetchFresh'
  <2> SUFFICES ASSUME cur' # Idle, cur'.i \in alive', cur'.res \in Icons
               PROVE  Current(cur.i, cur.res)'
    BY DEF FetchFresh
  <2>1. cur # Idle /\ cur.i \in Items /\ cur.i \in alive
    BY <1>1, <1>2, <1>6, TypeParts, BlockingFacts DEF CurKept
  <2>2. CASE cur' = cur
    BY <1>2, <1>3, <2>1, <2>2 DEF Fresh, FetchFresh, Current
  <2>3. CASE cur' # cur
    <3>1. cur = [i |-> cur.i, why |-> cur.why, id |-> cur.id, res |-> cur.res]
      BY <2>1, TypeParts, BlockingFacts
    <3>2. cur'.res = Error \/ cur'.res = icon[cur.i]
      BY <2>3, <3>1 DEF Timeouts, AppHandles, AppExits, SyncTimesOut, CallTimesOut, WaitsFor
    <3> QED
      BY <1>2, <1>6, <3>2, ResultIcons DEF Current
  <2> QED
    BY <2>2, <2>3
<1> QED
  BY <1>1, <1>2, <1>5, <1>6, <1>7, <1>8, FreshKept DEF Fresh

LEMMA CallsFresh ==
  ASSUME TypeOK, Owned, Fresh, NEW i \in Items, NEW kind \in Kinds, Calls(i, kind),
         reread' = reread \/ (kind = "icon" /\ reread' = reread \ {i})
  PROVE  Fresh'
<1>1. UNCHANGED <<phase, cache, cur, shown, failed, srcq, alive, icon>> /\ UNCHANGED fixed
  BY DEF Calls, apps
<1>2. \A j \in Items : (SignalDue(j) <=> SignalDue(j)') /\ (ReadDue(j) => ReadDue(j)')
  BY <1>1, ReadMade DEF SignalDue
<1>3. DuesKept
  BY <1>1, <1>2 DEF DuesKept
<1>4. cur # Idle => cur.i \in Items /\ cur.id \in 0..Len(calls)
  BY TypeParts, BlockingFacts
<1>5. FetchFresh'
  BY <1>1, <1>2, <1>4 DEF Fresh, FetchFresh, Current
<1>6. NothingCached'
  <2> SUFFICES ASSUME renamer', cur'.why = "property", calls'[cur'.id].kind = "icon"
               PROVE  cache'[cur'.i] = NoIcon
    BY <1>1 DEF NothingCached, Fresh, fixed
  <2>1. cur # Idle /\ cur.why = "property"
    BY <1>1, NotIdle
  <2>2. cur.id \in 1..Len(calls)
    BY <1>4, <2>1, TypeParts, CallFields DEF Owned, CurOwned
  <2>3. calls'[cur.id] = calls[cur.id]
    BY <2>2, TypeParts, CallsFacts DEF Calls
  <2> QED
    BY <1>1, <2>1, <2>3 DEF Fresh, NothingCached, fixed
<1> QED
  BY <1>1, <1>3, <1>5, <1>6, FreshKept DEF Fresh

(* A call that is not for an icon is answered. *)
LEMMA OtherAnswered ==
  ASSUME TypeOK, Fresh, NEW id \in 1..Len(calls), calls[id].kind # "icon", calls' = Answered({id}),
         UNCHANGED <<phase, cache, shown, failed, srcq, alive, icon, reread>>, UNCHANGED fixed,
         cur' = Idle, cur.why # "signal"
  PROVE  Fresh'
<1>1. \A j \in Items : (SignalDue(j) => SignalDue(j)') /\ (ReadDue(j) => ReadDue(j)')
  BY ReadKept DEF SignalDue
<1>2. DuesKept
  BY <1>1 DEF DuesKept
<1> QED
  BY <1>2, FreshKept, IdleFresh DEF Fresh

LEMMA HandleClickFresh ==
  ASSUME TypeOK, Owned, Fresh, NEW i \in Items, HandleClick(i)
  PROVE  Fresh'
<1>1. HeadTaken(i, Head(inbox[i]))
  BY TakeHead DEF HandleClick
<1>2. Head(inbox[i]) \in 1..Len(calls)
  BY <1>1 DEF HeadTaken
<1> QED
  BY <1>2, OtherAnswered, IdleFacts DEF HandleClick, apps, Free

LEMMA MethodReplyFresh ==
  ASSUME TypeOK, Owned, Fresh, NEW id \in replies, MethodReply(id)
  PROVE  Fresh'
<1>1. id \in 1..Len(calls) /\ id \in inflight
  BY TypeParts DEF AsyncType
<1>2. calls[id].kind = "call"
  BY <1>1 DEF Owned, InflightOwned
<1> QED
  BY <1>1, <1>2, OtherAnswered, IdleFacts DEF MethodReply, apps, Free

LEMMA GetCachedFresh ==
  ASSUME TypeOK, Owned, Fresh, NEW i \in Items, GetCached(i)
  PROVE  Fresh'
<1> DEFINE h == Head(inbox[i])
<1>1. HeadTaken(i, h)
  BY TakeHead DEF GetCached
<1>2. /\ UNCHANGED <<phase, cache, failed, srcq, alive, icon, reread>> /\ UNCHANGED fixed
      /\ cur = Idle /\ cur' = Idle /\ calls' = Answered({h}) /\ Synthesised(i, calls[h].kind)
      /\ shown' = IF renamer THEN [shown EXCEPT ![i] = cache[i]] ELSE shown
  BY DEF GetCached, apps, Free
<1> HIDE DEF h
<1>3. h \in 1..Len(calls) /\ calls[h].i = i
  BY <1>1 DEF HeadTaken
<1>4. CASE ~ renamer
  BY <1>2, <1>3, <1>4, OtherAnswered, IdleFacts DEF Synthesised
<1>5. CASE renamer
  <2>1. shown'[i] = cache[i] /\ \A j \in Items \ {i} : shown'[j] = shown[j]
    BY <1>2, <1>5, TypeParts DEF IconType
  <2>2. \A j \in Items \ {i} : ReadDue(j) => ReadDue(j)'
    BY <1>2, <1>3, ReadKept
  <2>3. CacheShown'
    BY <1>2, <2>1, <2>2 DEF Fresh, CacheShown, fixed
  <2>4. CacheFresh'
    <3>1. \A j \in Items : Concerned(j)' => Concerned(j)
      BY <1>2, PathsKept DEF Concerned
    <3> QED
      BY <1>2, <3>1 DEF Fresh, CacheFresh, Current, SignalDue, fixed
  <2>5. ShownFresh'
    BY <1>2, <1>5 DEF ShownFresh, fixed
  <2> QED
    BY <1>2, <2>3, <2>4, <2>5, IdleFresh DEF Fresh
<1> QED
  BY <1>4, <1>5

(* Nothing that the freshness of icons depends on changes, or a call starts   *)
(* that has no result yet.                                                    *)
LEMMA BlockFresh ==
  ASSUME TypeOK, Fresh, Free, UNCHANGED <<calls, cache, shown, failed, alive, icon, reread, srcq>>,
         UNCHANGED fixed, \A j \in Items : phase'[j] = "up" => phase[j] = "up",
         cur' = Idle \/ (cur'.res \notin Icons /\ cur'.why = "start")
                     \/ (cur'.res \notin Icons /\ cur'.why = "property" /\ cur'.i \in Items /\
                         (renamer /\ calls[cur'.id].kind = "icon" => cache[cur'.i] = NoIcon))
  PROVE  Fresh'
<1>1. DuesKept
  BY SameDues DEF DuesKept
<1>2. cur.why # "signal"
  BY IdleFacts DEF Free
<1>3. FetchFresh' /\ NothingCached'
  BY IdleFresh DEF FetchFresh, NothingCached, fixed
<1> QED
  BY <1>1, <1>2, <1>3, FreshKept DEF Fresh

LEMMA BlockResult ==
  ASSUME NEW i, NEW why, NEW id, Block(i, why, id)
  PROVE  cur'.res \notin Icons /\ cur'.why = why /\ cur'.i = i /\ cur'.id = id
  BY ResultIcons DEF Block

LEMMA ItemNameAcquiredFresh ==
  ASSUME TypeOK, Owned, Fresh, NEW i \in Items, ItemNameAcquired(i)
  PROVE  Fresh'
<1>1. \A j \in Items : phase'[j] = "up" => phase[j] = "up"
  BY TypeParts DEF ItemNameAcquired, PhaseType
<1>2. cur'.res \notin Icons /\ cur'.why = "start"
  BY BlockResult DEF ItemNameAcquired
<1> QED
  BY <1>1, <1>2, BlockFresh DEF ItemNameAcquired, panel

LEMMA HandlePropertyFresh ==
  ASSUME TypeOK, Owned, Fresh, NEW i \in Items, HandleProperty(i)
  PROVE  Fresh'
<1> DEFINE h == Head(inbox[i])
<1>1. /\ cur'.res \notin Icons /\ cur'.why = "property" /\ cur'.i = i /\ cur'.id = h
      /\ ~ Synthesised(i, calls[h].kind)
  BY BlockResult DEF HandleProperty
<1> HIDE DEF h
<1>2. renamer /\ calls[cur'.id].kind = "icon" => cache[cur'.i] = NoIcon
  BY <1>1 DEF Synthesised
<1> QED
  BY <1>1, <1>2, BlockFresh DEF HandleProperty, panel

LEMMA FailedFacts ==
  ASSUME NEW i, NEW x
  PROVE  /\ \A j : j # i => (j \in FailedAfter(i, x) <=> j \in failed)
         /\ i \notin FailedAfter(i, x) => x \in IF renamer THEN Rendered ELSE Icons
  BY DEF FailedAfter

(* A result reaches the cache of the renamer. *)
LEMMA CacheTaken ==
  ASSUME TypeOK, Owned, Fresh, renamer, cur # Idle, UNCHANGED <<calls, shown, alive, icon, srcq>>,
         UNCHANGED fixed, cache' = Refreshed(cur.i, cur.res), failed' = FailedAfter(cur.i, cur.res),
         reread' = reread \cup {cur.i}, cur' = Idle, cur.why # "property",
         \A j \in Items \ {cur.i} : phase'[j] = phase[j]
  PROVE  Fresh'
<1>1. cur.i \in Items
  BY TypeParts, BlockingFacts
<1>2. \A j \in Items \ {cur.i} : cache'[j] = cache[j]
  BY <1>1, TypeParts DEF IconType, Refreshed
<1>3. \A j \in Items : (SignalDue(j) => SignalDue(j)') /\ (ReadDue(j) => ReadDue(j)')
  BY SameDues
<1>4. \A j \in Items \ {cur.i} : Concerned(j)' => Concerned(j)
  BY FailedFacts, PathsKept DEF Concerned
<1>5. CacheFresh'
  <2> SUFFICES ASSUME NEW j \in Items, Concerned(j)'
               PROVE  cache'[j] = icon'[j] \/ SignalDue(j)'
    BY DEF CacheFresh, Current
  <2>1. CASE j # cur.i
    BY <1>2, <1>3, <1>4, <2>1 DEF Fresh, CacheFresh, Current
  <2>2. CASE j = cur.i
    <3>1. cur.res \in Rendered /\ cur.i \in alive
      BY <2>2, FailedFacts DEF Concerned
    <3>2. cache'[cur.i] = cur.res
      BY <1>1, <3>1, TypeParts DEF Refreshed, IconType
    <3>3. cur.res = icon[cur.i] \/ SignalDue(cur.i)
      BY <3>1, ResultIcons DEF Fresh, FetchFresh, Current
    <3> QED
      BY <1>1, <1>3, <2>2, <3>2, <3>3
  <2> QED
    BY <2>1, <2>2
<1>6. CacheShown'
  <2> SUFFICES ASSUME NEW j \in Items, phase'[j] = "up"
               PROVE  cache'[j] = NoIcon \/ shown'[j] = cache'[j] \/ ReadDue(j)'
    BY DEF CacheShown
  <2>1. CASE j # cur.i
    BY <1>2, <1>3, <2>1 DEF Fresh, CacheShown
  <2>2. CASE j = cur.i
    BY <2>2 DEF ReadDue
  <2> QED
    BY <2>1, <2>2
<1>7. ShownFresh'
  BY DEF ShownFresh, fixed
<1> QED
  BY <1>5, <1>6, <1>7, IdleFresh DEF Fresh

LEMMA ItemUpFresh ==
  ASSUME TypeOK, Owned, Fresh, ItemUp
  PROVE  Fresh'
<1>1. cur # Idle /\ cur.i \in Items /\ cur.why = "start"
  BY NotIdle, BlockingFacts, TypeParts DEF ItemUp
<1>2. \A j \in Items \ {cur.i} : phase'[j] = phase[j]
  BY <1>1, TypeParts DEF ItemUp, PhaseType
<1>3. CASE renamer
  BY <1>1, <1>2, <1>3, CacheTaken DEF ItemUp, apps
<1>4. CASE ~ renamer
  <2>1. /\ UNCHANGED <<cache, failed, calls, shown, alive, icon, srcq, renamer>> /\ UNCHANGED fixed
        /\ reread' = reread \cup {cur.i} /\ cur' = Idle
    BY <1>4 DEF ItemUp, apps, fixed
  <2>2. \A j \in Items : (SignalDue(j) => SignalDue(j)') /\ (ReadDue(j) => ReadDue(j)')
    BY <2>1, SameDues
  <2>3. \A j \in Items \ {cur.i} : Concerned(j)' => Concerned(j)
    BY <1>2, <2>1, PathsKept DEF Concerned
  <2>4. ShownFresh'
    <3> SUFFICES ASSUME NEW j \in Items, Concerned(j)'
                 PROVE  shown'[j] = icon'[j] \/ SignalDue(j)' \/ ReadDue(j)'
      BY DEF ShownFresh, Current
    <3>1. CASE j = cur.i
      BY <2>1, <3>1 DEF ReadDue
    <3>2. CASE j # cur.i
      BY <1>4, <2>1, <2>2, <2>3, <3>2 DEF Fresh, ShownFresh, Current
    <3> QED
      BY <3>1, <3>2
  <2>5. CacheFresh' /\ CacheShown'
    BY <1>4, <2>1 DEF CacheFresh, CacheShown
  <2> QED
    BY <2>1, <2>4, <2>5, IdleFresh DEF Fresh
<1> QED
  BY <1>3, <1>4

LEMMA IconRefreshedFresh ==
  ASSUME TypeOK, Owned, Fresh, IconRefreshed
  PROVE  Fresh'
<1>1. cur # Idle /\ cur.why = "signal" /\ renamer
  BY NotIdle DEF IconRefreshed, Fresh, NothingCached
<1> QED
  BY <1>1, CacheTaken DEF IconRefreshed, apps

LEMMA PropertyReplyFresh ==
  ASSUME TypeOK, Owned, Fresh, PropertyReply
  PROVE  Fresh'
<1> DEFINE k == cur.i
<1>1. /\ cur # Idle /\ k \in Items /\ cur.why = "property" /\ cur.id \in 0..Len(calls) /\ cur.id # 0
      /\ calls[cur.id].i = k /\ calls[cur.id].kind \in {"icon", "menu"}
  BY NotIdle, BlockingFacts, TypeParts DEF PropertyReply, Owned, CurOwned
<1>2. /\ UNCHANGED <<phase, cache, srcq, alive, icon, reread, renamer>> /\ UNCHANGED fixed
      /\ cur' = Idle /\ calls' = Answered({cur.id})
  BY DEF PropertyReply, apps, fixed
<1>3. cur.id \in 1..Len(calls)
  BY <1>1, CallFields, TypeParts
<1>4. CASE calls[cur.id].kind = "menu"
  <2>1. UNCHANGED <<shown, failed>>
    BY <1>4 DEF PropertyReply
  <2> QED
    BY <1>1, <1>2, <1>3, <1>4, <2>1, OtherAnswered
<1>5. CASE calls[cur.id].kind = "icon"
  <2>1. /\ shown' = IF cur.res \in Icons THEN [shown EXCEPT ![k] = cur.res] ELSE shown
        /\ failed' = IF renamer THEN failed ELSE FailedAfter(k, cur.res)
    BY <1>5 DEF PropertyReply
  <2>2. \A j \in Items \ {k} : shown'[j] = shown[j]
    BY <1>1, <2>1, TypeParts DEF IconType
  <2>3. \A j \in Items \ {k} : ReadDue(j) => ReadDue(j)'
    BY <1>1, <1>2, ReadKept
  <2>4. \A j \in Items : SignalDue(j) => SignalDue(j)'
    BY <1>2 DEF SignalDue
  <2>5. \A j \in Items : (j # k \/ renamer) /\ Concerned(j)' => Concerned(j)
    BY <1>2, <2>1, FailedFacts, PathsKept DEF Concerned
  <2>6. CacheFresh'
    BY <1>1, <1>2, <2>4, <2>5 DEF Fresh, CacheFresh, Current
  <2>7. CacheShown'
    <3>1. renamer => cache[k] = NoIcon
      BY <1>1, <1>5 DEF Fresh, NothingCached
    <3> QED
      BY <1>2, <2>2, <2>3, <3>1 DEF Fresh, CacheShown
  <2>8. ShownFresh'
    <3> SUFFICES ASSUME NEW j \in Items, ~ renamer, Concerned(j)'
                 PROVE  shown'[j] = icon'[j] \/ SignalDue(j)' \/ ReadDue(j)'
      BY <1>2 DEF ShownFresh, Current
    <3>1. CASE j = k
      <4>1. cur.res \in Icons /\ k \in alive
        BY <1>2, <2>1, <3>1, FailedFacts DEF Concerned
      <4>2. shown'[k] = cur.res
        BY <1>1, <2>1, <4>1, TypeParts DEF IconType
      <4>3. cur.res = icon[k] \/ SignalDue(k)
        BY <1>1, <4>1 DEF Fresh, FetchFresh, Current
      <4> QED
        BY <1>1, <1>2, <2>4, <3>1, <4>2, <4>3
    <3>2. CASE j # k
      <4>1. shown[j] = icon[j] \/ SignalDue(j) \/ ReadDue(j)
        BY <2>5, <3>2 DEF Fresh, ShownFresh, Current
      <4> QED
        BY <1>2, <2>2, <2>3, <2>4, <3>2, <4>1
    <3> QED
      BY <3>1, <3>2
  <2> QED
    BY <1>2, <2>6, <2>7, <2>8, IdleFresh DEF Fresh
<1> QED
  BY <1>1, <1>4, <1>5

(* A NewIcon is for the one item that has its sender's path, if it has one.   *)
LEMMA ForwardSignalFresh ==
  ASSUME TypeOK, Owned, Fresh, NEW j \in Items, ForwardSignal(j)
  PROVE  Fresh'
<1>1. /\ srcq # <<>> /\ srcq' = Tail(srcq) /\ j \in Candidates(Head(srcq).i) /\ cur = Idle
      /\ UNCHANGED <<phase, cache, calls, shown, failed, alive, icon, renamer>> /\ UNCHANGED fixed
  BY DEF ForwardSignal, NewIconFrom, Free, fixed
<1>2. ASSUME NEW i \in Items, i # j, OwnPath(i), phase[i] = "up", SignalDue(i)
      PROVE  SignalDue(i)'
  <2>1. Head(srcq).i # i
    BY <1>1, <1>2 DEF OwnPath, Candidates
  <2> QED
    BY <1>1, <1>2, <2>1, SignalTaken
<1>3. \A i \in Items : Concerned(i)' <=> Concerned(i)
  BY <1>1, PathsKept DEF Concerned
<1>4. CASE renamer
  <2>1. cur'.res \notin Icons /\ cur'.why = "signal" /\ cur'.i = j /\ UNCHANGED reread
    BY <1>4, BlockResult DEF ForwardSignal
  <2>2. FetchFresh' /\ NothingCached' /\ ShownFresh'
    BY <1>1, <1>4, <2>1 DEF FetchFresh, NothingCached, ShownFresh
  <2>3. CacheShown'
    <3>1. \A i \in Items : ReadDue(i)' <=> ReadDue(i)
      BY <1>1, <2>1 DEF ReadDue, IconCalls, CallsOf
    <3> QED
      BY <1>1, <3>1 DEF Fresh, CacheShown
  <2>4. CacheFresh'
    <3> SUFFICES ASSUME NEW i \in Items, Concerned(i), i # j
                 PROVE  cache'[i] = icon'[i] \/ SignalDue(i)'
      BY <1>3, <2>1 DEF CacheFresh, Current
    <3>1. cache[i] = icon[i] \/ SignalDue(i)
      BY <1>1, <1>4, IdleFacts DEF Fresh, CacheFresh, Current
    <3> QED
      BY <1>1, <1>2, <3>1 DEF Concerned
  <2> QED
    BY <2>2, <2>3, <2>4 DEF Fresh
<1>5. CASE ~ renamer
  <2>1. cur' = Idle /\ reread' = reread \cup {j}
    BY <1>1, <1>5 DEF ForwardSignal
  <2>2. CacheFresh' /\ CacheShown'
    BY <1>1, <1>5 DEF CacheFresh, CacheShown
  <2>3. ShownFresh'
    <3> SUFFICES ASSUME NEW i \in Items, Concerned(i)
                 PROVE  shown'[i] = icon'[i] \/ SignalDue(i)' \/ ReadDue(i)'
      BY <1>3 DEF ShownFresh, Current
    <3>1. CASE i = j
      BY <2>1, <3>1 DEF ReadDue
    <3>2. CASE i # j
      <4>1. shown[i] = icon[i] \/ SignalDue(i) \/ ReadDue(i)
        BY <1>5 DEF Fresh, ShownFresh, Current
      <4>2. ReadDue(i) => ReadDue(i)'
        BY <1>1, <2>1 DEF ReadDue, IconCalls, CallsOf
      <4> QED
        BY <1>1, <1>2, <3>2, <4>1, <4>2 DEF Concerned
    <3> QED
      BY <3>1, <3>2
  <2> QED
    BY <2>1, <2>2, <2>3, IdleFresh DEF Fresh
<1> QED
  BY <1>4, <1>5

LEMMA IgnoreSignalFresh ==
  ASSUME TypeOK, Owned, Fresh, IgnoreSignal
  PROVE  Fresh'
<1>1. /\ srcq # <<>> /\ srcq' = Tail(srcq) /\ Candidates(Head(srcq).i) = {} /\ cur = Idle
      /\ UNCHANGED <<cur, phase, cache, calls, reread, shown, failed, alive, icon, renamer>> /\ UNCHANGED fixed
  BY DEF IgnoreSignal, NewIconFrom, Free, fixed, loop, panel
<1>2. ASSUME NEW i \in Items, Concerned(i), SignalDue(i)
      PROVE  SignalDue(i)'
  <2>1. Head(srcq).i # i
    BY <1>1, <1>2 DEF OwnPath, Candidates, Concerned
  <2> QED
    BY <1>1, <1>2, <2>1, SignalTaken
<1>3. \A i \in Items : (Concerned(i)' <=> Concerned(i)) /\ (ReadDue(i)' <=> ReadDue(i))
  BY <1>1, PathsKept DEF Concerned, ReadDue, IconCalls, CallsOf
<1>4. CacheShown'
  BY <1>1, <1>3 DEF Fresh, CacheShown
<1>5. CacheFresh'
  <2> SUFFICES ASSUME NEW i \in Items, renamer, Concerned(i)
               PROVE  cache'[i] = icon'[i] \/ SignalDue(i)'
    BY <1>1, <1>3 DEF CacheFresh, Current
  <2>1. cache[i] = icon[i] \/ SignalDue(i)
    BY <1>1, IdleFacts DEF Fresh, CacheFresh, Current
  <2> QED
    BY <1>1, <1>2, <2>1
<1>6. ShownFresh'
  <2> SUFFICES ASSUME NEW i \in Items, ~ renamer, Concerned(i)
               PROVE  shown'[i] = icon'[i] \/ SignalDue(i)' \/ ReadDue(i)'
    BY <1>1, <1>3 DEF ShownFresh, Current
  <2>1. shown[i] = icon[i] \/ SignalDue(i) \/ ReadDue(i)
    BY DEF Fresh, ShownFresh, Current
  <2> QED
    BY <1>1, <1>2, <1>3, <2>1
<1> QED
  BY <1>1, <1>4, <1>5, <1>6, IdleFresh DEF Fresh

LEMMA RemoveItemFresh ==
  ASSUME TypeOK, Owned, Fresh, RemoveItem
  PROVE  Fresh'
<1> DEFINE k == Head(srcq).i
           owed == {id \in CallsOf(k) : calls[id].answers = 0}
<1>1. k \in Items /\ Head(srcq).t = "gone" /\ srcq # <<>> /\ srcq' = Tail(srcq)
  <2>1. Head(srcq) \in [t : {"NewIcon", "gone"}, i : Items]
    BY TypeParts, SeqFacts DEF RemoveItem, SrcType
  <2> QED
    BY <2>1 DEF RemoveItem
<1>2. /\ calls' = Answered(owed) /\ cur = Idle /\ cur' = Idle /\ reread' = reread \ {k}
      /\ phase' = [phase EXCEPT ![k] = "gone"] /\ shown' = [shown EXCEPT ![k] = NoIcon]
      /\ UNCHANGED <<cache, alive, icon, failed, renamer>> /\ UNCHANGED fixed
  BY DEF RemoveItem, Free, fixed
<1>3. \A id \in 1..Len(calls) : id \in owed => calls[id].i = k
  BY DEF CallsOf
<1>4. \A j \in Items : SignalDue(j) => SignalDue(j)'
  BY <1>1, SignalTaken
<1> HIDE DEF k, owed
<1>5. phase'[k] = "gone" /\ \A j \in Items \ {k} : phase'[j] = phase[j] /\ shown'[j] = shown[j]
  BY <1>1, <1>2, TypeParts DEF PhaseType, IconType
<1>6. \A j \in Items \ {k} : ReadDue(j) => ReadDue(j)'
  BY <1>2, <1>3, ReadKept
<1>7. \A j \in Items : Concerned(j)' => Concerned(j) /\ j # k
  BY <1>2, <1>5, PathsKept DEF Concerned
<1>8. CacheShown'
  BY <1>2, <1>5, <1>6 DEF Fresh, CacheShown
<1>9. CacheFresh'
  BY <1>2, <1>4, <1>7 DEF Fresh, CacheFresh, Current
<1>10. ShownFresh'
  BY <1>2, <1>4, <1>5, <1>6, <1>7 DEF Fresh, ShownFresh, Current
<1> QED
  BY <1>2, <1>8, <1>9, <1>10, IdleFresh DEF Fresh

LEMMA InitFresh == Init => Fresh
<1> SUFFICES ASSUME Init PROVE Fresh
  OBVIOUS
<1>1. cur = Idle /\ \A i \in Items : phase[i] # "up"
  BY DEF Init
<1> QED
  BY <1>1, IdleFacts DEF Fresh, FetchFresh, NothingCached, CacheFresh, CacheShown, ShownFresh, Concerned

(* A step preserves the freshness of icons. *)
LEMMA NextFresh == TypeOK /\ Owned /\ Fresh /\ [Next]_vars => Fresh'
<1> SUFFICES ASSUME TypeOK, Owned, Fresh, [Next]_vars PROVE Fresh'
  OBVIOUS
<1>1. CASE AppStep
  BY <1>1, AppChangesIconFresh, ResultFresh DEF AppStep
<1>2. CASE Timeouts
  BY <1>2, ResultFresh
<1>3. CASE PanelStep
  BY <1>3, CallsFresh DEF PanelStep, PanelReads, PanelCalls, Kinds
<1>4. ASSUME ForwardClick \/ (\E i \in Items : HandleCall(i))
      PROVE  Fresh'
  <2>1. /\ UNCHANGED <<calls, cache, shown, failed, alive, icon, reread, srcq, phase, cur>> /\ UNCHANGED fixed
        /\ Free
    BY <1>4 DEF ForwardClick, HandleCall, panel
  <2> QED
    BY <2>1, BlockFresh DEF Free
<1>5. CASE LoopStep
  BY <1>4, <1>5, ItemUpFresh, PropertyReplyFresh, IconRefreshedFresh, IgnoreSignalFresh, RemoveItemFresh,
     ItemNameAcquiredFresh, HandleClickFresh, GetCachedFresh, HandlePropertyFresh, ForwardSignalFresh,
     MethodReplyFresh DEF LoopStep
<1>6. CASE UNCHANGED vars
  <2>1. UNCHANGED <<calls, cache, shown, failed, alive, icon, reread, srcq, phase, cur>> /\ UNCHANGED fixed
    BY <1>6 DEF vars, loop, apps, panel
  <2>2. DuesKept
    BY <2>1, SameDues DEF DuesKept
  <2>3. FetchFresh' /\ NothingCached'
    BY <2>1 DEF Fresh, FetchFresh, NothingCached, fixed, Current, SignalDue
  <2> QED
    BY <2>1, <2>2, <2>3, FreshKept DEF Fresh
<1> QED
  BY <1>1, <1>2, <1>3, <1>5, <1>6 DEF Next

LEMMA FreshShown == TypeOK /\ Fresh => IconFresh
<1> SUFFICES ASSUME TypeOK, Fresh, NEW i \in Items, phase[i] = "up", Settled(i), OwnPath(i),
                    i \notin failed, i \in alive
             PROVE  shown[i] = icon[i]
  BY DEF IconFresh
<1>1. cur = Idle /\ srcq = <<>> /\ i \notin reread /\ \A id \in CallsOf(i) : calls[id].answers > 0
  BY DEF Settled, Free
<1>2. ~ SignalDue(i)
  BY <1>1, EmptySeq DEF SignalDue
<1>3. ~ ReadDue(i)
  <2>1. \A id \in CallsOf(i) : calls[id].answers # 0
    BY <1>1
  <2> QED
    BY <1>1, <2>1 DEF ReadDue, IconCalls
<1>4. Concerned(i) /\ icon[i] \in Icons
  BY TypeParts DEF Concerned, IconType
<1>5. CASE renamer
  <2>1. cache[i] = icon[i]
    BY <1>1, <1>2, <1>4, <1>5, IdleFacts DEF Fresh, CacheFresh, Current
  <2> QED
    BY <1>3, <1>4, <1>5, <2>1, ResultIcons DEF Fresh, CacheShown
<1>6. CASE ~ renamer
  BY <1>2, <1>3, <1>4, <1>6 DEF Fresh, ShownFresh, Current
<1> QED
  BY <1>5, <1>6

(* Once on_signal_received and on_get_property have nothing left to do for an *)
(* item with a path of its own, the panel shows its application's icon,       *)
(* unless the last fetch found none.                                          *)
THEOREM IconStaysFresh == Spec => []IconFresh
<1>1. Init => TypeOK /\ Owned /\ Fresh
  BY InitType, InitOwned, InitFresh
<1>2. TypeOK /\ Owned /\ Fresh /\ [Next]_vars => TypeOK' /\ Owned' /\ Fresh'
  BY NextType, NextOwned, NextFresh
<1> QED
  BY <1>1, <1>2, FreshShown, PTL DEF Spec
=============================================================================
