------------------------ MODULE AgentRegistry_proofs ------------------------
(***************************************************************************)
(* Proofs about AgentRegistry, for any number of clients, managers and     *)
(* paths and any number of calls.                                          *)
(***************************************************************************)
EXTENDS AgentRegistry, FiniteSetTheorems, TLAPS

Message  == CallMsg \cup GoneMsg
Response == ReplyMsg \cup AgentMsg

(* What ForwardOf builds is a call on the source bus. *)
LEMMA ForwardType ==
  ASSUME NEW c \in Clients, NEW r \in [op : Ops, mgr : Managers, path : Paths]
  PROVE  ForwardOf(c, r) \in Forward
  BY DEF ForwardOf, Forward

(* The head of a queue of requests that is a call carries a request. *)
LEMMA HeadRequest ==
  ASSUME TypeOK, inbox # <<>>, inbox[1].kind = "call"
  PROVE  inbox[1].from \in Clients /\ inbox[1].req \in Requests
<1>1. inbox[1] \in CallMsg \cup GoneMsg
  BY DEF TypeOK
<1> QED
  BY <1>1 DEF CallMsg, GoneMsg

(* A NameOwnerChanged signal is nothing or one well-formed message. *)
LEMMA SignalType ==
  ASSUME TypeOK, NEW c \in Clients
  PROVE  NameOwnerSignal(c) \in Seq(Message)
<1> DEFINE m == [kind |-> "gone", from |-> c, subs |-> {e.id : e \in registry}]
<1>1. {e.id : e \in registry} \in SUBSET Nat
  BY DEF TypeOK, Entry
<1>2. m \in Message
  BY <1>1 DEF Message, GoneMsg
<1>3. <<m>> \in Seq(Message) /\ <<>> \in Seq(Message)
  BY <1>2
<1> QED
  BY <1>3 DEF NameOwnerSignal

(* Type correctness of every variable, through every action. *)
THEOREM TypeCorrect == Spec => []TypeOK
<1>1. Init => TypeOK
  BY ConstantsAssumption
     DEF Init, TypeOK, Entry, CallMsg, GoneMsg, Forward, ReplyMsg, AgentMsg, Registration
<1>2. TypeOK /\ [Next]_vars => TypeOK'
  <2> SUFFICES ASSUME TypeOK, [Next]_vars PROVE TypeOK'
    OBVIOUS
  <2> USE ConstantsAssumption
  <2>1. ASSUME NEW c \in Clients, NEW r \in Requests, ClientCall(c, r) PROVE TypeOK'
    <3>1. [kind |-> "call", from |-> c, req |-> r] \in CallMsg
      BY DEF CallMsg
    <3>2. inbox' \in Seq(CallMsg \cup GoneMsg)
      BY <2>1, <3>1 DEF ClientCall, TypeOK
    <3> QED
      BY <2>1, <3>2 DEF ClientCall, TypeOK, proxyVars
  <2>2. ASSUME NEW c \in Clients, ClientDisconnect(c) PROVE TypeOK'
    <3>1. inbox' \in Seq(CallMsg \cup GoneMsg)
      BY <2>2, SignalType DEF ClientDisconnect, TypeOK, Message
    <3> QED
      BY <2>2, <3>1 DEF ClientDisconnect, TypeOK, proxyVars
  <2>3. ASSUME NEW c \in Clients, ClientReleaseName(c) PROVE TypeOK'
    <3>1. inbox' \in Seq(CallMsg \cup GoneMsg)
      BY <2>3, SignalType DEF ClientReleaseName, TypeOK, Message
    <3> QED
      BY <2>3, <3>1 DEF ClientReleaseName, TypeOK, proxyVars
  <2>4. ASSUME HandleRegister PROVE TypeOK'
    <3> DEFINE c == inbox[1].from
               r == inbox[1].req
    <3>1. /\ inbox # <<>> /\ inbox' = Tail(inbox)
          /\ UNCHANGED <<running, evicting, sync, fromServer, alive, named, calls, server>>
          /\ c \in Clients /\ r \in Requests
      BY <2>4, HeadRequest DEF HandleRegister, Dispatch, IsRequest
    <3>2. r \in [op : Ops, mgr : Managers, path : Paths] /\ ForwardOf(c, r) \in Forward
      BY <3>1, ForwardType
    <3>3. CASE RegisterAgain(c, r)
      BY <3>1, <3>3 DEF RegisterAgain, Answer, TypeOK
    <3>4. CASE RegisterNew(c, r)
      <4>1. [id |-> nextId, owner |-> c, path |-> r.path] \in Entry
        BY <3>1, <3>2 DEF TypeOK, Entry
      <4> QED
        BY <3>1, <3>2, <3>4, <4>1 DEF RegisterNew, TypeOK
    <3>5. CASE RegisterRaw(c, r)
      BY <3>1, <3>2, <3>5 DEF RegisterRaw, ForwardCall, TypeOK
    <3> QED
      BY <2>4, <3>3, <3>4, <3>5 DEF HandleRegister
  <2>5. ASSUME HandleUnregister PROVE TypeOK'
    <3> DEFINE c == inbox[1].from
               r == inbox[1].req
    <3>1. /\ inbox # <<>> /\ inbox' = Tail(inbox)
          /\ UNCHANGED <<running, nextId, evicting, sync, fromServer, alive, named, calls, server>>
          /\ c \in Clients /\ r \in Requests
      BY <2>5, HeadRequest DEF HandleUnregister, Dispatch, IsRequest
    <3>2. r \in [op : Ops, mgr : Managers, path : Paths]
      BY <3>1
    <3>3. CASE UnregisterUnknown(c, r)
      BY <3>1, <3>3 DEF UnregisterUnknown, Answer, TypeOK
    <3>4. CASE UnregisterFound(c, r)
      <4>1. PICK e \in registry :
              /\ RemoveEntry(e)
              /\ toServer' = Append(toServer, ForwardOf(c, [r EXCEPT !.path = e.path]))
        BY <3>4 DEF UnregisterFound
      <4>2. e.path \in Paths
        BY DEF TypeOK, Entry
      <4>3. [r EXCEPT !.path = e.path] \in [op : Ops, mgr : Managers, path : Paths]
        BY <3>2, <4>2
      <4>4. ForwardOf(c, [r EXCEPT !.path = e.path]) \in Forward
        BY <3>1, <4>3, ForwardType
      <4> QED
        BY <3>1, <3>4, <4>1, <4>4 DEF UnregisterFound, RemoveEntry, TypeOK
    <3> QED
      BY <2>5, <3>3, <3>4 DEF HandleUnregister
  <2>6. ASSUME HandleOther PROVE TypeOK'
    <3>1. inbox # <<>> /\ inbox[1].from \in Clients /\ inbox[1].req \in Requests
      BY <2>6, HeadRequest DEF HandleOther, Dispatch, IsRequest
    <3>2. ForwardOf(inbox[1].from, inbox[1].req) \in Forward
      BY <3>1, ForwardType
    <3> QED
      BY <2>6, <3>1, <3>2 DEF HandleOther, ForwardCall, TypeOK
  <2>7. ASSUME HandleNameOwnerChanged PROVE TypeOK'
    <3>1. inbox # <<>> /\ inbox[1] \in CallMsg \cup GoneMsg /\ inbox[1].kind = "gone"
      BY <2>7 DEF HandleNameOwnerChanged, Dispatch, TypeOK
    <3>2. inbox[1].from \in Clients
      BY <3>1 DEF CallMsg, GoneMsg
    <3> QED
      BY <2>7, <3>1, <3>2 DEF HandleNameOwnerChanged, TypeOK, clientVars
  <2>8. ASSUME EvictCall PROVE TypeOK'
    <3>1. PICK e \in registry, m \in AgentManagers :
            /\ IsFirst(e, OwnedBy(evicting))
            /\ toServer' = Append(toServer,
                 [op |-> "unregister", mgr |-> m,
                  path |-> IF UseObjectPathOnUnregister THEN e.path ELSE NoPath,
                  from |-> evicting, sync |-> TRUE, live |-> TRUE])
      BY <2>8 DEF EvictCall
    <3>2. e.path \in Paths /\ evicting \in Clients
      BY <2>8 DEF EvictCall, TypeOK, Entry
    <3>3. toServer' \in Seq(Forward)
      BY <3>1, <3>2 DEF TypeOK, Forward, Ops
    <3> QED
      BY <2>8, <3>3 DEF EvictCall, TypeOK, clientVars
  <2>9. ASSUME EvictRemove PROVE TypeOK'
    BY <2>9 DEF EvictRemove, RemoveEntry, TypeOK, busVars, clientVars
  <2>10. ASSUME EvictEnd PROVE TypeOK'
    BY <2>10 DEF EvictEnd, TypeOK, busVars, clientVars
  <2>11. ASSUME HandleReply PROVE TypeOK'
    <3>1. fromServer # <<>> /\ fromServer' = Tail(fromServer)
      BY <2>11 DEF HandleReply, DispatchSource
    <3>2. fromServer' \in Seq(ReplyMsg \cup AgentMsg)
      BY <3>1 DEF TypeOK
    <3>3. pending' \in [Clients -> Int]
      <4>1. fromServer[1] \in ReplyMsg \cup AgentMsg /\ fromServer[1].kind = "reply"
        BY <2>11, <3>1 DEF HandleReply, TypeOK
      <4>2. fromServer[1].to \in Clients
        BY <4>1 DEF ReplyMsg, AgentMsg
      <4> QED
        BY <2>11, <4>2 DEF HandleReply, Answer, TypeOK
    <3> QED
      BY <2>11, <3>2, <3>3 DEF HandleReply, TypeOK, proxyVars
  <2>12. ASSUME HandleAgentCall PROVE TypeOK'
    <3>1. fromServer' \in Seq(ReplyMsg \cup AgentMsg)
      BY <2>12 DEF HandleAgentCall, DispatchSource, TypeOK
    <3> QED
      BY <2>12, <3>1 DEF HandleAgentCall, TypeOK, proxyVars, clientVars
  <2>13. ASSUME CallTimeout PROVE TypeOK'
    <3>1. PICK i \in 1..Len(toServer) :
            /\ toServer' = [toServer EXCEPT ![i].live = FALSE]
            /\ IF toServer[i].sync
               THEN sync' = "done" /\ UNCHANGED <<inbox, fromServer, pending>>
               ELSE /\ fromServer' = Append(fromServer,
                          [kind |-> "reply", to |-> toServer[i].from])
                    /\ UNCHANGED <<inbox, sync, pending>>
      BY <2>13 DEF CallTimeout
    <3>2. toServer[i] \in Forward
      BY DEF TypeOK
    <3>3. [toServer[i] EXCEPT !.live = FALSE] \in Forward
      BY <3>2 DEF Forward
    <3>4. toServer' \in Seq(Forward)
      BY <3>1, <3>3 DEF TypeOK
    <3>5. [kind |-> "reply", to |-> toServer[i].from] \in ReplyMsg
      BY <3>2 DEF Forward, ReplyMsg
    <3>6. fromServer' \in Seq(ReplyMsg \cup AgentMsg) /\ sync' \in {"idle", "sent", "done"}
      <4>1. CASE toServer[i].sync
        BY <3>1, <4>1 DEF TypeOK
      <4>2. CASE ~ toServer[i].sync
        <5>1. /\ sync' = sync
              /\ fromServer' = Append(fromServer, [kind |-> "reply", to |-> toServer[i].from])
          BY <3>1, <4>2
        <5> QED
          BY <3>5, <5>1 DEF TypeOK
      <4> QED
        BY <4>1, <4>2
    <3>7. UNCHANGED <<running, registry, nextId, exported, evicting, inbox, clientVars, server>>
      BY <2>13, <3>1 DEF CallTimeout, clientVars
    <3> QED
      BY <3>4, <3>6, <3>7 DEF TypeOK, clientVars
  <2>14. ASSUME Shutdown PROVE TypeOK'
    <3>1. \A S : <<>> \in Seq(S)
      OBVIOUS
    <3>2. /\ inbox' \in Seq(CallMsg \cup GoneMsg) /\ toServer' \in Seq(Forward)
          /\ fromServer' \in Seq(ReplyMsg \cup AgentMsg)
      BY <2>14, <3>1 DEF Shutdown
    <3> QED
      BY <2>14, <3>2 DEF Shutdown, TypeOK, clientVars
  <2>15. ASSUME ServerHandle PROVE TypeOK'
    <3> DEFINE m == toServer[1]
    <3>1. toServer # <<>> /\ toServer' = Tail(toServer) /\ m \in Forward
      BY <2>15 DEF ServerHandle, TypeOK
    <3>2. [kind |-> "reply", to |-> m.from] \in ReplyMsg
      BY <3>1 DEF Forward, ReplyMsg
    <3>3. fromServer' \in Seq(ReplyMsg \cup AgentMsg) /\ sync' \in {"idle", "sent", "done"}
      BY <2>15, <3>2 DEF ServerHandle, TypeOK
    <3>4. server' \subseteq Registration
      <4>1. CASE AcceptRegister(m)
        BY <3>1, <4>1 DEF AcceptRegister, TypeOK, Forward, Registration
      <4>2. CASE RefuseRegister(m) \/ AcceptUnregister(m) \/ UNCHANGED server
        BY <4>2 DEF RefuseRegister, AcceptUnregister, TypeOK
      <4> QED
        BY <2>15, <4>1, <4>2 DEF ServerHandle
    <3>5. toServer' \in Seq(Forward)
      BY <3>1 DEF TypeOK
    <3> QED
      BY <2>15, <3>3, <3>4, <3>5 DEF ServerHandle, TypeOK, clientVars
  <2>16. ASSUME ServerCallsAgent PROVE TypeOK'
    <3>1. PICK s \in server :
            fromServer' = Append(fromServer,
              [kind |-> "agent", path |-> s.path, for |-> s.for])
      BY <2>16 DEF ServerCallsAgent
    <3>2. [kind |-> "agent", path |-> s.path, for |-> s.for] \in AgentMsg
      BY DEF TypeOK, Registration, AgentMsg
    <3>3. fromServer' \in Seq(ReplyMsg \cup AgentMsg)
      BY <3>1, <3>2 DEF TypeOK
    <3> QED
      BY <2>16, <3>3 DEF ServerCallsAgent, TypeOK, proxyVars, clientVars
  <2>17. ASSUME UNCHANGED vars PROVE TypeOK'
    BY <2>17 DEF vars, proxyVars, busVars, clientVars, TypeOK
  <2> QED
    BY <2>1, <2>2, <2>3, <2>4, <2>5, <2>6, <2>7, <2>8, <2>9, <2>10, <2>11, <2>12,
       <2>13, <2>14, <2>15, <2>16, <2>17
       DEF Next, Client, TargetSide, SourceSide, Server
<1> QED
  BY <1>1, <1>2, PTL DEF Spec
-----------------------------------------------------------------------------
(* Every step changes the registry as one of three handlers does, or not.   *)
LEMMA RegistrySteps ==
  ASSUME [Next]_vars
  PROVE  \/ UNCHANGED <<registry, nextId, exported>>
         \/ HandleRegister /\ RegisterNew(inbox[1].from, inbox[1].req)
         \/ \E e \in registry : RemoveEntry(e) /\ nextId' = nextId
         \/ registry' = {} /\ exported' = {} /\ nextId' = nextId
<1>1. ASSUME Client \/ SourceSide \/ Server \/ CallTimeout \/ UNCHANGED vars
      PROVE  UNCHANGED <<registry, nextId, exported>>
  BY <1>1 DEF Client, ClientCall, ClientDisconnect, ClientReleaseName, SourceSide,
     HandleReply, HandleAgentCall, Server, ServerHandle, ServerCallsAgent, CallTimeout,
     vars, proxyVars
<1>2. ASSUME HandleRegister
      PROVE  \/ UNCHANGED <<registry, nextId, exported>>
             \/ RegisterNew(inbox[1].from, inbox[1].req)
  BY <1>2 DEF HandleRegister, RegisterAgain, RegisterRaw, ForwardCall
<1>3. ASSUME HandleUnregister
      PROVE  \/ UNCHANGED <<registry, nextId, exported>>
             \/ \E e \in registry : RemoveEntry(e) /\ nextId' = nextId
  BY <1>3 DEF HandleUnregister, UnregisterFound, UnregisterUnknown
<1>4. ASSUME HandleOther \/ HandleNameOwnerChanged \/ EvictCall \/ EvictEnd
      PROVE  UNCHANGED <<registry, nextId, exported>>
  BY <1>4 DEF HandleOther, ForwardCall, HandleNameOwnerChanged, EvictCall, EvictEnd
<1>5. ASSUME EvictRemove
      PROVE  \E e \in registry : RemoveEntry(e) /\ nextId' = nextId
  BY <1>5 DEF EvictRemove
<1>6. ASSUME Shutdown
      PROVE  registry' = {} /\ exported' = {} /\ nextId' = nextId
  BY <1>6 DEF Shutdown
<1> QED
  BY <1>1, <1>2, <1>3, <1>4, <1>5, <1>6 DEF Next, TargetSide

LEMMA RegistryInvStep == TypeOK /\ RegistryInv /\ [Next]_vars => RegistryInv'
<1> SUFFICES ASSUME TypeOK, RegistryInv, [Next]_vars PROVE RegistryInv'
  OBVIOUS
<1> USE DEF RegistryInv, RegistryMatchesExports, EntriesNumbered
<1>1. CASE UNCHANGED <<registry, nextId, exported>>
  BY <1>1
<1>2. CASE HandleRegister /\ RegisterNew(inbox[1].from, inbox[1].req)
  <2> DEFINE n == [id |-> nextId, owner |-> inbox[1].from, path |-> inbox[1].req.path]
  <2>1. /\ registry' = registry \cup {n}
        /\ exported' = exported \cup {n.path}
        /\ n.path \notin exported
        /\ nextId' = nextId + 1
    BY <1>2 DEF RegisterNew
  <2>2. nextId \in Nat /\ \A e \in registry : e.id \in Nat
    BY DEF TypeOK, Entry
  <2>3. exported' = {e.path : e \in registry'}
    BY <2>1
  <2>4. \A e \in registry' : e.id < nextId'
    BY <2>1, <2>2
  <2>5. \A e \in registry : e.path # n.path /\ e.id # n.id
    BY <2>1, <2>2
  <2>6. \A e, f \in registry' : e.path = f.path \/ e.id = f.id => e = f
    BY <2>1, <2>5
  <2> QED
    BY <2>3, <2>4, <2>6
<1>3. CASE \E e \in registry : RemoveEntry(e) /\ nextId' = nextId
  <2>1. PICK e \in registry : RemoveEntry(e) /\ nextId' = nextId
    BY <1>3
  <2>2. registry' = registry \ {e} /\ exported' = exported \ {e.path}
    BY <2>1 DEF RemoveEntry
  <2>3. \A f \in registry : f.path = e.path => f = e
    OBVIOUS
  <2>4. exported' = {f.path : f \in registry'}
    BY <2>2, <2>3
  <2> QED
    BY <2>1, <2>2, <2>4
<1>4. CASE registry' = {} /\ exported' = {} /\ nextId' = nextId
  BY <1>4
<1> QED
  BY <1>1, <1>2, <1>3, <1>4, RegistrySteps

(* The registry and the exported objects agree in every reachable state,    *)
(* one entry for one object, for any number of clients and paths.           *)
THEOREM RegistryMatches == Spec => []RegistryMatchesExports
<1>1. Init => RegistryInv
  BY DEF Init, RegistryInv, RegistryMatchesExports, EntriesNumbered
<1>2. RegistryInv => RegistryMatchesExports
  BY DEF RegistryInv
<1> QED
  BY <1>1, <1>2, TypeCorrect, RegistryInvStep, PTL DEF Spec
-----------------------------------------------------------------------------
(* How a step of the queue to the service affects what is being undone. *)

LEMMA UndoneAppend ==
  ASSUME TypeOK, NEW p, NEW m, toServer' = Append(toServer, m), server' = server,
         Undone(p), ~ IsFor(m, "register", p)
  PROVE  Undone(p)'
<1>1. /\ Len(toServer) \in Nat
      /\ Len(toServer') = Len(toServer) + 1
      /\ \A i \in 1..Len(toServer) : toServer'[i] = toServer[i]
      /\ toServer'[Len(toServer) + 1] = m
  BY DEF TypeOK
<1> QED
  BY <1>1 DEF Undone, IsFor

LEMMA UndoneByAppend ==
  ASSUME TypeOK, NEW p, NEW m, toServer' = Append(toServer, m), server' = server,
         IsFor(m, "unregister", p)
  PROVE  Undone(p)'
<1>1. /\ Len(toServer) \in Nat
      /\ Len(toServer') = Len(toServer) + 1
      /\ toServer'[Len(toServer) + 1] = m
  BY DEF TypeOK
<1>2. ~ IsFor(m, "register", p)
  BY DEF IsFor
<1>3. \A i \in 0..Len(toServer) :
        \E j \in 1..Len(toServer') : j > i /\ IsFor(toServer'[j], "unregister", p)
  BY <1>1
<1> QED
  BY <1>1, <1>2, <1>3 DEF Undone, IsFor

LEMMA UndoneServerHandle ==
  ASSUME TypeOK, NEW p, ServerHandle, Undone(p)
  PROVE  Undone(p)'
<1> DEFINE m == toServer[1]
<1> USE ConstantsAssumption
<1>1. /\ Len(toServer) \in Nat \ {0}
      /\ Len(toServer') = Len(toServer) - 1
      /\ \A i \in 1..Len(toServer') : toServer'[i] = toServer[i + 1]
  BY DEF TypeOK, ServerHandle
<1>2. ASSUME NEW i \in 1..Len(toServer),
             \E j \in 1..Len(toServer) : j > i /\ IsFor(toServer[j], "unregister", p)
      PROVE  \E j \in 1..Len(toServer') : j > i - 1 /\ IsFor(toServer'[j], "unregister", p)
  <2>1. PICK j \in 1..Len(toServer) : j > i /\ IsFor(toServer[j], "unregister", p)
    BY <1>2
  <2>2. j - 1 \in 1..Len(toServer') /\ j - 1 > i - 1 /\ toServer'[j - 1] = toServer[(j - 1) + 1]
    BY <1>1, <2>1
  <2> QED
    BY <2>1, <2>2
<1>3. ASSUME NEW i \in 1..Len(toServer'), IsFor(toServer'[i], "register", p)
      PROVE  \E j \in 1..Len(toServer') : j > i /\ IsFor(toServer'[j], "unregister", p)
  <2>1. i + 1 \in 1..Len(toServer) /\ IsFor(toServer[i + 1], "register", p)
    BY <1>1, <1>3
  <2>2. \E j \in 1..Len(toServer) : j > i + 1 /\ IsFor(toServer[j], "unregister", p)
    BY <2>1 DEF Undone
  <2> QED
    BY <2>1, <2>2, <1>2
<1>4. ASSUME NEW s \in server', s.mgr \in AgentManagers, s.path = p
      PROVE  \E j \in 1..Len(toServer') : j > 0 /\ IsFor(toServer'[j], "unregister", p)
  <2>1. SUFFICES \E j \in 1..Len(toServer) : j > 1 /\ IsFor(toServer[j], "unregister", p)
    BY <1>1, <1>2, <2>1
  <2>2. CASE s \in server
    <3>1. PICK j \in 1..Len(toServer) : j > 0 /\ IsFor(toServer[j], "unregister", p)
      BY <1>4, <2>2 DEF Undone
    <3>2. CASE j = 1
      <4>1. m.op = "unregister" /\ m.mgr = s.mgr /\ m.path = s.path
        BY <1>4, <3>1, <3>2 DEF IsFor
      <4>2. server' = {t \in server : t.mgr # m.mgr \/ t.path # m.path}
        BY <4>1 DEF ServerHandle, AcceptRegister, RefuseRegister, AcceptUnregister
      <4> QED
        BY <4>1, <4>2
    <3> QED
      BY <3>1, <3>2
  <2>3. CASE s \notin server
    <3>1. AcceptRegister(m) /\ s = [mgr |-> m.mgr, path |-> m.path, for |-> m.from]
      BY <2>3 DEF ServerHandle, AcceptRegister, RefuseRegister, AcceptUnregister
    <3>2. IsFor(m, "register", p)
      BY <1>4, <3>1 DEF AcceptRegister, IsFor
    <3> QED
      BY <1>1, <3>2 DEF Undone
  <2> QED
    BY <2>2, <2>3
<1> QED
  BY <1>3, <1>4 DEF Undone

LEMMA UndoneTimeout ==
  ASSUME TypeOK, NEW p, CallTimeout, Undone(p)
  PROVE  Undone(p)'
<1>1. PICK k \in 1..Len(toServer) : toServer' = [toServer EXCEPT ![k].live = FALSE]
  BY DEF CallTimeout
<1>2. \A i \in 1..Len(toServer) : toServer[i] \in Forward
  BY DEF TypeOK
<1>3. Len(toServer') = Len(toServer)
  BY <1>1 DEF TypeOK
<1>4. ASSUME NEW i \in 1..Len(toServer), NEW op
      PROVE  IsFor(toServer'[i], op, p) <=> IsFor(toServer[i], op, p)
  BY <1>1, <1>2 DEF TypeOK, IsFor, Forward
<1>5. server' = server
  BY DEF CallTimeout
<1> QED
  BY <1>3, <1>4, <1>5 DEF Undone

LEMMA UndoneSame ==
  ASSUME NEW p, UNCHANGED <<toServer, server>>, Undone(p)
  PROVE  Undone(p)'
BY DEF Undone, IsFor
-----------------------------------------------------------------------------
(* An asynchronous call appended to the queue leaves the blocking call of    *)
(* the eviction loop alone.                                                  *)
LEMMA OneBlockingAppend ==
  ASSUME TypeOK, OneBlockingCall, NEW m, ~ m.sync,
         toServer' = Append(toServer, m), UNCHANGED <<sync, evicting>>
  PROVE  OneBlockingCall'
<1>1. /\ Len(toServer) \in Nat
      /\ Len(toServer') = Len(toServer) + 1
      /\ \A i \in 1..Len(toServer) : toServer'[i] = toServer[i]
      /\ toServer'[Len(toServer) + 1] = m
  BY DEF TypeOK
<1> QED
  BY <1>1 DEF OneBlockingCall, LiveSync

(* Steps that change neither the registry nor the queue to the service. *)
LEMMA CleanupSame ==
  ASSUME CleanupInv, UNCHANGED <<registry, nextId, exported, toServer, server>>,
         \/ UNCHANGED <<sync, evicting>>
         \/ sync = "idle" /\ sync' = "idle"
  PROVE  OneBlockingCall' /\ EvictedIsUndone' /\ NoOrphanAtServer'
<1>1. NoOrphanAtServer'
  BY UndoneSame DEF CleanupInv, NoOrphanAtServer, RegisteredPaths
<1>2. OneBlockingCall'
  BY DEF CleanupInv, OneBlockingCall, LiveSync
<1>3. EvictedIsUndone'
  BY UndoneSame DEF CleanupInv, EvictedIsUndone, IsFirst, OwnedBy
<1> QED
  BY <1>1, <1>2, <1>3

(* A call the main loop forwards while no eviction is under way. *)
LEMMA CleanupForward ==
  ASSUME TypeOK, CleanupInv, sync = "idle", UNCHANGED <<sync, evicting, server>>,
         NEW m, ~ m.sync, toServer' = Append(toServer, m),
         \A p \in Paths : p \notin RegisteredPaths' =>
            \/ IsFor(m, "unregister", p)
            \/ p \notin RegisteredPaths /\ ~ IsFor(m, "register", p)
  PROVE  OneBlockingCall' /\ EvictedIsUndone' /\ NoOrphanAtServer'
<1>1. OneBlockingCall'
  BY OneBlockingAppend DEF CleanupInv
<1>2. EvictedIsUndone'
  BY DEF EvictedIsUndone
<1>3. ASSUME NEW p \in Paths, p \notin RegisteredPaths' PROVE Undone(p)'
  <2>1. CASE IsFor(m, "unregister", p)
    BY <2>1, UndoneByAppend
  <2>2. CASE p \notin RegisteredPaths /\ ~ IsFor(m, "register", p)
    <3>1. Undone(p)
      BY <2>2 DEF CleanupInv, NoOrphanAtServer
    <3> QED
      BY <2>2, <3>1, UndoneAppend
  <2> QED
    BY <1>3, <2>1, <2>2
<1>4. NoOrphanAtServer'
  BY <1>3 DEF NoOrphanAtServer
<1> QED
  BY <1>1, <1>2, <1>4

LEMMA CleanupStep ==
  ASSUME UseObjectPathOnUnregister
  PROVE  TypeOK /\ CleanupInv /\ [Next]_vars => CleanupInv'
<1> SUFFICES ASSUME TypeOK, CleanupInv, [Next]_vars PROVE CleanupInv'
  OBVIOUS
<1> USE ConstantsAssumption
<1>0. RegistryInv /\ RegistryInv'
  BY RegistryInvStep DEF CleanupInv
<1> DEFINE Goal == OneBlockingCall' /\ EvictedIsUndone' /\ NoOrphanAtServer'
<1>1. ASSUME Client PROVE Goal
  BY <1>1, CleanupSame DEF Client, ClientCall, ClientDisconnect, ClientReleaseName, proxyVars
<1>2. ASSUME SourceSide \/ ServerCallsAgent PROVE Goal
  BY <1>2, CleanupSame DEF SourceSide, HandleReply, HandleAgentCall, ServerCallsAgent, proxyVars
<1>3. ASSUME UNCHANGED vars PROVE Goal
  BY <1>3, CleanupSame DEF vars, proxyVars, busVars
<1>4. ASSUME evicting = NoClient PROVE sync = "idle"
  BY <1>4 DEF CleanupInv, OneBlockingCall
<1>5. ASSUME HandleRegister PROVE Goal
  <2> DEFINE c == inbox[1].from
             r == inbox[1].req
  <2>1. /\ sync = "idle" /\ UNCHANGED <<sync, evicting, server>>
        /\ c \in Clients /\ r \in [op : Ops, mgr : Managers, path : Paths]
        /\ r.op = "register"
    BY <1>4, <1>5, HeadRequest DEF HandleRegister, Dispatch, IsRequest
  <2>2. ~ ForwardOf(c, r).sync /\ ForwardOf(c, r).path = r.path /\ ForwardOf(c, r).mgr = r.mgr
    BY DEF ForwardOf
  <2>3. CASE RegisterAgain(c, r)
    BY <2>1, <2>3, CleanupSame DEF RegisterAgain
  <2>4. CASE RegisterNew(c, r)
    <3> DEFINE n == [id |-> nextId, owner |-> c, path |-> r.path]
    <3>a. registry' = registry \cup {n} /\ n.path = r.path
      BY <2>4 DEF RegisterNew
    <3> HIDE DEF n
    <3>1. RegisteredPaths' = RegisteredPaths \cup {r.path}
      BY <3>a DEF RegisteredPaths
    <3> QED
      BY <2>1, <2>2, <2>4, <3>1, CleanupForward DEF RegisterNew, IsFor
  <2>5. CASE RegisterRaw(c, r)
    <3>1. RegisteredPaths' = RegisteredPaths
      BY <2>5 DEF RegisterRaw, ForwardCall, RegisteredPaths
    <3>2. r.mgr \notin AgentManagers \/ r.path \in RegisteredPaths
      BY <1>0, <2>5 DEF RegisterRaw, RegistryInv, RegistryMatchesExports, RegisteredPaths
    <3> QED
      BY <2>1, <2>2, <2>5, <3>1, <3>2, CleanupForward DEF RegisterRaw, ForwardCall, IsFor
  <2> QED
    BY <1>5, <2>3, <2>4, <2>5 DEF HandleRegister
<1>6. ASSUME HandleUnregister PROVE Goal
  <2> DEFINE c == inbox[1].from
             r == inbox[1].req
  <2>1. /\ sync = "idle" /\ UNCHANGED <<sync, evicting, server, nextId>>
        /\ c \in Clients /\ r \in [op : Ops, mgr : Managers, path : Paths]
        /\ r.op = "unregister"
    BY <1>4, <1>6, HeadRequest DEF HandleUnregister, Dispatch, IsRequest
  <2>2. CASE UnregisterUnknown(c, r)
    BY <2>1, <2>2, CleanupSame DEF UnregisterUnknown
  <2>3. CASE UnregisterFound(c, r)
    <3>1. PICK e \in registry :
            /\ IsFirst(e, UnregisterMatches(c, r))
            /\ RemoveEntry(e)
            /\ toServer' = Append(toServer, ForwardOf(c, [r EXCEPT !.path = e.path]))
      BY <2>3 DEF UnregisterFound
    <3> DEFINE m == ForwardOf(c, [r EXCEPT !.path = e.path])
    <3>2. r.mgr \in AgentManagers
      BY <3>1 DEF IsFirst, UnregisterMatches
    <3>3. ~ m.sync /\ m.op = "unregister" /\ IsFor(m, "unregister", e.path)
      BY <2>1, <3>2 DEF ForwardOf, IsFor
    <3>4. \A p \in RegisteredPaths : p \in RegisteredPaths' \/ p = e.path
      BY <3>1 DEF RemoveEntry, RegisteredPaths
    <3>5. \A p : ~ IsFor(m, "register", p)
      BY <3>3 DEF IsFor
    <3> HIDE DEF m
    <3> QED
      BY <2>1, <3>1, <3>3, <3>4, <3>5, CleanupForward DEF m
  <2> QED
    BY <1>6, <2>2, <2>3 DEF HandleUnregister
<1>7. ASSUME HandleOther PROVE Goal
  <2> DEFINE m == ForwardOf(inbox[1].from, inbox[1].req)
  <2>1. /\ sync = "idle" /\ UNCHANGED <<sync, evicting, server, registry>>
        /\ toServer' = Append(toServer, m)
        /\ ~ m.sync /\ m.op = "other"
    BY <1>4, <1>7 DEF HandleOther, Dispatch, IsRequest, ForwardCall, ForwardOf
  <2>2. RegisteredPaths' = RegisteredPaths /\ \A p : ~ IsFor(m, "register", p)
    BY <2>1 DEF RegisteredPaths, IsFor
  <2> QED
    BY <2>1, <2>2, CleanupForward
<1>8. ASSUME HandleNameOwnerChanged \/ EvictEnd PROVE Goal
  BY <1>4, <1>8, CleanupSame DEF HandleNameOwnerChanged, Dispatch, EvictEnd, busVars
<1>9. ASSUME EvictCall PROVE Goal
  <2>1. PICK e \in registry, g \in AgentManagers :
          /\ IsFirst(e, OwnedBy(evicting))
          /\ toServer' = Append(toServer,
               [op |-> "unregister", mgr |-> g, path |-> e.path,
                from |-> evicting, sync |-> TRUE, live |-> TRUE])
    BY <1>9 DEF EvictCall
  <2> DEFINE m == [op |-> "unregister", mgr |-> g, path |-> e.path,
                   from |-> evicting, sync |-> TRUE, live |-> TRUE]
  <2>2. /\ evicting # NoClient /\ sync = "idle" /\ sync' = "sent"
        /\ UNCHANGED <<registry, nextId, exported, evicting, server>>
    BY <1>9 DEF EvictCall
  <2>3. /\ Len(toServer) \in Nat
        /\ Len(toServer') = Len(toServer) + 1
        /\ \A i \in 1..Len(toServer) : toServer'[i] = toServer[i]
        /\ toServer'[Len(toServer) + 1] = m
    BY <2>1 DEF TypeOK
  <2>4. \A i \in 1..Len(toServer) : ~ LiveSync(i)
    BY <2>2 DEF CleanupInv, OneBlockingCall
  <2>5. OneBlockingCall'
    BY <2>2, <2>3, <2>4 DEF OneBlockingCall, LiveSync
  <2>6. IsFor(m, "unregister", e.path) /\ \A p : ~ IsFor(m, "register", p)
    BY DEF IsFor
  <2>7. Undone(e.path)'
    BY <2>1, <2>2, <2>6, UndoneByAppend
  <2>8. ASSUME NEW f \in registry', IsFirst(f, OwnedBy(evicting))' PROVE f = e
    <3>1. IsFirst(f, OwnedBy(evicting))
      BY <2>2, <2>8 DEF IsFirst, OwnedBy
    <3>2. f.id = e.id
      BY <2>1, <2>2, <3>1 DEF IsFirst, OwnedBy, TypeOK, Entry
    <3> QED
      BY <1>0, <2>2, <3>2 DEF RegistryInv, RegistryMatchesExports
  <2>9. EvictedIsUndone'
    BY <2>7, <2>8 DEF EvictedIsUndone
  <2>10. ASSUME NEW p \in Paths, p \notin RegisteredPaths' PROVE Undone(p)'
    <3>1. Undone(p)
      BY <2>2, <2>10 DEF CleanupInv, NoOrphanAtServer, RegisteredPaths
    <3> QED
      BY <2>1, <2>2, <2>6, <3>1, UndoneAppend
  <2> QED
    BY <2>5, <2>9, <2>10 DEF NoOrphanAtServer
<1>10. ASSUME EvictRemove PROVE Goal
  <2>1. PICK e \in registry : IsFirst(e, OwnedBy(evicting)) /\ RemoveEntry(e)
    BY <1>10 DEF EvictRemove
  <2>2. sync = "done" /\ sync' = "idle" /\ UNCHANGED <<evicting, toServer, server>>
    BY <1>10 DEF EvictRemove, busVars
  <2>3. Undone(e.path)
    BY <2>1, <2>2 DEF CleanupInv, EvictedIsUndone
  <2>4. ASSUME NEW p \in Paths, p \notin RegisteredPaths' PROVE Undone(p)'
    <3>1. p \notin RegisteredPaths \/ p = e.path
      BY <2>1, <2>4 DEF RemoveEntry, RegisteredPaths
    <3>2. Undone(p)
      BY <2>3, <3>1 DEF CleanupInv, NoOrphanAtServer
    <3> QED
      BY <2>2, <3>2, UndoneSame
  <2>5. OneBlockingCall'
    BY <2>2 DEF CleanupInv, OneBlockingCall, LiveSync
  <2> QED
    BY <2>2, <2>4, <2>5 DEF NoOrphanAtServer, EvictedIsUndone
<1>11. ASSUME ServerHandle PROVE Goal
  <2>1. UNCHANGED <<registry, evicting>>
    BY <1>11 DEF ServerHandle
  <2>2. /\ Len(toServer) \in Nat \ {0}
        /\ Len(toServer') = Len(toServer) - 1
        /\ \A i \in 1..Len(toServer') : toServer'[i] = toServer[i + 1]
    BY <1>11 DEF TypeOK, ServerHandle
  <2>3. sync' = IF LiveSync(1) THEN "done" ELSE sync
    BY <1>11 DEF ServerHandle, LiveSync
  <2>4. \A i \in 1..Len(toServer') : i + 1 \in 1..Len(toServer) /\ (LiveSync(i)' <=> LiveSync(i + 1))
    BY <2>2 DEF LiveSync
  <2>5. sync' # "idle" => sync # "idle"
    BY <2>2, <2>3 DEF CleanupInv, OneBlockingCall
  <2>6. OneBlockingCall'
    <3>1. ASSUME NEW i \in 1..Len(toServer'), LiveSync(i)' PROVE sync' = "sent"
      <4>1. i + 1 \in 1..Len(toServer) /\ LiveSync(i + 1) /\ i + 1 # 1
        BY <2>4, <3>1
      <4> QED
        BY <2>2, <2>3, <4>1 DEF CleanupInv, OneBlockingCall
    <3>2. ASSUME NEW i \in 1..Len(toServer'), NEW j \in 1..Len(toServer'), LiveSync(i)', LiveSync(j)'
          PROVE  i = j
      <4>1. i + 1 = j + 1
        BY <2>4, <3>2 DEF CleanupInv, OneBlockingCall
      <4> QED
        BY <4>1
    <3> QED
      BY <2>1, <2>5, <3>1, <3>2 DEF CleanupInv, OneBlockingCall
  <2>7. EvictedIsUndone'
    BY <1>11, <2>1, <2>5, UndoneServerHandle DEF CleanupInv, EvictedIsUndone, IsFirst, OwnedBy
  <2>8. NoOrphanAtServer'
    BY <1>11, <2>1, UndoneServerHandle DEF CleanupInv, NoOrphanAtServer, RegisteredPaths
  <2> QED
    BY <2>6, <2>7, <2>8
<1>12. ASSUME CallTimeout PROVE Goal
  <2>1. PICK k \in 1..Len(toServer) :
          /\ toServer' = [toServer EXCEPT ![k].live = FALSE]
          /\ sync' = IF toServer[k].sync THEN "done" ELSE sync
          /\ toServer[k].live
    BY <1>12 DEF CallTimeout
  <2>2. UNCHANGED <<registry, evicting>>
    BY <1>12 DEF CallTimeout
  <2>3. \A i \in 1..Len(toServer) : toServer[i] \in Forward
    BY DEF TypeOK
  <2>4. Len(toServer') = Len(toServer)
    BY <2>1 DEF TypeOK
  <2>5. \A i \in 1..Len(toServer) : LiveSync(i)' => LiveSync(i) /\ i # k
    BY <2>1, <2>3 DEF LiveSync, TypeOK, Forward
  <2>6. sync' = IF LiveSync(k) THEN "done" ELSE sync
    BY <2>1 DEF LiveSync
  <2>7. sync' # "idle" => sync # "idle"
    BY <2>6 DEF CleanupInv, OneBlockingCall
  <2>8. OneBlockingCall'
    BY <2>2, <2>4, <2>5, <2>6, <2>7 DEF CleanupInv, OneBlockingCall
  <2>9. EvictedIsUndone'
    BY <1>12, <2>2, <2>7, UndoneTimeout DEF CleanupInv, EvictedIsUndone, IsFirst, OwnedBy
  <2>10. NoOrphanAtServer'
    BY <1>12, <2>2, UndoneTimeout DEF CleanupInv, NoOrphanAtServer, RegisteredPaths
  <2> QED
    BY <2>8, <2>9, <2>10
<1>13. ASSUME Shutdown PROVE Goal
  <2>1. /\ toServer' = <<>> /\ server' = {} /\ UNCHANGED <<sync, evicting>>
        /\ sync = "idle"
    BY <1>4, <1>13 DEF Shutdown
  <2> QED
    BY <2>1 DEF OneBlockingCall, LiveSync, EvictedIsUndone, NoOrphanAtServer, Undone
<1> QED
  BY <1>0, <1>1, <1>2, <1>3, <1>5, <1>6, <1>7, <1>8, <1>9, <1>10, <1>11, <1>12, <1>13
     DEF CleanupInv, Next, TargetSide, Server

(* With a rule that passes the object path to Unregister, as BlueZ's does,  *)
(* the service never keeps an agent the proxy no longer routes, whatever    *)
(* the order of registrations, removals, evictions, refusals and timeouts.  *)
THEOREM NoOrphan ==
  ASSUME UseObjectPathOnUnregister
  PROVE  Spec => []NoOrphanAtServer
<1>1. Init => CleanupInv
  BY DEF Init, CleanupInv, RegistryInv, RegistryMatchesExports, EntriesNumbered,
     OneBlockingCall, EvictedIsUndone, NoOrphanAtServer, Undone
<1>2. TypeOK /\ CleanupInv /\ [Next]_vars => CleanupInv'
  BY CleanupStep
<1>3. CleanupInv => NoOrphanAtServer
  BY DEF CleanupInv
<1> QED
  BY <1>1, <1>2, <1>3, TypeCorrect, PTL DEF Spec
-----------------------------------------------------------------------------
(* How many members of S a queue holds, as the queue changes. *)
One(m, S) == IF m \in S THEN 1 ELSE 0

LEMMA CountType ==
  ASSUME NEW T, NEW q \in Seq(T), NEW S
  PROVE  Count(q, S) \in Nat /\ IsFiniteSet({i \in 1..Len(q) : q[i] \in S})
<1> DEFINE I == {i \in 1..Len(q) : q[i] \in S}
<1>1. IsFiniteSet(1..Len(q)) /\ I \in SUBSET (1..Len(q))
  BY FS_Interval
<1>2. IsFiniteSet(I)
  BY <1>1, FS_Subset, Zenon
<1> QED
  BY <1>2, FS_CardinalityType, Zenon DEF Count

LEMMA CountEmpty ==
  ASSUME NEW S
  PROVE  Count(<<>>, S) = 0
<1>1. {i \in 1..Len(<<>>) : <<>>[i] \in S} = {}
  OBVIOUS
<1> QED
  BY <1>1, FS_EmptySet, Zenon DEF Count

LEMMA CountAppend ==
  ASSUME NEW T, NEW q \in Seq(T), NEW m \in T, NEW S
  PROVE  Count(Append(q, m), S) = Count(q, S) + One(m, S)
<1> DEFINE r == Append(q, m)
           n == Len(q) + 1
           I == {i \in 1..Len(q) : q[i] \in S}
           J == {i \in 1..Len(r) : r[i] \in S}
<1>1. /\ Len(q) \in Nat /\ Len(r) = n /\ r[n] = m
      /\ \A i \in 1..Len(q) : r[i] = q[i]
  OBVIOUS
<1>2. IsFiniteSet(I) /\ Cardinality(I) \in Nat
  BY CountType DEF Count
<1>3. Cardinality(I \cup {n}) = IF n \in I THEN Cardinality(I) ELSE Cardinality(I) + 1
  BY <1>2, FS_AddElement, Zenon
<1>4. J = IF m \in S THEN I \cup {n} ELSE I
  <2> HIDE DEF r
  <2> QED
    BY <1>1
<1>5. n \notin I
  BY <1>1
<1> HIDE DEF I, J
<1>6. Cardinality(J) = Cardinality(I) + One(m, S)
  BY <1>2, <1>3, <1>4, <1>5 DEF One
<1> QED
  BY <1>6 DEF I, J, Count

LEMMA CountTail ==
  ASSUME NEW T, NEW q \in Seq(T), q # <<>>, NEW S
  PROVE  Count(Tail(q), S) = Count(q, S) - One(q[1], S)
<1> DEFINE r == Tail(q)
           I == {i \in 1..Len(q) : q[i] \in S}
           J == {i \in 1..Len(r) : r[i] \in S}
           K == I \ {1}
           f == [i \in J |-> i + 1]
<1>1. /\ Len(q) \in Nat \ {0} /\ Len(r) = Len(q) - 1 /\ r \in Seq(T)
      /\ \A i \in 1..Len(r) : r[i] = q[i + 1]
  OBVIOUS
<1>2. IsFiniteSet(I) /\ Cardinality(I) \in Nat
  BY CountType DEF Count
<1>3. IsFiniteSet(J)
  BY <1>1, CountType
<1>4. Cardinality(K) = IF 1 \in I THEN Cardinality(I) - 1 ELSE Cardinality(I)
  BY <1>2, FS_RemoveElement, Zenon
<1>5. 1 \in I <=> q[1] \in S
  BY <1>1
<1> HIDE DEF r
<1>6. f \in [J -> K]
  BY <1>1
<1>7. \A i, j \in J : f[i] = f[j] => i = j
  BY <1>1
<1>8. \A k \in K : k - 1 \in J /\ f[k - 1] = k
  <2> SUFFICES ASSUME NEW k \in K PROVE k - 1 \in J /\ f[k - 1] = k
    OBVIOUS
  <2>1. k \in 1..Len(q) /\ k # 1 /\ q[k] \in S
    OBVIOUS
  <2>2. k - 1 \in 1..Len(r) /\ r[k - 1] = q[k]
    BY <1>1, <2>1
  <2> QED
    BY <2>1, <2>2
<1> HIDE DEF I, J, K, f
<1>9. f \in Bijection(J, K)
  BY <1>6, <1>7, <1>8 DEF Bijection, Injection, Surjection, IsInjective
<1>10. Cardinality(K) = Cardinality(J)
  BY <1>3, <1>9, FS_Bijection DEF ExistsBijection
<1>11. Cardinality(J) = Cardinality(I) - One(q[1], S)
  BY <1>2, <1>4, <1>5, <1>10 DEF One
<1> QED
  BY <1>11 DEF I, J, r, Count

LEMMA CountReplace ==
  ASSUME NEW T, NEW q \in Seq(T), NEW k \in 1..Len(q), NEW S, NEW r, Len(r) = Len(q),
         r[k] \notin S, \A i \in 1..Len(q) : i # k => r[i] = q[i]
  PROVE  Count(r, S) = Count(q, S) - One(q[k], S)
<1> DEFINE I == {i \in 1..Len(q) : q[i] \in S}
           J == {i \in 1..Len(r) : r[i] \in S}
<1>1. IsFiniteSet(I) /\ Cardinality(I) \in Nat
  BY CountType DEF Count
<1>2. Cardinality(I \ {k}) = IF k \in I THEN Cardinality(I) - 1 ELSE Cardinality(I)
  BY <1>1, FS_RemoveElement, Zenon
<1>3. J = I \ {k} /\ (k \in I <=> q[k] \in S)
  OBVIOUS
<1> HIDE DEF I, J
<1>4. Cardinality(J) = Cardinality(I) - One(q[k], S)
  BY <1>1, <1>2, <1>3 DEF One
<1> QED
  BY <1>4 DEF I, J, Count

(* Which client a message counts for. *)
Own(c, d) == IF c = d THEN 1 ELSE 0

LEMMA CountsFor ==
  ASSUME NEW d
  PROVE  /\ \A m \in CallMsg : One(m, QueuedCalls(d)) = Own(m.from, d)
         /\ \A m \in GoneMsg : One(m, QueuedCalls(d)) = 0
         /\ \A m \in Forward : One(m, ForwardedCalls(d)) = IF m.live /\ ~ m.sync THEN Own(m.from, d) ELSE 0
         /\ \A m \in ReplyMsg : One(m, Replies(d)) = Own(m.to, d)
         /\ \A m \in AgentMsg : One(m, Replies(d)) = 0
<1>1. \A m \in CallMsg : One(m, QueuedCalls(d)) = Own(m.from, d)
  BY DEF One, Own, QueuedCalls
<1>2. \A m \in GoneMsg : m \notin CallMsg
  BY DEF GoneMsg, CallMsg
<1>3. \A m \in Forward : One(m, ForwardedCalls(d)) = IF m.live /\ ~ m.sync THEN Own(m.from, d) ELSE 0
  BY DEF One, Own, ForwardedCalls
<1>4. \A m \in ReplyMsg : One(m, Replies(d)) = Own(m.to, d)
  BY DEF One, Own, Replies
<1>5. \A m \in AgentMsg : m \notin ReplyMsg
  BY DEF AgentMsg, ReplyMsg
<1> QED
  BY <1>1, <1>2, <1>3, <1>4, <1>5 DEF One, QueuedCalls, Replies

Queues == /\ inbox \in Seq(CallMsg \cup GoneMsg)
          /\ toServer \in Seq(Forward) /\ fromServer \in Seq(ReplyMsg \cup AgentMsg)

LEMMA CountsType ==
  ASSUME TypeOK, NEW d \in Clients
  PROVE  /\ Queues /\ pending[d] \in Int
         /\ Count(inbox, QueuedCalls(d)) \in Nat
         /\ Count(toServer, ForwardedCalls(d)) \in Nat
         /\ Count(fromServer, Replies(d)) \in Nat
<1>1. Queues /\ pending[d] \in Int
  BY DEF TypeOK, Queues
<1> QED
  BY <1>1, CountType DEF Queues

(* A call or a signal taken off the inbox. *)
LEMMA Taken ==
  ASSUME TypeOK, inbox # <<>>, inbox' = Tail(inbox), NEW d \in Clients
  PROVE  Count(inbox', QueuedCalls(d)) =
           Count(inbox, QueuedCalls(d)) - IF inbox[1].kind = "call" THEN Own(inbox[1].from, d) ELSE 0
<1>1. inbox \in Seq(CallMsg \cup GoneMsg) /\ inbox[1] \in CallMsg \cup GoneMsg
  BY DEF TypeOK
<1>2. Count(inbox', QueuedCalls(d)) = Count(inbox, QueuedCalls(d)) - One(inbox[1], QueuedCalls(d))
  BY <1>1, CountTail
<1>3. CASE inbox[1] \in CallMsg
  <2>1. inbox[1].kind = "call"
    BY <1>3 DEF CallMsg
  <2> QED
    BY <1>2, <1>3, <2>1, CountsFor
<1>4. CASE inbox[1] \in GoneMsg
  <2>1. inbox[1].kind # "call"
    BY <1>4 DEF GoneMsg
  <2> QED
    BY <1>2, <1>4, <2>1, CountsFor
<1> QED
  BY <1>1, <1>3, <1>4

(* A call sent to the service. *)
LEMMA Passed ==
  ASSUME TypeOK, NEW m \in Forward, m.live, toServer' = Append(toServer, m), NEW d \in Clients
  PROVE  Count(toServer', ForwardedCalls(d)) =
           Count(toServer, ForwardedCalls(d)) + IF m.sync THEN 0 ELSE Own(m.from, d)
<1>1. toServer \in Seq(Forward)
  BY DEF TypeOK
<1>2. Count(toServer', ForwardedCalls(d)) = Count(toServer, ForwardedCalls(d)) + One(m, ForwardedCalls(d))
  BY <1>1, CountAppend
<1>3. m.sync \in BOOLEAN
  BY DEF Forward
<1> QED
  BY <1>2, <1>3, CountsFor

(* An answer on its way back. *)
LEMMA Answered ==
  ASSUME TypeOK, NEW c \in Clients, NEW d \in Clients,
         fromServer' = Append(fromServer, [kind |-> "reply", to |-> c])
  PROVE  Count(fromServer', Replies(d)) = Count(fromServer, Replies(d)) + Own(c, d)
<1> DEFINE m == [kind |-> "reply", to |-> c]
<1>1. fromServer \in Seq(ReplyMsg \cup AgentMsg) /\ m \in ReplyMsg /\ m.to = c
  BY DEF TypeOK, ReplyMsg
<1> HIDE DEF m
<1>2. Count(fromServer', Replies(d)) = Count(fromServer, Replies(d)) + One(m, Replies(d))
  BY <1>1, CountAppend DEF m
<1> QED
  BY <1>1, <1>2, CountsFor

LEMMA PendingAnswer ==
  ASSUME TypeOK, NEW c \in Clients, Answer(c), NEW d \in Clients
  PROVE  pending'[d] = pending[d] - Own(c, d)
<1>1. pending' = [pending EXCEPT ![c] = pending[c] - 1] /\ pending \in [Clients -> Int]
  BY DEF Answer, TypeOK
<1> QED
  BY <1>1 DEF Own

(* The step of the request handlers: the call is answered or passed on. *)
LEMMA HandledOnce ==
  ASSUME TypeOK, Dispatch, inbox[1].kind = "call", inbox' = Tail(inbox), UNCHANGED fromServer,
         \/ Answer(inbox[1].from) /\ UNCHANGED toServer
         \/ /\ UNCHANGED pending
            /\ \E m \in Forward : /\ m.live /\ ~ m.sync /\ m.from = inbox[1].from
                                  /\ toServer' = Append(toServer, m),
         NEW d \in Clients, pending[d] = InFlight(d)
  PROVE  pending'[d] = InFlight(d)'
<1>1. inbox # <<>> /\ inbox[1].from \in Clients
  BY HeadRequest DEF Dispatch
<1>2. Count(inbox', QueuedCalls(d)) = Count(inbox, QueuedCalls(d)) - Own(inbox[1].from, d)
  BY <1>1, Taken
<1>3. Own(inbox[1].from, d) \in Int
  BY DEF Own
<1>4. /\ Count(inbox, QueuedCalls(d)) \in Nat /\ Count(toServer, ForwardedCalls(d)) \in Nat
      /\ Count(fromServer, Replies(d)) \in Nat /\ pending[d] \in Int
  BY CountsType
<1>5. CASE Answer(inbox[1].from) /\ UNCHANGED toServer
  <2>1. pending'[d] = pending[d] - Own(inbox[1].from, d)
    BY <1>1, <1>5, PendingAnswer
  <2> QED
    BY <1>2, <1>3, <1>4, <1>5, <2>1 DEF InFlight
<1>6. CASE /\ UNCHANGED pending
           /\ \E m \in Forward : /\ m.live /\ ~ m.sync /\ m.from = inbox[1].from
                                 /\ toServer' = Append(toServer, m)
  <2>1. Count(toServer', ForwardedCalls(d)) = Count(toServer, ForwardedCalls(d)) + Own(inbox[1].from, d)
    BY <1>6, Passed
  <2> QED
    BY <1>2, <1>3, <1>4, <1>6, <2>1 DEF InFlight
<1> QED
  BY <1>5, <1>6

(* What the request handlers do with a call. *)
LEMMA Handlers ==
  ASSUME TypeOK, HandleRegister \/ HandleUnregister \/ HandleOther
  PROVE  /\ Dispatch /\ inbox[1].kind = "call" /\ inbox' = Tail(inbox) /\ UNCHANGED fromServer
         /\ \/ Answer(inbox[1].from) /\ UNCHANGED toServer
            \/ /\ UNCHANGED pending
               /\ \E m \in Forward : /\ m.live /\ ~ m.sync /\ m.from = inbox[1].from
                                     /\ toServer' = Append(toServer, m)
<1> DEFINE c == inbox[1].from
           r == inbox[1].req
<1>1. Dispatch /\ inbox[1].kind = "call" /\ inbox' = Tail(inbox) /\ UNCHANGED fromServer
  BY DEF HandleRegister, HandleUnregister, HandleOther, IsRequest
<1>2. c \in Clients /\ r \in [op : Ops, mgr : Managers, path : Paths]
  BY <1>1, HeadRequest, ConstantsAssumption DEF Dispatch
<1>3. \/ Answer(c) /\ UNCHANGED toServer
      \/ /\ UNCHANGED pending
         /\ \E x \in [op : Ops, mgr : Managers, path : Paths] : toServer' = Append(toServer, ForwardOf(c, x))
  <2>1. CASE HandleRegister
    BY <1>2, <2>1, Zenon DEF HandleRegister, RegisterAgain, RegisterNew, RegisterRaw, ForwardCall
  <2>2. CASE HandleOther
    BY <1>2, <2>2, Zenon DEF HandleOther, ForwardCall
  <2>3. CASE HandleUnregister
    <3>1. CASE UnregisterUnknown(c, r)
      BY <3>1, Zenon DEF UnregisterUnknown
    <3>2. CASE UnregisterFound(c, r)
      <4>1. PICK e \in registry : toServer' = Append(toServer, ForwardOf(c, [r EXCEPT !.path = e.path]))
        BY <3>2, Zenon DEF UnregisterFound
      <4>2. e.path \in Paths
        BY DEF TypeOK, Entry
      <4>3. [r EXCEPT !.path = e.path] \in [op : Ops, mgr : Managers, path : Paths]
        BY <1>2, <4>2
      <4>4. UNCHANGED pending
        BY <3>2, Zenon DEF UnregisterFound
      <4> QED
        BY <4>1, <4>3, <4>4, Zenon
    <3> QED
      BY <2>3, <3>1, <3>2, Zenon DEF HandleUnregister
  <2> QED
    BY <2>1, <2>2, <2>3
<1>4. \A x \in [op : Ops, mgr : Managers, path : Paths] :
        /\ ForwardOf(c, x) \in Forward /\ ForwardOf(c, x).live /\ ~ ForwardOf(c, x).sync
        /\ ForwardOf(c, x).from = c
  BY <1>2, ForwardType DEF ForwardOf
<1> QED
  BY <1>1, <1>3, <1>4, Zenon

(* Signals, evictions and callbacks count for no call. *)
LEMMA NoCall ==
  ASSUME TypeOK, NEW d \in Clients, pending[d] = InFlight(d), UNCHANGED pending,
         Count(inbox', QueuedCalls(d)) = Count(inbox, QueuedCalls(d)),
         Count(toServer', ForwardedCalls(d)) = Count(toServer, ForwardedCalls(d)),
         Count(fromServer', Replies(d)) = Count(fromServer, Replies(d))
  PROVE  pending'[d] = InFlight(d)'
BY DEF InFlight

LEMMA SignalIsNoCall ==
  ASSUME TypeOK, NEW c \in Clients, inbox' = inbox \o NameOwnerSignal(c), NEW d \in Clients
  PROVE  Count(inbox', QueuedCalls(d)) = Count(inbox, QueuedCalls(d))
<1> DEFINE m == [kind |-> "gone", from |-> c, subs |-> {e.id : e \in registry}]
<1>1. inbox \in Seq(CallMsg \cup GoneMsg)
  BY DEF TypeOK
<1>2. {e.id : e \in registry} \in SUBSET Nat
  BY DEF TypeOK, Entry
<1>3. m \in GoneMsg
  BY <1>2 DEF GoneMsg
<1>4. inbox' = inbox \/ inbox' = Append(inbox, m)
  <2>1. NameOwnerSignal(c) = <<>> \/ NameOwnerSignal(c) = <<m>>
    BY Zenon DEF NameOwnerSignal
  <2> HIDE DEF m
  <2>2. inbox \o <<>> = inbox /\ inbox \o <<m>> = Append(inbox, m)
    BY <1>1, <1>3
  <2> QED
    BY <2>1, <2>2
<1> HIDE DEF m
<1>5. Count(Append(inbox, m), QueuedCalls(d)) = Count(inbox, QueuedCalls(d)) + One(m, QueuedCalls(d))
  BY <1>1, <1>3, CountAppend
<1>6. One(m, QueuedCalls(d)) = 0 /\ Count(inbox, QueuedCalls(d)) \in Nat
  BY <1>3, CountsFor, CountsType
<1>7. Count(Append(inbox, m), QueuedCalls(d)) = Count(inbox, QueuedCalls(d))
  BY <1>5, <1>6
<1> QED
  BY <1>4, <1>7, Zenon

LEMMA AnsweredStep == TypeOK /\ AnsweredExactlyOnce /\ [Next]_vars => AnsweredExactlyOnce'
<1> SUFFICES ASSUME TypeOK, AnsweredExactlyOnce, [Next]_vars, running', NEW d \in Clients
             PROVE  pending'[d] = InFlight(d)'
  BY DEF AnsweredExactlyOnce
<1> USE ConstantsAssumption
<1>0. running /\ ~ Shutdown
  BY DEF Next, Client, ClientCall, ClientDisconnect, ClientReleaseName, TargetSide, HandleRegister,
     HandleUnregister, HandleOther, HandleNameOwnerChanged, EvictCall, EvictRemove, EvictEnd, SourceSide,
     HandleReply, HandleAgentCall, CallTimeout, Shutdown, Server, ServerHandle, ServerCallsAgent,
     vars, proxyVars
<1>1. pending[d] = InFlight(d)
  BY <1>0 DEF AnsweredExactlyOnce
<1>2. /\ Count(inbox, QueuedCalls(d)) \in Nat /\ Count(toServer, ForwardedCalls(d)) \in Nat
      /\ Count(fromServer, Replies(d)) \in Nat /\ pending[d] \in Int
      /\ inbox \in Seq(CallMsg \cup GoneMsg) /\ toServer \in Seq(Forward)
      /\ fromServer \in Seq(ReplyMsg \cup AgentMsg)
  BY CountsType DEF Queues
<1>3. ASSUME NEW c \in Clients, NEW r \in Requests, ClientCall(c, r) PROVE pending'[d] = InFlight(d)'
  <2> DEFINE m == [kind |-> "call", from |-> c, req |-> r]
  <2>1. inbox' = Append(inbox, m) /\ pending' = [pending EXCEPT ![c] = pending[c] + 1]
        /\ UNCHANGED <<toServer, fromServer>>
    BY <1>3 DEF ClientCall
  <2>2. m \in CallMsg /\ m.from = c
    BY DEF CallMsg
  <2> HIDE DEF m
  <2>3. Count(inbox', QueuedCalls(d)) = Count(inbox, QueuedCalls(d)) + Own(c, d)
    <3>1. Count(inbox', QueuedCalls(d)) = Count(inbox, QueuedCalls(d)) + One(m, QueuedCalls(d))
      BY <1>2, <2>1, <2>2, CountAppend
    <3> QED
      BY <2>2, <3>1, CountsFor
  <2>4. pending'[d] = pending[d] + Own(c, d)
    BY <1>2, <2>1 DEF TypeOK, Own
  <2>5. Own(c, d) \in Nat
    BY DEF Own
  <2> QED
    BY <1>1, <1>2, <2>1, <2>3, <2>4, <2>5 DEF InFlight
<1>4. ASSUME NEW c \in Clients, ClientDisconnect(c) \/ ClientReleaseName(c)
      PROVE  pending'[d] = InFlight(d)'
  <2>1. inbox' = inbox \o NameOwnerSignal(c) /\ UNCHANGED <<toServer, fromServer, pending>>
    BY <1>4 DEF ClientDisconnect, ClientReleaseName
  <2> QED
    BY <1>1, <2>1, SignalIsNoCall, NoCall
<1>5. CASE HandleRegister \/ HandleUnregister \/ HandleOther
  BY <1>1, <1>5, Handlers, HandledOnce
<1>6. CASE HandleNameOwnerChanged
  <2>1. inbox # <<>> /\ inbox[1].kind = "gone" /\ inbox' = Tail(inbox)
        /\ UNCHANGED <<toServer, fromServer, pending>>
    BY <1>6 DEF HandleNameOwnerChanged, Dispatch, clientVars
  <2>2. Count(inbox', QueuedCalls(d)) = Count(inbox, QueuedCalls(d))
    BY <1>2, <2>1, Taken
  <2> QED
    BY <1>1, <2>1, <2>2, NoCall
<1>7. CASE EvictCall
  <2>1. evicting \in Clients /\ UNCHANGED <<inbox, fromServer, pending>>
    BY <1>7 DEF EvictCall, clientVars, TypeOK
  <2>2. PICK e \in registry, g \in AgentManagers :
          toServer' = Append(toServer,
             [op |-> "unregister", mgr |-> g,
              path |-> IF UseObjectPathOnUnregister THEN e.path ELSE NoPath,
              from |-> evicting, sync |-> TRUE, live |-> TRUE])
    BY <1>7 DEF EvictCall
  <2> DEFINE m == [op |-> "unregister", mgr |-> g,
                   path |-> IF UseObjectPathOnUnregister THEN e.path ELSE NoPath,
                   from |-> evicting, sync |-> TRUE, live |-> TRUE]
  <2>3. m \in Forward /\ m.live /\ m.sync
    BY <2>1 DEF Forward, TypeOK, Entry, Ops
  <2> HIDE DEF m
  <2>4. Count(toServer', ForwardedCalls(d)) = Count(toServer, ForwardedCalls(d))
    <3>1. toServer' = Append(toServer, m)
      BY <2>2 DEF m
    <3>2. Count(toServer', ForwardedCalls(d)) =
            Count(toServer, ForwardedCalls(d)) + IF m.sync THEN 0 ELSE Own(m.from, d)
      BY <2>3, <3>1, Passed
    <3> QED
      BY <1>2, <2>3, <3>2
  <2> QED
    BY <1>1, <2>1, <2>4, NoCall
<1>8. CASE EvictRemove \/ EvictEnd \/ UNCHANGED vars
  BY <1>1, <1>8, NoCall DEF EvictRemove, EvictEnd, vars, busVars, clientVars
<1>9. CASE HandleReply
  <2>1. /\ fromServer # <<>> /\ fromServer[1].kind = "reply" /\ Answer(fromServer[1].to)
        /\ fromServer' = Tail(fromServer) /\ UNCHANGED <<inbox, toServer>>
    BY <1>9 DEF HandleReply, DispatchSource
  <2>2. fromServer[1] \in ReplyMsg /\ fromServer[1].to \in Clients
    BY <1>2, <2>1 DEF ReplyMsg, AgentMsg
  <2>3. Count(fromServer', Replies(d)) = Count(fromServer, Replies(d)) - Own(fromServer[1].to, d)
    BY <1>2, <2>1, <2>2, CountTail, CountsFor
  <2>4. pending'[d] = pending[d] - Own(fromServer[1].to, d)
    BY <2>1, <2>2, PendingAnswer
  <2>5. Own(fromServer[1].to, d) \in Nat
    BY DEF Own
  <2> QED
    BY <1>1, <1>2, <2>1, <2>3, <2>4, <2>5 DEF InFlight
<1>10. CASE HandleAgentCall
  <2>1. /\ fromServer # <<>> /\ fromServer[1].kind = "agent"
        /\ fromServer' = Tail(fromServer) /\ UNCHANGED <<inbox, toServer, pending>>
    BY <1>10 DEF HandleAgentCall, DispatchSource, clientVars
  <2>2. fromServer[1] \in AgentMsg
    BY <1>2, <2>1 DEF ReplyMsg, AgentMsg
  <2>3. Count(fromServer', Replies(d)) = Count(fromServer, Replies(d))
    BY <1>2, <2>1, <2>2, CountTail, CountsFor
  <2> QED
    BY <1>1, <2>1, <2>3, NoCall
<1>11. CASE ServerCallsAgent
  <2>1. PICK s \in server : /\ fromServer' = Append(fromServer, [kind |-> "agent", path |-> s.path, for |-> s.for])
                            /\ UNCHANGED <<inbox, toServer, pending>>
    BY <1>11 DEF ServerCallsAgent, clientVars
  <2> DEFINE m == [kind |-> "agent", path |-> s.path, for |-> s.for]
  <2>2. m \in AgentMsg
    BY DEF AgentMsg, TypeOK, Registration
  <2> HIDE DEF m
  <2>3. Count(fromServer', Replies(d)) = Count(fromServer, Replies(d))
    <3>1. fromServer' = Append(fromServer, m)
      BY <2>1 DEF m
    <3>2. Count(fromServer', Replies(d)) = Count(fromServer, Replies(d)) + One(m, Replies(d))
      BY <1>2, <2>2, <3>1, CountAppend
    <3> QED
      BY <1>2, <2>2, <3>2, CountsFor
  <2> QED
    BY <1>1, <2>1, <2>3, NoCall
<1>12. CASE ServerHandle
  <2>1. /\ toServer # <<>> /\ toServer' = Tail(toServer) /\ UNCHANGED <<inbox, pending>>
        /\ fromServer' = IF toServer[1].live /\ ~ toServer[1].sync
                         THEN Append(fromServer, [kind |-> "reply", to |-> toServer[1].from])
                         ELSE fromServer
    BY <1>12 DEF ServerHandle, clientVars
  <2>2. toServer[1] \in Forward /\ toServer[1].from \in Clients
    BY <1>2, <2>1 DEF Forward
  <2>3. Count(toServer', ForwardedCalls(d)) = Count(toServer, ForwardedCalls(d))
          - IF toServer[1].live /\ ~ toServer[1].sync THEN Own(toServer[1].from, d) ELSE 0
    BY <1>2, <2>1, <2>2, CountTail, CountsFor
  <2>4. Own(toServer[1].from, d) \in Nat
    BY DEF Own
  <2>5. CASE toServer[1].live /\ ~ toServer[1].sync
    <3>1. Count(fromServer', Replies(d)) = Count(fromServer, Replies(d)) + Own(toServer[1].from, d)
      BY <2>1, <2>2, <2>5, Answered
    <3> QED
      BY <1>1, <1>2, <2>1, <2>3, <2>4, <2>5, <3>1 DEF InFlight
  <2>6. CASE ~ (toServer[1].live /\ ~ toServer[1].sync)
    BY <1>1, <1>2, <2>1, <2>3, <2>6, NoCall
  <2> QED
    BY <2>5, <2>6
<1>13. CASE CallTimeout
  <2>1. PICK k \in 1..Len(toServer) :
          /\ toServer[k].live
          /\ toServer' = [toServer EXCEPT ![k] = [toServer[k] EXCEPT !.live = FALSE]]
          /\ fromServer' = IF toServer[k].sync THEN fromServer
                           ELSE Append(fromServer, [kind |-> "reply", to |-> toServer[k].from])
          /\ UNCHANGED <<inbox, pending>>
    BY <1>13 DEF CallTimeout
  <2> DEFINE m == [toServer[k] EXCEPT !.live = FALSE]
  <2>2. toServer[k] \in Forward
    BY <1>2, <2>1
  <2>3. m \in Forward /\ ~ m.live
    BY <2>2 DEF Forward
  <2>4. m \notin ForwardedCalls(d)
    BY <2>3 DEF ForwardedCalls
  <2> HIDE DEF m
  <2>5. Count(toServer', ForwardedCalls(d)) =
          Count(toServer, ForwardedCalls(d)) - One(toServer[k], ForwardedCalls(d))
    <3>1. toServer' = [toServer EXCEPT ![k] = m]
      BY <2>1 DEF m
    <3>2. toServer \in Seq(Forward)
      BY <1>2
    <3>3. /\ Len(toServer') = Len(toServer) /\ toServer'[k] = m
          /\ \A i \in 1..Len(toServer) : i # k => toServer'[i] = toServer[i]
      BY <3>1, <3>2
    <3>4. toServer'[k] \notin ForwardedCalls(d)
      BY <2>4, <3>3, Zenon
    <3> QED
      BY <3>2, <3>3, <3>4, CountReplace, Zenon
  <2>6. One(toServer[k], ForwardedCalls(d)) = IF toServer[k].sync THEN 0 ELSE Own(toServer[k].from, d)
    BY <2>1, <2>2, CountsFor
  <2>7. Own(toServer[k].from, d) \in Nat /\ toServer[k].from \in Clients
    BY <2>2 DEF Own, Forward
  <2>8. CASE toServer[k].sync
    <3>1. Count(toServer', ForwardedCalls(d)) = Count(toServer, ForwardedCalls(d))
      BY <1>2, <2>5, <2>6, <2>8
    <3>2. UNCHANGED <<inbox, fromServer, pending>>
      BY <2>1, <2>8
    <3> QED
      BY <1>1, <3>1, <3>2, NoCall
  <2>9. CASE ~ toServer[k].sync
    <3>1. Count(fromServer', Replies(d)) = Count(fromServer, Replies(d)) + Own(toServer[k].from, d)
      BY <2>1, <2>7, <2>9, Answered
    <3> QED
      BY <1>1, <1>2, <2>1, <2>5, <2>6, <2>7, <2>9, <3>1 DEF InFlight
  <2> QED
    BY <2>8, <2>9
<1> QED
  BY <1>0, <1>3, <1>4, <1>5, <1>6, <1>7, <1>8, <1>9, <1>10, <1>11, <1>12, <1>13
     DEF Next, Client, TargetSide, SourceSide, Server

(* Every call a client makes is answered once and only once, on each early  *)
(* return of the Register and Unregister handlers and when a timeout races  *)
(* the answer of the service.                                               *)
THEOREM AnsweredOnce == Spec => []AnsweredExactlyOnce
<1>1. Init => AnsweredExactlyOnce
  <2> SUFFICES ASSUME Init, NEW c \in Clients PROVE pending[c] = InFlight(c)
    BY DEF AnsweredExactlyOnce
  <2>1. pending[c] = 0 /\ inbox = <<>> /\ toServer = <<>> /\ fromServer = <<>>
    BY DEF Init
  <2> QED
    BY <2>1, CountEmpty DEF InFlight
<1> QED
  BY <1>1, AnsweredStep, TypeCorrect, PTL DEF Spec
=============================================================================
