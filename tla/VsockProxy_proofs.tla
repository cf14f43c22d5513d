-------------------------- MODULE VsockProxy_proofs --------------------------
(***************************************************************************)
(* Proofs about VsockProxy, for any number of pairs, any buffer and socket *)
(* sizes and any length of the streams.                                    *)
(***************************************************************************)
EXTENDS VsockProxy, TLAPS, SequenceTheorems, FiniteSetTheorems

(* The two ends of a pair. *)
LEMMA ConnFacts ==
  /\ \A c \in Conn : /\ c[1] \in Pairs /\ Sib(c) \in Conn
                     /\ Sib(c) # c /\ Sib(Sib(c)) = c /\ Sib(c)[1] = c[1]
                     /\ Ends(c[1]) = {c, Sib(c)}
                     /\ c = Rx(c[1]) \/ c = Tx(c[1])
                     /\ c # Listen
  /\ \A p \in Pairs : /\ Rx(p) \in Conn /\ Tx(p) \in Conn
                      /\ Rx(p)[1] = p /\ Tx(p)[1] = p
                      /\ Sib(Rx(p)) = Tx(p) /\ Sib(Tx(p)) = Rx(p) /\ Rx(p) # Tx(p)
                      /\ Ends(p) = {Rx(p), Tx(p)} /\ Ends(p) \subseteq Conn
  /\ \A c, d \in Conn : c[1] = d[1] => d = c \/ d = Sib(c)
<1>1. \A c \in Conn : c[1] \in Pairs /\ c[2] \in {"rx", "tx"} /\ c = <<c[1], c[2]>>
  BY DEF Conn
<1>2. \A p \in Pairs : Rx(p) \in Conn /\ Tx(p) \in Conn
  BY DEF Conn, Rx, Tx
<1> QED
  BY <1>1, <1>2, ConstantsAssumption DEF Conn, Sib, Rx, Tx, Ends

LEMMA LeastFacts ==
  ASSUME NEW m \in Int, NEW n \in Int
  PROVE  Least(m, n) \in {m, n} /\ Least(m, n) <= m /\ Least(m, n) <= n
  BY DEF Least

LEMMA UnitsType ==
  ASSUME NEW n \in Nat, NEW k \in Nat
  PROVE  Units(n, k) \in Seq(Nat) /\ Len(Units(n, k)) = k
  BY DEF Units

LEMMA SubSeqType ==
  ASSUME NEW s \in Seq(Nat), NEW i \in Nat \ {0}, NEW j \in Nat, j <= Len(s)
  PROVE  SubSeq(s, i, j) \in Seq(Nat)
  OBVIOUS

LEMMA ConcatType ==
  ASSUME NEW S, NEW s \in Seq(S), NEW t \in Seq(S)
  PROVE  s \o t \in Seq(S)
  OBVIOUS

LEMMA ConcatTwo ==
  ASSUME NEW S, NEW q \in Seq(S), NEW x \in S, NEW y \in S
  PROVE  /\ Len(q) \in Nat /\ Len(q \o <<x, y>>) = Len(q) + 2
         /\ \A i \in 1..Len(q) : (q \o <<x, y>>)[i] = q[i] /\ q[i] \in S
         /\ (q \o <<x, y>>)[Len(q) + 1] = x /\ (q \o <<x, y>>)[Len(q) + 2] = y
  OBVIOUS

LEMMA Updated ==
  ASSUME NEW S, NEW T, NEW f \in [S -> T], NEW x \in S, NEW v \in T
  PROVE  [f EXCEPT ![x] = v] \in [S -> T]
  OBVIOUS

LEMMA EventFlags ==
  ASSUME TypeOK, cur # NoEvent, NEW f
  PROVE  [cur EXCEPT !.ev = @ \ {f}] \in Event
  BY DEF TypeOK, Event

LEMMA ContinueType ==
  ASSUME TypeOK, Continue \/ Break \/ (\E f : cur # NoEvent /\ Proceed(f))
  PROVE  batch' \subseteq Event /\ cur' \in Event \cup {NoEvent}
  BY EventFlags DEF TypeOK, Continue, Break, Proceed

LEMMA CloseType ==
  ASSUME TypeOK, NEW c \in Conn, CloseConnections(c)
  PROVE  /\ state' \in [Pairs -> {"free", "connecting", "open", "closed"}]
         /\ watched' \subseteq Conn
         /\ interest' \in [Conn -> SUBSET {"in", "out"}]
         /\ buf' \in [Conn -> Seq(Nat)]
         /\ closedQ' \in Seq(Conn)
<1>1. <<c, Sib(c)>> \in Seq(Conn)
  BY ConnFacts
<1>2. closedQ' \in Seq(Conn)
  BY <1>1, ConcatType DEF CloseConnections, TypeOK
<1> QED
  BY <1>2 DEF CloseConnections, TypeOK

LEMMA StartType ==
  ASSUME TypeOK, NEW p \in Pairs, StartReceive(p)
  PROVE  /\ state' \in [Pairs -> {"free", "connecting", "open", "closed"}]
         /\ watched' \subseteq Conn
         /\ interest' \in [Conn -> SUBSET {"in", "out"}]
  BY ConnFacts DEF StartReceive, TypeOK

LEMMA SwitchType ==
  ASSUME TypeOK, NEW c, NEW b, SwitchMod(c, b)
  PROVE  interest' \in [Conn -> SUBSET {"in", "out"}]
  BY DEF SwitchMod, TypeOK

(* Type correctness; a full socket is never overdrawn (room \in Nat). *)
THEOREM TypeCorrect == Spec => []TypeOK
<1>1. Init => TypeOK
  <2>1. \A S : <<>> \in Seq(S)
    OBVIOUS
  <2> QED
    BY <2>1, ConstantsAssumption DEF Init, TypeOK
<1>2. TypeOK /\ [Next]_vars => TypeOK'
  <2> SUFFICES ASSUME TypeOK, [Next]_vars PROVE TypeOK'
    OBVIOUS
  <2> USE DEF memVars, loopVars, peerVars, dataVars
  <2>1. ASSUME Peer PROVE TypeOK'
    <3>1. ASSUME ClientConnects PROVE TypeOK'
      BY <3>1 DEF ClientConnects, TypeOK
    <3>2. ASSUME NEW c \in Conn, PeerSends(c) PROVE TypeOK'
      <4>1. sent[c] + 1 \in Nat
        BY DEF TypeOK
      <4>2. sent' \in [Conn -> Nat]
        BY <3>2, <4>1, Updated DEF PeerSends, TypeOK
      <4> QED
        BY <3>2, <4>2 DEF PeerSends, TypeOK
    <3>3. ASSUME NEW c \in Conn, PeerReads(c) PROVE TypeOK'
      BY <3>3 DEF PeerReads, TypeOK
    <3>4. ASSUME NEW c \in Conn, NEW how \in {"shut", "reset"}, PeerCloses(c, how) PROVE TypeOK'
      BY <3>4 DEF PeerCloses, TypeOK
    <3>5. ASSUME NEW p \in Pairs, NEW how \in {"ok", "refused"}, ConnectResolves(p, how) PROVE TypeOK'
      BY <3>5 DEF ConnectResolves, TypeOK
    <3> QED
      BY <2>1, <3>1, <3>2, <3>3, <3>4, <3>5 DEF Peer
  <2>2. ASSUME EpollWait PROVE TypeOK'
    <3>1. \A c : ReadyFlags(c) \subseteq Flags
      BY DEF ReadyFlags, Flags
    <3>2. ReadyEvents \subseteq Event
      BY <3>1 DEF ReadyEvents, Event, Flags, TypeOK
    <3> QED
      BY <2>2, <3>2 DEF EpollWait, TypeOK
  <2>3. ASSUME FlushClosedConnections PROVE TypeOK'
    <3>1. <<>> \in Seq(Conn)
      OBVIOUS
    <3> QED
      BY <2>3, <3>1 DEF FlushClosedConnections, TypeOK
  <2>4. ASSUME EventDone PROVE TypeOK'
    BY <2>4, ContinueType DEF EventDone, TypeOK
  <2>5. ASSUME NEW e \in batch, TakeEvent(e) PROVE TypeOK'
    BY <2>5 DEF TakeEvent, TypeOK
  <2>6. ASSUME AcceptFails \/ AcceptDenied PROVE TypeOK'
    BY <2>6, ContinueType DEF AcceptFails, AcceptDenied, TypeOK
  <2>7. ASSUME NEW p \in Pairs, Accept(p) PROVE TypeOK'
    <3>1. /\ buf' \in [Conn -> Seq(Nat)] /\ sent' \in [Conn -> Nat] /\ read' \in [Conn -> Nat]
          /\ fin' \in [Conn -> {"no", "shut", "reset"}] /\ room' \in [Conn -> Nat]
          /\ delivered' \in [Conn -> Seq(Nat)]
          /\ conn' \in [Pairs -> {"pending", "ok", "refused"}]
      <4>1. <<>> \in Seq(Nat)
        OBVIOUS
      <4> QED
        BY <2>7, <4>1, ConnFacts, ConstantsAssumption DEF Accept, Allocate, TypeOK
    <3>2. /\ state' \in [Pairs -> {"free", "connecting", "open", "closed"}]
          /\ watched' \subseteq Conn
          /\ interest' \in [Conn -> SUBSET {"in", "out"}]
          /\ closedQ' \in Seq(Conn)
      <4>1. CASE AcceptConnected(p)
        BY <4>1, StartType DEF AcceptConnected, TypeOK
      <4>2. CASE AcceptInProgress(p)
        BY <4>2, ConnFacts DEF AcceptInProgress, TypeOK
      <4>3. CASE AcceptAborted(p)
        <5>1. <<Rx(p)>> \in Seq(Conn) /\ <<Rx(p), Tx(p)>> \in Seq(Conn)
          BY ConnFacts
        <5>2. closedQ \o <<Rx(p)>> \in Seq(Conn) /\ closedQ \o <<Rx(p), Tx(p)>> \in Seq(Conn)
          BY <5>1, ConcatType DEF TypeOK
        <5>3. closedQ' = closedQ \o <<Rx(p)>> \/ closedQ' = closedQ \o <<Rx(p), Tx(p)>>
          BY <4>3 DEF AcceptAborted
        <5>4. closedQ' \in Seq(Conn)
          BY <5>2, <5>3
        <5> QED
          BY <4>3, <5>4 DEF AcceptAborted, TypeOK
      <4> QED
        BY <2>7, <4>1, <4>2, <4>3 DEF Accept
    <3> QED
      BY <2>7, <3>1, <3>2, ContinueType DEF Accept, TypeOK
  <2>9. ASSUME NEW c \in Conn, InEof(c) PROVE TypeOK'
    BY <2>9, ContinueType, CloseType DEF InEof, TypeOK
  <2>10. ASSUME NEW c \in Conn, InData(c) PROVE TypeOK'
    <3> DEFINE n    == Least(Avail(c), BufSize)
               k    == Least(n, room[Sib(c)])
               new  == Units(read[c], n)
               left == SubSeq(new, k + 1, n)
    <3>1. n \in Nat /\ k \in Nat /\ k <= n /\ k <= room[Sib(c)] /\ Sib(c) \in Conn
      <4>0. Avail(c) > 0
        BY <2>10 DEF InData
      <4>1. Avail(c) \in Nat /\ BufSize \in Nat
        BY <4>0, ConstantsAssumption DEF Avail, TypeOK
      <4>2. Sib(c) \in Conn /\ room[Sib(c)] \in Nat
        BY ConnFacts DEF TypeOK
      <4>3. n \in Nat
        BY <4>1, LeastFacts
      <4> HIDE DEF n
      <4> QED
        BY <4>2, <4>3, LeastFacts
    <3>2. new \in Seq(Nat) /\ Len(new) = n
      BY <3>1, UnitsType DEF TypeOK
    <3>3. left \in Seq(Nat) /\ SubSeq(new, 1, k) \in Seq(Nat)
      BY <3>1, <3>2, SubSeqType
    <3> HIDE DEF n, k, new, left
    <3>4. /\ read' = [read EXCEPT ![c] = @ + n]
          /\ room' = [room EXCEPT ![Sib(c)] = @ - k]
          /\ delivered' = [delivered EXCEPT ![Sib(c)] = @ \o SubSeq(new, 1, k)]
          /\ \/ Proceed("in") /\ UNCHANGED memVars
             \/ /\ buf' = [buf EXCEPT ![c] = left]
                /\ SwitchMod(c, [buf EXCEPT ![c] = left])
                /\ Proceed("in")
                /\ UNCHANGED <<state, watched, closedQ>>
             \/ CloseConnections(Sib(c)) /\ Break
          /\ cur # NoEvent /\ UNCHANGED <<loop, peerVars>>
      BY <2>10 DEF InData, Handling, n, k, new, left
    <3>5. read' \in [Conn -> Nat] /\ room' \in [Conn -> Nat] /\ delivered' \in [Conn -> Seq(Nat)]
      <4>1. read[c] + n \in Nat /\ room[Sib(c)] - k \in Nat
        BY <3>1 DEF TypeOK
      <4>2. delivered[Sib(c)] \o SubSeq(new, 1, k) \in Seq(Nat)
        BY <3>1, <3>3, ConcatType DEF TypeOK
      <4> QED
        BY <3>1, <3>4, <4>1, <4>2, Updated DEF TypeOK
    <3>6. /\ state' \in [Pairs -> {"free", "connecting", "open", "closed"}]
          /\ watched' \subseteq Conn
          /\ interest' \in [Conn -> SUBSET {"in", "out"}]
          /\ buf' \in [Conn -> Seq(Nat)]
          /\ closedQ' \in Seq(Conn)
      <4>1. CASE Proceed("in") /\ UNCHANGED memVars
        BY <4>1 DEF TypeOK
      <4>2. CASE /\ buf' = [buf EXCEPT ![c] = left]
                 /\ SwitchMod(c, [buf EXCEPT ![c] = left])
                 /\ UNCHANGED <<state, watched, closedQ>>
        BY <3>3, <4>2, SwitchType, Updated DEF TypeOK
      <4>3. CASE CloseConnections(Sib(c))
        BY <3>1, <4>3, CloseType
      <4> QED
        BY <3>4, <4>1, <4>2, <4>3
    <3> QED
      BY <3>4, <3>5, <3>6, ContinueType DEF TypeOK
  <2>11. ASSUME NEW c \in Conn, InSendFails(c) PROVE TypeOK'
    <3>1. Least(Avail(c), BufSize) \in Nat
      <4>1. Avail(c) \in Nat /\ BufSize \in Nat
        BY <2>11, ConstantsAssumption DEF InSendFails, Avail, TypeOK
      <4> QED
        BY <4>1, LeastFacts
    <3>2. read[c] + Least(Avail(c), BufSize) \in Nat
      BY <3>1 DEF TypeOK
    <3>3. read' \in [Conn -> Nat]
      BY <2>11, <3>2, Updated DEF InSendFails, TypeOK
    <3> QED
      BY <2>11, <3>3, ContinueType, CloseType DEF InSendFails, TypeOK
  <2>12. ASSUME NEW c \in Conn, OutConnected(c) PROVE TypeOK'
    BY <2>12, ConnFacts, ContinueType, StartType DEF OutConnected, HandlingOut, Handling, TypeOK
  <2>13. ASSUME NEW c \in Conn, OutConnectFails(c) \/ OutSendFails(c) \/ Hup(c) PROVE TypeOK'
    BY <2>13, ContinueType, CloseType DEF OutConnectFails, OutSendFails, Hup, TypeOK
  <2>14. ASSUME NEW c \in Conn, OutData(c) PROVE TypeOK'
    <3> DEFINE b    == buf[Sib(c)]
               k    == Least(Len(b), room[c])
               left == SubSeq(b, k + 1, Len(b))
    <3>1. b \in Seq(Nat) /\ Len(b) \in Nat /\ Sib(c) \in Conn
      BY ConnFacts DEF TypeOK
    <3>2. k \in Nat /\ k <= Len(b) /\ k <= room[c]
      <4>1. room[c] \in Nat
        BY DEF TypeOK
      <4> QED
        BY <3>1, <4>1, LeastFacts
    <3>3. left \in Seq(Nat) /\ SubSeq(b, 1, k) \in Seq(Nat)
      BY <3>1, <3>2, SubSeqType
    <3> HIDE DEF b, k, left
    <3>4. /\ room' = [room EXCEPT ![c] = @ - k]
          /\ delivered' = [delivered EXCEPT ![c] = @ \o SubSeq(b, 1, k)]
          /\ buf' = [buf EXCEPT ![Sib(c)] = left]
          /\ SwitchMod(c, [buf EXCEPT ![Sib(c)] = left]) \/ UNCHANGED interest
          /\ cur # NoEvent /\ Proceed("out")
          /\ UNCHANGED <<loop, state, watched, closedQ, peerVars, read>>
      BY <2>14 DEF OutData, HandlingOut, Handling, b, k, left
    <3>5. room' \in [Conn -> Nat] /\ delivered' \in [Conn -> Seq(Nat)] /\ buf' \in [Conn -> Seq(Nat)]
      <4>1. room[c] - k \in Nat
        BY <3>2 DEF TypeOK
      <4>2. delivered[c] \o SubSeq(b, 1, k) \in Seq(Nat)
        BY <3>3, ConcatType DEF TypeOK
      <4> QED
        BY <3>1, <3>3, <3>4, <4>1, <4>2, Updated DEF TypeOK
    <3> QED
      BY <3>4, <3>5, ContinueType, SwitchType DEF TypeOK
  <2>16. ASSUME Stop \/ UNCHANGED vars PROVE TypeOK'
    BY <2>16 DEF Stop, vars, TypeOK
  <2> QED
    BY <2>1, <2>2, <2>3, <2>4, <2>5, <2>6, <2>7, <2>9, <2>10, <2>11, <2>12,
       <2>13, <2>14, <2>16 DEF Next, Step
<1> QED
  BY <1>1, <1>2, PTL DEF Spec
-----------------------------------------------------------------------------
(* Steps of the peers, and every other step that leaves the memory alone. *)
LEMMA LoopInvSame ==
  ASSUME LoopInv, UNCHANGED memVars,
         batch' \subseteq batch,
         cur' = cur \/ cur' = NoEvent \/ (cur # NoEvent /\ cur' # NoEvent /\ cur'.c = cur.c)
  PROVE  LoopInv'
<1>1. InterestMatchesBuffers' /\ PairShape' /\ OnlyClosedQueued'
  BY DEF LoopInv, InterestMatchesBuffers, PairShape, OnlyClosedQueued, memVars
<1>2. EventsLive'
  BY DEF LoopInv, EventsLive, memVars
<1> QED
  BY <1>1, <1>2 DEF LoopInv

LEMMA ContinueFacts ==
  ASSUME TypeOK, Continue \/ Break \/ (\E f : cur # NoEvent /\ Proceed(f))
  PROVE  /\ batch' \subseteq batch
         /\ cur' = NoEvent \/ (cur # NoEvent /\ cur'.c = cur.c)
  BY DEF Continue, Break, Proceed, TypeOK, Event

(* close_connections: the pair leaves epoll and joins the queue. *)
LEMMA LoopInvClose ==
  ASSUME TypeOK, LoopInv, NEW c \in Conn, CloseConnections(c), Continue \/ Break
  PROVE  LoopInv'
<1>1. /\ state' = [state EXCEPT ![c[1]] = "closed"]
      /\ watched' = watched \ Ends(c[1])
      /\ closedQ' = closedQ \o <<c, Sib(c)>>
      /\ UNCHANGED <<interest, buf>>
      /\ batch' \subseteq batch /\ cur' = NoEvent
  BY DEF CloseConnections, Continue, Break
<1>2. c[1] \in Pairs /\ Ends(c[1]) = {c, Sib(c)} /\ Sib(c) \in Conn /\ Sib(c)[1] = c[1]
  BY ConnFacts
<1>3. \A p \in Pairs : state'[p] = IF p = c[1] THEN "closed" ELSE state[p]
  BY <1>1, <1>2 DEF TypeOK
<1>4. \A d \in Conn : d[1] # c[1] => (d \in watched' <=> d \in watched)
  BY <1>1, <1>2
<1>5. \A d \in Conn : d[1] = c[1] => d \notin watched'
  BY <1>1, <1>2, ConnFacts
<1>6. InterestMatchesBuffers'
  <2> SUFFICES ASSUME NEW p \in Pairs, state'[p] = "open", NEW d \in Ends(p)
               PROVE  /\ d \in watched'
                      /\ "in" \in interest'[d] <=> buf'[d] = <<>>
                      /\ "out" \in interest'[d] <=> buf'[Sib(d)] # <<>>
    BY DEF InterestMatchesBuffers
  <2>1. p # c[1] /\ state[p] = "open" /\ d \in Conn /\ d[1] = p
    BY <1>3, ConnFacts
  <2> QED
    BY <1>1, <1>4, <2>1 DEF LoopInv, InterestMatchesBuffers
<1>7. PairShape'
  <2> SUFFICES ASSUME NEW p \in Pairs
               PROVE  /\ state'[p] \in {"free", "closed"} => Rx(p) \notin watched' /\ Tx(p) \notin watched'
                      /\ state'[p] = "connecting" =>
                           Rx(p) \notin watched' /\ buf'[Rx(p)] = <<>> /\ buf'[Tx(p)] = <<>>
    BY DEF PairShape
  <2>1. Rx(p) \in Conn /\ Tx(p) \in Conn /\ Rx(p)[1] = p /\ Tx(p)[1] = p
    BY ConnFacts
  <2> QED
    BY <1>1, <1>3, <1>5, <2>1 DEF LoopInv, PairShape
<1>8. OnlyClosedQueued'
  <2>1. /\ Len(closedQ) \in Nat /\ Len(closedQ') = Len(closedQ) + 2
        /\ \A i \in 1..Len(closedQ) : closedQ'[i] = closedQ[i] /\ closedQ[i] \in Conn
        /\ closedQ'[Len(closedQ) + 1] = c /\ closedQ'[Len(closedQ) + 2] = Sib(c)
    BY <1>1, <1>2, ConcatTwo DEF TypeOK
  <2>2. \A i \in 1..Len(closedQ) : closedQ[i][1] \in Pairs /\ state[closedQ[i][1]] = "closed"
    BY <2>1, ConnFacts DEF LoopInv, OnlyClosedQueued
  <2> QED
    BY <1>2, <1>3, <2>1, <2>2 DEF OnlyClosedQueued
<1>9. EventsLive'
  <2> SUFFICES ASSUME NEW e \in batch', e.c # Listen
               PROVE  e.c \in watched' \/ state'[e.c[1]] = "closed"
    BY <1>1 DEF EventsLive
  <2>1. e \in batch /\ e.c \in Conn
    BY <1>1 DEF TypeOK, Event
  <2>2. e.c \in watched \/ state[e.c[1]] = "closed"
    BY <2>1 DEF LoopInv, EventsLive
  <2> QED
    BY <1>3, <1>4, <2>1, <2>2, ConnFacts
<1> QED
  BY <1>6, <1>7, <1>8, <1>9 DEF LoopInv
(* A pair with its rx side watched, or its own tx side and not connecting,   *)
(* is open.                                                                  *)
LEMMA WatchedIsOpen ==
  ASSUME TypeOK, LoopInv, NEW c \in Conn, c \in watched,
         Sib(c) \in watched \/ ~ Connecting(c)
  PROVE  state[c[1]] = "open"
<1>1. c[1] \in Pairs /\ state[c[1]] \in {"free", "connecting", "open", "closed"}
  BY ConnFacts DEF TypeOK
<1>2. c = Rx(c[1]) \/ (c = Tx(c[1]) /\ Sib(c) = Rx(c[1]) /\ c[2] = "tx")
  BY ConnFacts DEF Tx
<1>3. state[c[1]] \notin {"free", "closed"}
  BY <1>1, <1>2 DEF LoopInv, PairShape
<1>4. state[c[1]] = "connecting" => Rx(c[1]) \notin watched
  BY <1>1 DEF LoopInv, PairShape
<1> QED
  BY <1>1, <1>2, <1>3, <1>4 DEF Connecting

(* switch_mod on both ends after the buffers of an open pair changed. *)
LEMMA LoopInvSwitch ==
  ASSUME TypeOK, LoopInv, NEW c \in Conn, state[c[1]] = "open",
         NEW d \in {c, Sib(c)}, NEW v,
         buf' = [buf EXCEPT ![d] = v], SwitchMod(c, [buf EXCEPT ![d] = v]),
         UNCHANGED <<state, watched, closedQ, batch>>,
         cur # NoEvent /\ cur' # NoEvent /\ cur'.c = cur.c
  PROVE  LoopInv'
<1>1. /\ d \in Conn /\ c[1] \in Pairs /\ Ends(c[1]) = {c, Sib(c)} /\ Sib(c) \in Conn
      /\ d[1] = c[1]
  BY ConnFacts
<1>2. interest' = [e \in Conn |->
        IF e \in Ends(c[1])
        THEN (IF buf'[e] = <<>> THEN {"in"} ELSE {}) \cup (IF buf'[Sib(e)] # <<>> THEN {"out"} ELSE {})
        ELSE interest[e]]
  BY DEF SwitchMod
<1>3. \A e \in Conn : e[1] # c[1] => buf'[e] = buf[e] /\ interest'[e] = interest[e]
  <2>1. \A e \in Conn : e[1] # c[1] => e \notin Ends(c[1]) /\ e # d
    BY <1>1, ConnFacts
  <2> QED
    BY <1>1, <1>2, <2>1 DEF TypeOK
<1>4. \A e \in Conn : e[1] = c[1] =>
        ("in" \in interest'[e] <=> buf'[e] = <<>>) /\ ("out" \in interest'[e] <=> buf'[Sib(e)] # <<>>)
  BY <1>1, <1>2, ConnFacts
<1>5. InterestMatchesBuffers'
  <2> SUFFICES ASSUME NEW p \in Pairs, state[p] = "open", NEW e \in Ends(p)
               PROVE  /\ e \in watched
                      /\ "in" \in interest'[e] <=> buf'[e] = <<>>
                      /\ "out" \in interest'[e] <=> buf'[Sib(e)] # <<>>
    BY DEF InterestMatchesBuffers
  <2>1. e \in Conn /\ e[1] = p /\ Sib(e) \in Conn /\ Sib(e)[1] = p
    BY ConnFacts
  <2>2. /\ e \in watched
        /\ "in" \in interest[e] <=> buf[e] = <<>>
        /\ "out" \in interest[e] <=> buf[Sib(e)] # <<>>
    BY DEF LoopInv, InterestMatchesBuffers
  <2> QED
    BY <1>3, <1>4, <2>1, <2>2
<1>6. PairShape'
  <2> SUFFICES ASSUME NEW p \in Pairs
               PROVE  /\ state[p] \in {"free", "closed"} => Rx(p) \notin watched /\ Tx(p) \notin watched
                      /\ state[p] = "connecting" =>
                           Rx(p) \notin watched /\ buf'[Rx(p)] = <<>> /\ buf'[Tx(p)] = <<>>
    BY DEF PairShape
  <2>1. Rx(p) \in Conn /\ Tx(p) \in Conn /\ Rx(p)[1] = p /\ Tx(p)[1] = p
    BY ConnFacts
  <2> QED
    BY <1>3, <2>1 DEF LoopInv, PairShape
<1>7. OnlyClosedQueued' /\ EventsLive'
  BY DEF LoopInv, OnlyClosedQueued, EventsLive
<1> QED
  BY <1>5, <1>6, <1>7 DEF LoopInv

(* A pair that was free or connecting becomes connecting or open, or a new   *)
(* pair is given up: nothing else moves.                                     *)
LEMMA LoopInvPair ==
  ASSUME TypeOK, LoopInv, NEW p \in Pairs, state[p] \in {"free", "connecting"},
         \A c \in Conn : c[1] # p => buf'[c] = buf[c] /\ interest'[c] = interest[c],
         buf'[Rx(p)] = <<>>, buf'[Tx(p)] = <<>>,
         \/ StartReceive(p) /\ UNCHANGED closedQ
         \/ AcceptInProgress(p)
         \/ state[p] = "free" /\ AcceptAborted(p),
         batch' \subseteq batch,
         cur' = NoEvent \/ (cur # NoEvent /\ cur'.c = cur.c)
  PROVE  LoopInv'
<1>1. Rx(p) \in Conn /\ Tx(p) \in Conn /\ Rx(p)[1] = p /\ Tx(p)[1] = p /\ Rx(p) # Tx(p)
      /\ Ends(p) = {Rx(p), Tx(p)} /\ Sib(Rx(p)) = Tx(p) /\ Sib(Tx(p)) = Rx(p)
  BY ConnFacts
<1>2. \A q \in Pairs : q # p => state'[q] = state[q]
  BY DEF StartReceive, AcceptInProgress, AcceptAborted, TypeOK
<1>3. \A c \in Conn : c[1] # p => (c \in watched' <=> c \in watched)
  BY <1>1 DEF StartReceive, AcceptInProgress, AcceptAborted
<1>4. watched \subseteq watched'
  BY DEF StartReceive, AcceptInProgress, AcceptAborted
<1>5. Rx(p) \notin watched
  BY DEF LoopInv, PairShape
<1>6. \/ /\ state'[p] = "open" /\ Rx(p) \in watched' /\ Tx(p) \in watched'
         /\ interest'[Rx(p)] = {"in"} /\ interest'[Tx(p)] = {"in"} /\ closedQ' = closedQ
      \/ state'[p] = "connecting" /\ Rx(p) \notin watched' /\ closedQ' = closedQ
      \/ /\ state[p] = "free" /\ state'[p] = "closed" /\ watched' = watched
         /\ \/ closedQ' = closedQ \o <<Rx(p)>>
            \/ closedQ' = closedQ \o <<Rx(p), Tx(p)>>
  <2>1. CASE StartReceive(p) /\ UNCHANGED closedQ
    BY <1>1, <2>1 DEF StartReceive, TypeOK
  <2>2. CASE AcceptInProgress(p)
    BY <1>1, <1>5, <2>2 DEF AcceptInProgress, TypeOK
  <2>3. CASE state[p] = "free" /\ AcceptAborted(p)
    BY <2>3 DEF AcceptAborted, TypeOK
  <2> QED
    BY <2>1, <2>2, <2>3
<1>7. InterestMatchesBuffers'
  <2> SUFFICES ASSUME NEW q \in Pairs, state'[q] = "open", NEW e \in Ends(q)
               PROVE  /\ e \in watched'
                      /\ "in" \in interest'[e] <=> buf'[e] = <<>>
                      /\ "out" \in interest'[e] <=> buf'[Sib(e)] # <<>>
    BY DEF InterestMatchesBuffers
  <2>1. e \in Conn /\ e[1] = q /\ Sib(e) \in Conn /\ Sib(e)[1] = q
    BY ConnFacts
  <2>2. CASE q = p
    BY <1>1, <1>6, <2>2
  <2>3. CASE q # p
    <3>1. state[q] = "open"
      BY <1>2, <2>3
    <3>2. /\ e \in watched
          /\ "in" \in interest[e] <=> buf[e] = <<>>
          /\ "out" \in interest[e] <=> buf[Sib(e)] # <<>>
      BY <3>1 DEF LoopInv, InterestMatchesBuffers
    <3> QED
      BY <1>3, <2>1, <2>3, <3>2
  <2> QED
    BY <2>2, <2>3
<1>8. PairShape'
  <2> SUFFICES ASSUME NEW q \in Pairs
               PROVE  /\ state'[q] \in {"free", "closed"} => Rx(q) \notin watched' /\ Tx(q) \notin watched'
                      /\ state'[q] = "connecting" =>
                           Rx(q) \notin watched' /\ buf'[Rx(q)] = <<>> /\ buf'[Tx(q)] = <<>>
    BY DEF PairShape
  <2>1. Rx(q) \in Conn /\ Tx(q) \in Conn /\ Rx(q)[1] = q /\ Tx(q)[1] = q
    BY ConnFacts
  <2>2. CASE q = p
    BY <1>5, <1>6, <2>2 DEF LoopInv, PairShape
  <2>3. CASE q # p
    BY <1>2, <1>3, <2>1, <2>3 DEF LoopInv, PairShape
  <2> QED
    BY <2>2, <2>3
<1>9. OnlyClosedQueued'
  <2>1. \A i \in 1..Len(closedQ) : closedQ[i][1] \in Pairs /\ closedQ[i][1] # p
                                  /\ state'[closedQ[i][1]] = "closed"
    <3> SUFFICES ASSUME NEW i \in 1..Len(closedQ)
                 PROVE  closedQ[i][1] \in Pairs /\ closedQ[i][1] # p /\ state'[closedQ[i][1]] = "closed"
      OBVIOUS
    <3>1. closedQ[i] \in Conn
      BY DEF TypeOK
    <3>2. closedQ[i][1] \in Pairs /\ state[closedQ[i][1]] = "closed"
      BY <3>1, ConnFacts DEF LoopInv, OnlyClosedQueued
    <3> QED
      BY <1>2, <3>2
  <2>2. CASE closedQ' = closedQ
    BY <2>1, <2>2 DEF OnlyClosedQueued
  <2>3. CASE state'[p] = "closed" /\ closedQ' = closedQ \o <<Rx(p)>>
    <3>1. /\ Len(closedQ) \in Nat /\ Len(closedQ') = Len(closedQ) + 1
          /\ \A i \in 1..Len(closedQ) : closedQ'[i] = closedQ[i]
          /\ closedQ'[Len(closedQ) + 1] = Rx(p)
      BY <2>3 DEF TypeOK
    <3> QED
      BY <1>1, <2>1, <2>3, <3>1 DEF OnlyClosedQueued
  <2>4. CASE state'[p] = "closed" /\ closedQ' = closedQ \o <<Rx(p), Tx(p)>>
    <3>1. /\ Len(closedQ) \in Nat /\ Len(closedQ') = Len(closedQ) + 2
          /\ \A i \in 1..Len(closedQ) : closedQ'[i] = closedQ[i]
          /\ closedQ'[Len(closedQ) + 1] = Rx(p) /\ closedQ'[Len(closedQ) + 2] = Tx(p)
      BY <1>1, <2>4, ConcatTwo DEF TypeOK
    <3> QED
      BY <1>1, <2>1, <2>4, <3>1 DEF OnlyClosedQueued
  <2> QED
    BY <1>6, <2>2, <2>3, <2>4
<1>10. EventsLive'
  <2>1. ASSUME NEW e \in batch', e.c # Listen
        PROVE  e.c \in watched' \/ state'[e.c[1]] = "closed"
    <3>1. e \in batch /\ e.c \in Conn /\ e.c[1] \in Pairs
      BY <2>1, ConnFacts DEF TypeOK, Event
    <3>2. e.c \in watched \/ (state[e.c[1]] = "closed" /\ e.c[1] # p)
      BY <2>1, <3>1 DEF LoopInv, EventsLive
    <3> QED
      BY <1>2, <1>4, <3>1, <3>2
  <2>2. cur' # NoEvent => cur'.c = Listen \/ cur'.c \in watched'
    BY <1>4 DEF LoopInv, EventsLive
  <2> QED
    BY <2>1, <2>2 DEF EventsLive
<1> QED
  BY <1>7, <1>8, <1>9, <1>10 DEF LoopInv
(* An empty buffer has nothing left after a send. *)
LEMMA NothingLeft ==
  ASSUME NEW k \in Nat
  PROVE  SubSeq(<<>>, k + 1, Len(<<>>)) = <<>>
  OBVIOUS

LEMMA LoopInvStep == TypeOK /\ LoopInv /\ [Next]_vars => LoopInv'
<1> SUFFICES ASSUME TypeOK, LoopInv, [Next]_vars PROVE LoopInv'
  OBVIOUS
<1>1. ASSUME Peer \/ Stop \/ UNCHANGED vars PROVE LoopInv'
  <2>1. UNCHANGED <<memVars, batch, cur>>
    BY <1>1 DEF Peer, ClientConnects, PeerSends, PeerReads, PeerCloses, ConnectResolves,
       Stop, vars, loopVars
  <2> QED
    BY <2>1, LoopInvSame
<1>2. ASSUME EpollWait PROVE LoopInv'
  <2>1. UNCHANGED <<memVars, cur>> /\ batch' \subseteq ReadyEvents
    BY <1>2 DEF EpollWait
  <2>2. \A e \in ReadyEvents : e.c # Listen => e.c \in watched
    BY DEF ReadyEvents
  <2>3. InterestMatchesBuffers' /\ PairShape' /\ OnlyClosedQueued'
    BY <2>1 DEF LoopInv, InterestMatchesBuffers, PairShape, OnlyClosedQueued, memVars
  <2>4. EventsLive'
    BY <2>1, <2>2 DEF LoopInv, EventsLive, memVars
  <2> QED
    BY <2>3, <2>4 DEF LoopInv
<1>3. ASSUME FlushClosedConnections PROVE LoopInv'
  <2>1. /\ UNCHANGED <<batch, cur, watched, interest, buf>> /\ batch = {} /\ cur = NoEvent
        /\ closedQ' = <<>>
        /\ \A p \in Pairs : state'[p] = IF \E i \in 1..Len(closedQ) : closedQ[i][1] = p
                                        THEN "free" ELSE state[p]
    BY <1>3 DEF FlushClosedConnections
  <2>2. \A p \in Pairs : state'[p] = state[p] \/ (state[p] = "closed" /\ state'[p] = "free")
    BY <2>1 DEF LoopInv, OnlyClosedQueued
  <2>3. InterestMatchesBuffers' /\ PairShape'
    BY <2>1, <2>2 DEF LoopInv, InterestMatchesBuffers, PairShape
  <2>4. OnlyClosedQueued' /\ EventsLive'
    BY <2>1 DEF OnlyClosedQueued, EventsLive
  <2> QED
    BY <2>3, <2>4 DEF LoopInv
<1>4. ASSUME NEW e \in batch, TakeEvent(e) PROVE LoopInv'
  <2>1. UNCHANGED memVars /\ batch' \subseteq batch
        /\ cur' = IF e.c # Listen /\ state[e.c[1]] = "closed" THEN NoEvent ELSE e
    BY <1>4 DEF TakeEvent
  <2>2. InterestMatchesBuffers' /\ PairShape' /\ OnlyClosedQueued'
    BY <2>1 DEF LoopInv, InterestMatchesBuffers, PairShape, OnlyClosedQueued, memVars
  <2>3. EventsLive'
    BY <2>1 DEF LoopInv, EventsLive, memVars
  <2> QED
    BY <2>2, <2>3 DEF LoopInv
<1>5. ASSUME EventDone \/ AcceptFails \/ AcceptDenied PROVE LoopInv'
  <2>1. UNCHANGED memVars /\ (Continue \/ Break)
    BY <1>5 DEF EventDone, AcceptFails, AcceptDenied
  <2>2. batch' \subseteq batch /\ cur' = NoEvent
    BY <2>1 DEF Continue, Break
  <2> QED
    BY <2>1, <2>2, LoopInvSame
<1>6. ASSUME NEW p \in Pairs, Accept(p) PROVE LoopInv'
  <2>1. /\ state[p] = "free" /\ Continue
        /\ buf' = [buf EXCEPT ![Rx(p)] = <<>>, ![Tx(p)] = <<>>]
        /\ AcceptConnected(p) \/ AcceptInProgress(p) \/ AcceptAborted(p)
    BY <1>6 DEF Accept, Allocate
  <2>2. batch' \subseteq batch /\ cur' = NoEvent
    BY <2>1 DEF Continue
  <2>3. buf'[Rx(p)] = <<>> /\ buf'[Tx(p)] = <<>>
    BY <2>1, ConnFacts DEF TypeOK
  <2>4. \A c \in Conn : c[1] # p => c # Rx(p) /\ c # Tx(p)
    BY ConnFacts
  <2>5. \A c \in Conn : c[1] # p => buf'[c] = buf[c] /\ interest'[c] = interest[c]
    BY <2>1, <2>4 DEF AcceptConnected, StartReceive, AcceptInProgress, AcceptAborted, TypeOK
  <2> QED
    BY <2>1, <2>2, <2>3, <2>5, LoopInvPair DEF AcceptConnected
<1>7. ASSUME NEW c \in Conn,
             InEof(c) \/ InSendFails(c) \/ OutConnectFails(c) \/ OutSendFails(c) \/ Hup(c)
      PROVE  LoopInv'
  <2>1. CloseConnections(c) /\ (Continue \/ Break)
    BY <1>7 DEF InEof, InSendFails, OutConnectFails, OutSendFails, Hup
  <2> QED
    BY <2>1, LoopInvClose
<1>8. ASSUME NEW c \in Conn, InData(c) PROVE LoopInv'
  <2>1. cur # NoEvent /\ cur.c = c
    BY <1>8 DEF InData, Handling
  <2>2. c \in watched
    BY <2>1, ConnFacts DEF LoopInv, EventsLive
  <2>3. PICK left : \/ Proceed("in") /\ UNCHANGED memVars
                    \/ /\ Sib(c) \in watched
                       /\ buf' = [buf EXCEPT ![c] = left]
                       /\ SwitchMod(c, [buf EXCEPT ![c] = left])
                       /\ Proceed("in")
                       /\ UNCHANGED <<state, watched, closedQ>>
                    \/ CloseConnections(Sib(c)) /\ Break
    BY <1>8 DEF InData
  <2>4. Proceed("in") => cur' # NoEvent /\ cur'.c = cur.c /\ batch' = batch
    <3>1. [cur EXCEPT !.ev = @ \ {"in"}] \in Event /\ [cur EXCEPT !.ev = @ \ {"in"}].c = cur.c
      BY <2>1, EventFlags DEF TypeOK, Event
    <3> QED
      BY <3>1, ConstantsAssumption DEF Proceed, Event, Conn, Flags
  <2>5. CASE Proceed("in") /\ UNCHANGED memVars
    BY <2>1, <2>4, <2>5, LoopInvSame
  <2>6. CASE /\ Sib(c) \in watched
             /\ buf' = [buf EXCEPT ![c] = left]
             /\ SwitchMod(c, [buf EXCEPT ![c] = left])
             /\ Proceed("in")
             /\ UNCHANGED <<state, watched, closedQ>>
    <3>1. state[c[1]] = "open"
      BY <2>2, <2>6, WatchedIsOpen
    <3> QED
      BY <2>1, <2>4, <2>6, <3>1, LoopInvSwitch
  <2>7. CASE CloseConnections(Sib(c)) /\ Break
    BY <2>7, LoopInvClose, ConnFacts
  <2> QED
    BY <2>3, <2>5, <2>6, <2>7
<1>9. ASSUME NEW c \in Conn, OutConnected(c) PROVE LoopInv'
  <2>1. /\ cur # NoEvent /\ Proceed("out") /\ Connecting(c) /\ StartReceive(c[1])
        /\ UNCHANGED <<buf, closedQ>>
    BY <1>9 DEF OutConnected, HandlingOut, Handling
  <2>2. batch' \subseteq batch /\ (cur' = NoEvent \/ (cur # NoEvent /\ cur'.c = cur.c))
    BY <2>1, ContinueFacts
  <2>3. c[1] \in Pairs /\ state[c[1]] = "connecting"
    BY <2>1, ConnFacts DEF Connecting
  <2>4. buf'[Rx(c[1])] = <<>> /\ buf'[Tx(c[1])] = <<>>
    BY <2>1, <2>3 DEF LoopInv, PairShape
  <2>5. \A d \in Conn : d[1] # c[1] => d # Rx(c[1]) /\ d # Tx(c[1])
    BY <2>3, ConnFacts
  <2>6. \A d \in Conn : d[1] # c[1] => buf'[d] = buf[d] /\ interest'[d] = interest[d]
    BY <2>1, <2>5 DEF StartReceive, TypeOK
  <2> QED
    BY <2>1, <2>2, <2>3, <2>4, <2>6, LoopInvPair
<1>10. ASSUME NEW c \in Conn, OutData(c) PROVE LoopInv'
  <2> DEFINE k    == Least(Len(buf[Sib(c)]), room[c])
             left == SubSeq(buf[Sib(c)], k + 1, Len(buf[Sib(c)]))
  <2>1. /\ cur # NoEvent /\ cur.c = c /\ ~ Connecting(c) /\ Proceed("out")
        /\ buf' = [buf EXCEPT ![Sib(c)] = left]
        /\ IF left = <<>> THEN SwitchMod(c, [buf EXCEPT ![Sib(c)] = left]) ELSE UNCHANGED interest
        /\ UNCHANGED <<state, watched, closedQ>>
    BY <1>10 DEF OutData, HandlingOut, Handling
  <2>2. cur' # NoEvent /\ cur'.c = cur.c /\ batch' = batch
    <3>1. [cur EXCEPT !.ev = @ \ {"out"}] \in Event /\ [cur EXCEPT !.ev = @ \ {"out"}].c = cur.c
      BY <2>1, EventFlags DEF TypeOK, Event
    <3> QED
      BY <2>1, <3>1, ConstantsAssumption DEF Proceed, Event, Conn, Flags
  <2>3. c \in watched
    BY <2>1, ConnFacts DEF LoopInv, EventsLive
  <2>4. state[c[1]] = "open"
    BY <2>1, <2>3, WatchedIsOpen
  <2>5. CASE left = <<>>
    BY <2>1, <2>2, <2>4, <2>5, LoopInvSwitch
  <2>6. CASE left # <<>>
    <3>1. Sib(c) \in Conn /\ buf[Sib(c)] \in Seq(Nat) /\ Len(buf[Sib(c)]) \in Nat /\ room[c] \in Nat
      BY ConnFacts DEF TypeOK
    <3>2. k \in Nat
      BY <3>1, LeastFacts
    <3>3. buf[Sib(c)] # <<>>
      BY <2>6, <3>2, NothingLeft
    <3> HIDE DEF left
    <3>4. \A d \in Conn : buf'[d] = <<>> <=> buf[d] = <<>>
      BY <2>1, <2>6, <3>1, <3>3 DEF TypeOK
    <3>5. UNCHANGED <<interest, state, watched, closedQ>>
      BY <2>1, <2>6
    <3>6. InterestMatchesBuffers'
      BY <3>4, <3>5, ConnFacts DEF LoopInv, InterestMatchesBuffers
    <3>7. PairShape'
      BY <3>4, <3>5, ConnFacts DEF LoopInv, PairShape
    <3>8. OnlyClosedQueued'
      BY <3>5 DEF LoopInv, OnlyClosedQueued
    <3>9. EventsLive'
      BY <2>1, <2>2, <2>3, <3>5 DEF LoopInv, EventsLive
    <3> QED
      BY <3>6, <3>7, <3>8, <3>9 DEF LoopInv
  <2> QED
    BY <2>5, <2>6
<1> QED
  BY <1>1, <1>2, <1>3, <1>4, <1>5, <1>6, <1>7, <1>8, <1>9, <1>10 DEF Next, Step

LEMMA LoopInvariant == Spec => []LoopInv
<1>1. Init => LoopInv
  BY DEF Init, LoopInv, InterestMatchesBuffers, PairShape, OnlyClosedQueued, EventsLive, Conn, Rx, Tx
<1> QED
  BY <1>1, TypeCorrect, LoopInvStep, PTL DEF Spec

(* Whatever the peers do and however stale the events of a batch are, epoll  *)
(* is asked for exactly what the buffers of an open pair call for.           *)
THEOREM InterestCorrect == Spec => []InterestMatchesBuffers
<1>1. LoopInv => InterestMatchesBuffers
  BY DEF LoopInv
<1> QED
  BY <1>1, LoopInvariant, PTL

(* Deferring the frees to the end of the batch is enough: no event ever       *)
(* leads to a freed struct client.                                            *)
THEOREM MemorySafe == Spec => []NoUseAfterFree
<1>1. TypeOK /\ LoopInv => NoUseAfterFree
  <2> SUFFICES ASSUME TypeOK, LoopInv, NEW e \in batch \cup ({cur} \ {NoEvent}), e.c # Listen
               PROVE  state[e.c[1]] # "free"
    BY DEF NoUseAfterFree
  <2>1. e.c \in Conn
    BY DEF TypeOK, Event
  <2>2. e.c \in watched \/ state[e.c[1]] = "closed"
    BY DEF LoopInv, EventsLive
  <2> QED
    BY <2>1, <2>2, ConnFacts DEF LoopInv, PairShape
<1> QED
  BY <1>1, TypeCorrect, LoopInvariant, PTL
-----------------------------------------------------------------------------
(* The queue of closed connections.  Every event of a batch has two places   *)
(* reserved until it has been handled; the queue is empty between batches.   *)
BetweenBatches == loop # "walk" => closedQ = <<>> /\ batch = {} /\ cur = NoEvent

QueueInv == IsFiniteSet(batch) /\ BetweenBatches /\ ClosedQueueSound

LEMMA ReadyIsFinite == ASSUME TypeOK PROVE IsFiniteSet(ReadyEvents)
<1> DEFINE S == {d \in watched : ReadyFlags(d) # {}}
           f == [d \in S |-> [c |-> d, ev |-> ReadyFlags(d)]]
           T == {[c |-> c, ev |-> ReadyFlags(c)] : c \in S}
           L == [c |-> Listen, ev |-> {"in"}]
<1>1. IsFiniteSet({"rx", "tx"})
  <2>1. IsFiniteSet({"rx"})
    BY FS_Singleton
  <2>2. IsFiniteSet({"rx"} \cup {"tx"})
    BY <2>1, FS_AddElement
  <2>3. {"rx"} \cup {"tx"} = {"rx", "tx"}
    OBVIOUS
  <2> QED
    BY <2>2, <2>3
<1>2. IsFiniteSet(Conn)
  BY <1>1, FS_Product, ConstantsAssumption DEF Conn
<1>3. IsFiniteSet(S)
  BY <1>2, FS_Subset, S \in SUBSET Conn DEF TypeOK
<1>4. f \in Surjection(S, T)
  BY DEF Surjection
<1>5. IsFiniteSet(T)
  <2> HIDE DEF S, T, f
  <2> QED
    BY <1>3, <1>4, FS_Surjection
<1>6. IsFiniteSet(T \cup {L})
  <2> HIDE DEF T, L
  <2> QED
    BY <1>5, FS_AddElement
<1>7. ReadyEvents = T \/ ReadyEvents = T \cup {L}
  BY DEF ReadyEvents
<1> QED
  BY <1>5, <1>6, <1>7

(* Steps that queue nothing and take no event. *)
LEMMA QueueSame ==
  ASSUME TypeOK, QueueInv, UNCHANGED closedQ, loop' = loop \/ loop = "wait",
         batch' \subseteq batch, cur = NoEvent => cur' = NoEvent
  PROVE  QueueInv'
<1>1. IsFiniteSet(batch') /\ Cardinality(batch') <= Cardinality(batch)
      /\ Cardinality(batch) \in Nat /\ Cardinality(batch') \in Nat
  BY FS_Subset, FS_CardinalityType DEF QueueInv
<1>2. BetweenBatches'
  BY DEF QueueInv, BetweenBatches, TypeOK
<1>3. Len(closedQ) \in Nat /\ MaxEvents \in Nat
  BY ConstantsAssumption DEF TypeOK
<1>4. (IF cur' = NoEvent THEN 0 ELSE 2) <= (IF cur = NoEvent THEN 0 ELSE 2)
  OBVIOUS
<1>5. ClosedQueueSound'
  BY <1>1, <1>3, <1>4 DEF QueueInv, ClosedQueueSound
<1> QED
  BY <1>1, <1>2, <1>5 DEF QueueInv

(* An event queues one struct or both of a pair that is not queued yet. *)
LEMMA QueueGrows ==
  ASSUME TypeOK, LoopInv, QueueInv, NEW c \in Conn, state[c[1]] # "closed", cur # NoEvent,
         closedQ' = closedQ \o <<c>> \/ closedQ' = closedQ \o <<c, Sib(c)>>,
         Continue \/ Break, UNCHANGED loop
  PROVE  QueueInv'
<1>1. batch' \subseteq batch /\ cur' = NoEvent
  BY DEF Continue, Break
<1>2. IsFiniteSet(batch') /\ Cardinality(batch') <= Cardinality(batch)
      /\ Cardinality(batch) \in Nat /\ Cardinality(batch') \in Nat
  BY <1>1, FS_Subset, FS_CardinalityType DEF QueueInv
<1>3. BetweenBatches'
  BY DEF QueueInv, BetweenBatches
<1>4. Sib(c) \in Conn /\ Sib(c) # c /\ Sib(c)[1] = c[1]
  BY ConnFacts
<1>5. /\ Len(closedQ) \in Nat /\ MaxEvents \in Nat
      /\ Len(closedQ') \in {Len(closedQ) + 1, Len(closedQ) + 2}
      /\ \A i \in 1..Len(closedQ) : closedQ'[i] = closedQ[i]
      /\ closedQ'[Len(closedQ) + 1] = c
      /\ Len(closedQ') = Len(closedQ) + 2 => closedQ'[Len(closedQ) + 2] = Sib(c)
  <2>1. CASE closedQ' = closedQ \o <<c>>
    BY <2>1, ConstantsAssumption DEF TypeOK
  <2>2. CASE closedQ' = closedQ \o <<c, Sib(c)>>
    BY <2>2, <1>4, ConcatTwo, ConstantsAssumption DEF TypeOK
  <2> QED
    BY <2>1, <2>2
<1>6. \A i \in 1..Len(closedQ) : closedQ[i] # c /\ closedQ[i] # Sib(c)
  BY <1>4 DEF LoopInv, OnlyClosedQueued
<1>7. \A i, j \in 1..Len(closedQ') : closedQ'[i] = closedQ'[j] => i = j
  <2>1. \A i, j \in 1..Len(closedQ) : closedQ[i] = closedQ[j] => i = j
    BY DEF QueueInv, ClosedQueueSound
  <2>2. \A i \in 1..Len(closedQ') : \/ i \in 1..Len(closedQ)
                                    \/ i = Len(closedQ) + 1
                                    \/ i = Len(closedQ) + 2 /\ Len(closedQ') = Len(closedQ) + 2
    BY <1>5
  <2> SUFFICES ASSUME NEW i \in 1..Len(closedQ'), NEW j \in 1..Len(closedQ'),
                      closedQ'[i] = closedQ'[j]
               PROVE  i = j
    OBVIOUS
  <2>3. CASE i \in 1..Len(closedQ)
    BY <1>5, <1>6, <2>1, <2>2, <2>3
  <2>4. CASE j \in 1..Len(closedQ)
    BY <1>5, <1>6, <2>1, <2>2, <2>4
  <2>5. CASE i \notin 1..Len(closedQ) /\ j \notin 1..Len(closedQ)
    BY <1>4, <1>5, <2>2, <2>5
  <2> QED
    BY <2>3, <2>4, <2>5
<1>8. ClosedQueueSound'
  BY <1>1, <1>2, <1>5, <1>7 DEF QueueInv, ClosedQueueSound
<1> QED
  BY <1>2, <1>3, <1>8 DEF QueueInv

LEMMA HandledNotClosed ==
  ASSUME TypeOK, LoopInv, NEW c \in Conn, cur # NoEvent, cur.c = c
  PROVE  state[c[1]] # "closed"
<1>1. c \in watched /\ c[1] \in Pairs /\ (c = Rx(c[1]) \/ c = Tx(c[1]))
  BY ConnFacts DEF LoopInv, EventsLive
<1> QED
  BY <1>1 DEF LoopInv, PairShape

LEMMA QueueStep == TypeOK /\ LoopInv /\ QueueInv /\ [Next]_vars => QueueInv'
<1> SUFFICES ASSUME TypeOK, LoopInv, QueueInv, [Next]_vars PROVE QueueInv'
  OBVIOUS
<1>1. ASSUME Peer \/ Stop \/ UNCHANGED vars PROVE QueueInv'
  <2>1. UNCHANGED <<closedQ, batch, cur>> /\ (loop' = loop \/ loop = "wait")
    BY <1>1 DEF Peer, ClientConnects, PeerSends, PeerReads, PeerCloses, ConnectResolves,
       Stop, vars, loopVars, memVars
  <2> QED
    BY <2>1, QueueSame
<1>2. ASSUME EpollWait PROVE QueueInv'
  <2>1. /\ loop = "wait" /\ loop' = "walk" /\ UNCHANGED <<cur, closedQ>>
        /\ batch' \in SUBSET ReadyEvents
        /\ Cardinality(batch') = Least(Cardinality(ReadyEvents), MaxEvents)
    BY <1>2 DEF EpollWait, memVars
  <2>2. IsFiniteSet(batch')
    BY <2>1, ReadyIsFinite, FS_Subset
  <2>3. Cardinality(batch') <= MaxEvents /\ Cardinality(batch') \in Nat
    BY <2>1, <2>2, ReadyIsFinite, FS_CardinalityType, LeastFacts, ConstantsAssumption
  <2>4. closedQ = <<>> /\ cur = NoEvent
    BY <2>1 DEF QueueInv, BetweenBatches
  <2>5. BetweenBatches'
    BY <2>1 DEF BetweenBatches
  <2>6. ClosedQueueSound'
    BY <2>1, <2>3, <2>4, ConstantsAssumption DEF ClosedQueueSound
  <2> QED
    BY <2>2, <2>5, <2>6 DEF QueueInv
<1>3. ASSUME FlushClosedConnections PROVE QueueInv'
  <2>1. closedQ' = <<>> /\ batch' = {} /\ cur' = NoEvent
    BY <1>3 DEF FlushClosedConnections
  <2>2. IsFiniteSet(batch') /\ Cardinality(batch') = 0
    BY <2>1, FS_EmptySet
  <2>3. ClosedQueueSound'
    BY <2>1, <2>2, ConstantsAssumption DEF ClosedQueueSound
  <2> QED
    BY <2>1, <2>2, <2>3 DEF QueueInv, BetweenBatches
<1>4. ASSUME NEW e \in batch, TakeEvent(e) PROVE QueueInv'
  <2>1. loop' = "walk" /\ UNCHANGED closedQ /\ batch' = batch \ {e} /\ cur = NoEvent
    BY <1>4 DEF TakeEvent, memVars
  <2>2. /\ IsFiniteSet(batch') /\ Cardinality(batch') = Cardinality(batch) - 1
        /\ Cardinality(batch) \in Nat /\ Len(closedQ) \in Nat /\ MaxEvents \in Nat
    BY <2>1, FS_RemoveElement, FS_CardinalityType, ConstantsAssumption DEF QueueInv, TypeOK
  <2>3. ClosedQueueSound'
    BY <2>1, <2>2 DEF QueueInv, ClosedQueueSound
  <2> QED
    BY <2>1, <2>2, <2>3 DEF QueueInv, BetweenBatches
<1>5. ASSUME EventDone \/ AcceptFails \/ AcceptDenied PROVE QueueInv'
  <2>1. UNCHANGED <<closedQ, loop>> /\ (Continue \/ Break)
    BY <1>5 DEF EventDone, AcceptFails, AcceptDenied, memVars
  <2>2. batch' \subseteq batch /\ cur' = NoEvent
    BY <2>1 DEF Continue, Break
  <2> QED
    BY <2>1, <2>2, QueueSame
<1>6. ASSUME NEW p \in Pairs, Accept(p) PROVE QueueInv'
  <2>1. /\ state[p] = "free" /\ Continue /\ UNCHANGED loop /\ cur # NoEvent
        /\ AcceptConnected(p) \/ AcceptInProgress(p) \/ AcceptAborted(p)
    BY <1>6 DEF Accept, Allocate, Handling
  <2>2. UNCHANGED closedQ \/ closedQ' = closedQ \o <<Rx(p)>> \/ closedQ' = closedQ \o <<Rx(p), Tx(p)>>
    BY <2>1 DEF AcceptConnected, AcceptInProgress, AcceptAborted
  <2>3. CASE UNCHANGED closedQ
    BY <2>1, <2>3, QueueSame DEF Continue
  <2>4. CASE closedQ' = closedQ \o <<Rx(p)>> \/ closedQ' = closedQ \o <<Rx(p), Tx(p)>>
    <3>1. Rx(p) \in Conn /\ Rx(p)[1] = p /\ Sib(Rx(p)) = Tx(p)
      BY ConnFacts
    <3> QED
      BY <2>1, <2>4, <3>1, QueueGrows
  <2> QED
    BY <2>2, <2>3, <2>4
<1>7. ASSUME NEW c \in Conn,
             InEof(c) \/ InSendFails(c) \/ OutConnectFails(c) \/ OutSendFails(c) \/ Hup(c)
      PROVE  QueueInv'
  <2>1. CloseConnections(c) /\ (Continue \/ Break) /\ UNCHANGED loop /\ cur # NoEvent /\ cur.c = c
    BY <1>7 DEF InEof, InSendFails, OutConnectFails, OutSendFails, Hup, HandlingOut, Handling
  <2>2. state[c[1]] # "closed" /\ closedQ' = closedQ \o <<c, Sib(c)>>
    BY <2>1, HandledNotClosed DEF CloseConnections
  <2> QED
    BY <2>1, <2>2, QueueGrows
<1>8. ASSUME NEW c \in Conn, InData(c) \/ OutConnected(c) \/ OutData(c) PROVE QueueInv'
  <2>1. cur # NoEvent /\ cur.c = c /\ UNCHANGED loop
    BY <1>8 DEF InData, OutConnected, OutData, HandlingOut, Handling
  <2>2. \/ (Proceed("in") \/ Proceed("out")) /\ UNCHANGED closedQ
        \/ CloseConnections(Sib(c)) /\ Break
    BY <1>8 DEF InData, OutConnected, OutData, memVars
  <2>3. CASE (Proceed("in") \/ Proceed("out")) /\ UNCHANGED closedQ
    BY <2>1, <2>3, QueueSame DEF Proceed
  <2>4. CASE CloseConnections(Sib(c)) /\ Break
    <3>1. Sib(c) \in Conn /\ Sib(c)[1] = c[1] /\ Sib(Sib(c)) = c
      BY ConnFacts
    <3>2. state[Sib(c)[1]] # "closed"
      BY <2>1, <3>1, HandledNotClosed
    <3> QED
      BY <2>1, <2>4, <3>1, <3>2, QueueGrows DEF CloseConnections
  <2> QED
    BY <2>2, <2>3, <2>4
<1> QED
  BY <1>1, <1>2, <1>3, <1>4, <1>5, <1>6, <1>7, <1>8 DEF Next, Step

(* closed_clients never overflows and no struct client is freed twice, for    *)
(* every MAX_EVENTS, every number of pairs and every order of a batch.        *)
THEOREM QueueCorrect == Spec => []ClosedQueueSound
<1>1. Init => QueueInv
  <2>1. Init => closedQ = <<>> /\ batch = {} /\ cur = NoEvent /\ Cardinality({}) = 0 /\ IsFiniteSet({})
    BY FS_EmptySet DEF Init
  <2>2. Init => Len(closedQ) = 0 /\ MaxEvents \in Nat
    BY ConstantsAssumption DEF Init
  <2>3. Init => ClosedQueueSound
    <3> SUFFICES ASSUME Init PROVE ClosedQueueSound
      OBVIOUS
    <3>0. Cardinality(batch) = 0 /\ cur = NoEvent /\ Len(closedQ) = 0
      BY <2>1, <2>2, Zenon
    <3>1. Len(closedQ) + 2 * Cardinality(batch) + (IF cur = NoEvent THEN 0 ELSE 2) = 0
      BY <3>0
    <3>2. 1..Len(closedQ) = {} /\ 0 <= 2 * MaxEvents
      BY <2>2
    <3> QED
      BY <3>1, <3>2 DEF ClosedQueueSound
  <2> QED
    BY <2>1, <2>3 DEF QueueInv, BetweenBatches
<1>2. QueueInv => ClosedQueueSound
  BY DEF QueueInv
<1> QED
  BY <1>1, <1>2, TypeCorrect, LoopInvariant, QueueStep, PTL DEF Spec

-----------------------------------------------------------------------------
LEMMA UnitsConcat ==
  ASSUME NEW n \in Nat, NEW k \in Nat
  PROVE  Units(0, n) \o Units(n, k) = Units(0, n + k)
<1>1. Units(0, n) \in Seq(Nat) /\ Units(n, k) \in Seq(Nat) /\ Units(0, n + k) \in Seq(Nat)
  BY UnitsType
<1>2. Len(Units(0, n)) = n /\ Len(Units(n, k)) = k /\ Len(Units(0, n + k)) = n + k
  BY UnitsType
<1>3. /\ Units(0, n) \o Units(n, k) \in Seq(Nat)
      /\ Len(Units(0, n) \o Units(n, k)) = n + k
      /\ \A i \in 1..(n + k) : (Units(0, n) \o Units(n, k))[i] =
                                 IF i <= n THEN Units(0, n)[i] ELSE Units(n, k)[i - n]
  <2> DEFINE u == Units(0, n)
             v == Units(n, k)
  <2>1. u \in Seq(Nat) /\ v \in Seq(Nat) /\ Len(u) = n /\ Len(v) = k
    BY <1>1, <1>2
  <2> HIDE DEF u, v
  <2>2. /\ u \o v \in Seq(Nat) /\ Len(u \o v) = Len(u) + Len(v)
        /\ \A i \in 1..(Len(u) + Len(v)) : (u \o v)[i] = IF i <= Len(u) THEN u[i] ELSE v[i - Len(u)]
    BY <2>1
  <2>3. /\ u \o v \in Seq(Nat) /\ Len(u \o v) = n + k
        /\ \A i \in 1..(n + k) : (u \o v)[i] = IF i <= n THEN u[i] ELSE v[i - n]
    BY <2>1, <2>2
  <2> QED
    BY <2>3 DEF u, v
<1>4. ASSUME NEW i \in 1..(n + k)
      PROVE  (Units(0, n) \o Units(n, k))[i] = Units(0, n + k)[i]
  <2>1. Units(0, n + k)[i] = i
    BY DEF Units
  <2>2. CASE i <= n
    BY <1>3, <2>1, <2>2 DEF Units
  <2>3. CASE ~ (i <= n)
    BY <1>3, <2>1, <2>3 DEF Units
  <2> QED
    BY <2>2, <2>3
<1> QED
  BY <1>1, <1>2, <1>3, <1>4, SeqEqual

LEMMA ConcatAssoc ==
  ASSUME NEW d \in Seq(Nat), NEW x \in Seq(Nat), NEW y \in Seq(Nat)
  PROVE  (d \o x) \o y = d \o (x \o y)
  OBVIOUS

(* Splitting a buffer at k and sending its first part changes nothing.        *)
LEMMA SplitConcat ==
  ASSUME NEW d \in Seq(Nat), NEW b \in Seq(Nat), NEW k \in 0..Len(b)
  PROVE  (d \o SubSeq(b, 1, k)) \o SubSeq(b, k + 1, Len(b)) = d \o b
<1>1. Len(b) \in Nat
  BY LenProperties
<1>2. SubSeq(b, 1, k) \in Seq(Nat) /\ SubSeq(b, k + 1, Len(b)) \in Seq(Nat)
  BY <1>1, SubSeqType
<1>3. SubSeq(b, 1, k) \o SubSeq(b, k + 1, Len(b)) = SubSeq(b, 1, Len(b))
  <2>1. 1 \in 1..(Len(b) + 1) /\ k \in (1 - 1)..Len(b) /\ Len(b) \in k..Len(b)
    BY <1>1
  <2>2. \A m \in 1..(Len(b) + 1) : \A j \in (m - 1)..Len(b) : \A n \in j..Len(b) :
          SubSeq(b, m, j) \o SubSeq(b, j + 1, n) = SubSeq(b, m, n)
    BY ConcatAdjacentSubSeq, Zenon
  <2> QED
    BY <2>1, <2>2, Zenon
<1>4. SubSeq(b, 1, Len(b)) = b
  BY SubSeqFull
<1> DEFINE x == SubSeq(b, 1, k)
           y == SubSeq(b, k + 1, Len(b))
<1>5. x \in Seq(Nat) /\ y \in Seq(Nat) /\ x \o y = b
  BY <1>2, <1>3, <1>4
<1> HIDE DEF x, y
<1>6. (d \o x) \o y = d \o b
  BY <1>5, ConcatAssoc
<1> QED
  BY <1>6 DEF x, y

LEMMA StreamFrame ==
  ASSUME TypeOK, StreamInv, UNCHANGED <<buf, read, delivered>>,
         \A p \in Pairs : \/ state'[p] = state[p] \/ state'[p] \in {"free", "closed"}
                          \/ state[p] = "connecting"
  PROVE  StreamInv'
  BY ConnFacts DEF StreamInv

LEMMA StreamClose ==
  ASSUME TypeOK, StreamInv, UNCHANGED <<read, delivered>>, NEW c \in Conn, CloseConnections(c)
  PROVE  StreamInv'
<1>1. c[1] \in Pairs
  BY ConnFacts
<1>2. UNCHANGED buf /\ \A p \in Pairs : state'[p] = state[p] \/ state'[p] \in {"free", "closed"}
  BY <1>1 DEF CloseConnections, TypeOK
<1> QED
  BY <1>2, StreamFrame

LEMMA StreamAccept ==
  ASSUME TypeOK, StreamInv, NEW q \in Pairs, Accept(q)
  PROVE  StreamInv'
<1>1. /\ buf' = [buf EXCEPT ![Rx(q)] = <<>>, ![Tx(q)] = <<>>]
      /\ read' = [read EXCEPT ![Rx(q)] = 0, ![Tx(q)] = 0]
      /\ delivered' = [delivered EXCEPT ![Rx(q)] = <<>>, ![Tx(q)] = <<>>]
  BY DEF Accept, Allocate
<1>2. \A p \in Pairs : p # q => state'[p] = state[p]
  BY DEF Accept, AcceptConnected, AcceptInProgress, AcceptAborted, StartReceive, TypeOK
<1>3. <<>> \o <<>> = Units(0, 0)
  BY DEF Units
<1> SUFFICES ASSUME NEW c \in Conn, state'[c[1]] \in {"connecting", "open"}
             PROVE  delivered'[Sib(c)] \o buf'[c] = Units(0, read'[c])
  BY DEF StreamInv
<1>4. CASE c[1] = q
  <2>1. c \in {Rx(q), Tx(q)} /\ Sib(c) \in {Rx(q), Tx(q)} /\ Rx(q) \in Conn /\ Tx(q) \in Conn
    BY <1>4, ConnFacts
  <2>2. \A d \in {Rx(q), Tx(q)} : buf'[d] = <<>> /\ read'[d] = 0 /\ delivered'[d] = <<>>
    BY <1>1, <2>1 DEF TypeOK
  <2> QED
    BY <2>1, <2>2, <1>3
<1>5. CASE c[1] # q
  <2>1. c \notin {Rx(q), Tx(q)} /\ Sib(c) \notin {Rx(q), Tx(q)} /\ Sib(c) \in Conn /\ c[1] \in Pairs
    BY <1>5, ConnFacts
  <2>2. buf'[c] = buf[c] /\ read'[c] = read[c] /\ delivered'[Sib(c)] = delivered[Sib(c)]
    BY <1>1, <2>1 DEF TypeOK
  <2> QED
    BY <2>1, <2>2, <1>2, <1>5 DEF StreamInv
<1> QED
  BY <1>4, <1>5

LEMMA StreamIn ==
  ASSUME TypeOK, StreamInv, NEW c \in Conn, InData(c)
  PROVE  StreamInv'
<1> DEFINE n    == Least(Avail(c), BufSize)
           k    == Least(n, room[Sib(c)])
           new  == Units(read[c], n)
           left == SubSeq(new, k + 1, n)
<1>1. /\ buf[c] = <<>> /\ Avail(c) > 0
      /\ read' = [read EXCEPT ![c] = @ + n]
      /\ delivered' = [delivered EXCEPT ![Sib(c)] = @ \o SubSeq(new, 1, k)]
      /\ \/ left = <<>> /\ UNCHANGED <<buf, state>>
         \/ buf' = [buf EXCEPT ![c] = left] /\ UNCHANGED state
         \/ CloseConnections(Sib(c))
  BY DEF InData, memVars
<1>2. /\ Sib(c) \in Conn /\ Sib(c) # c /\ read[c] \in Nat /\ sent[c] \in Nat /\ room[Sib(c)] \in Nat
      /\ delivered[Sib(c)] \in Seq(Nat) /\ BufSize \in Nat
  BY ConnFacts, ConstantsAssumption DEF TypeOK
<1>3. n \in Nat /\ k \in Nat /\ k <= n
  <2>1. Avail(c) \in Nat
    BY <1>1, <1>2 DEF Avail
  <2>2. n \in Nat
    BY <1>2, <2>1, LeastFacts
  <2> HIDE DEF n
  <2> QED
    BY <1>2, <2>2, LeastFacts
<1>4. new \in Seq(Nat) /\ Len(new) = n
  BY <1>2, <1>3, UnitsType
<1> HIDE DEF n, k, new
<1>5. state[c[1]] \in {"connecting", "open"} =>
        (delivered[Sib(c)] \o SubSeq(new, 1, k)) \o left = Units(0, read[c] + n)
  <2> SUFFICES ASSUME state[c[1]] \in {"connecting", "open"}
               PROVE  (delivered[Sib(c)] \o SubSeq(new, 1, k)) \o left = Units(0, read[c] + n)
    OBVIOUS
  <2>1. delivered[Sib(c)] \o <<>> = Units(0, read[c])
    BY <1>1 DEF StreamInv
  <2>2. delivered[Sib(c)] = Units(0, read[c])
    BY <1>2, <2>1, ConcatEmptySeq
  <2>3. (delivered[Sib(c)] \o SubSeq(new, 1, k)) \o SubSeq(new, k + 1, Len(new))
          = delivered[Sib(c)] \o new
    <3>1. k \in 0..Len(new)
      BY <1>3, <1>4
    <3> QED
      BY <1>2, <1>4, <3>1, SplitConcat
  <2>4. Units(0, read[c]) \o new = Units(0, read[c] + n)
    BY <1>2, <1>3, UnitsConcat DEF new
  <2> QED
    BY <1>4, <2>2, <2>3, <2>4
<1> SUFFICES ASSUME NEW d \in Conn, state'[d[1]] \in {"connecting", "open"}
             PROVE  delivered'[Sib(d)] \o buf'[d] = Units(0, read'[d])
  BY DEF StreamInv
<1>6. state'[d[1]] = state[d[1]] /\ (d[1] = c[1] => ~ CloseConnections(Sib(c)))
  <2>1. d[1] \in Pairs /\ c[1] \in Pairs /\ Sib(c)[1] = c[1]
    BY ConnFacts
  <2>2. CloseConnections(Sib(c)) => state' = [state EXCEPT ![c[1]] = "closed"]
    BY <2>1 DEF CloseConnections
  <2>3. CASE CloseConnections(Sib(c))
    BY <2>1, <2>2, <2>3 DEF TypeOK
  <2>4. CASE ~ CloseConnections(Sib(c))
    BY <1>1, <2>4
  <2> QED
    BY <2>3, <2>4
<1>7. CASE d = c
  <2>1. ~ CloseConnections(Sib(c)) /\ state[c[1]] \in {"connecting", "open"}
    BY <1>6, <1>7
  <2>2. buf'[c] = left
    BY <1>1, <2>1 DEF TypeOK
  <2>3. read'[c] = read[c] + n /\ delivered'[Sib(c)] = delivered[Sib(c)] \o SubSeq(new, 1, k)
    BY <1>1, <1>2 DEF TypeOK
  <2> QED
    BY <1>5, <1>7, <2>1, <2>2, <2>3
<1>8. CASE d # c
  <2>1. Sib(d) # Sib(c)
    BY <1>8, ConnFacts
  <2>2. delivered'[Sib(d)] = delivered[Sib(d)] /\ read'[d] = read[d]
    BY <1>1, <1>2, <1>8, <2>1, ConnFacts DEF TypeOK
  <2>3. buf'[d] = buf[d]
    BY <1>1, <1>8 DEF CloseConnections, TypeOK
  <2> QED
    BY <1>6, <2>2, <2>3 DEF StreamInv
<1> QED
  BY <1>7, <1>8

LEMMA StreamOut ==
  ASSUME TypeOK, StreamInv, NEW c \in Conn, OutData(c)
  PROVE  StreamInv'
<1> DEFINE b    == buf[Sib(c)]
           k    == Least(Len(b), room[c])
           left == SubSeq(b, k + 1, Len(b))
<1>1. /\ delivered' = [delivered EXCEPT ![c] = @ \o SubSeq(b, 1, k)]
      /\ buf' = [buf EXCEPT ![Sib(c)] = left]
      /\ UNCHANGED <<state, read>>
  BY DEF OutData
<1>2. Sib(c) \in Conn /\ Sib(Sib(c)) = c /\ b \in Seq(Nat) /\ room[c] \in Nat /\ delivered[c] \in Seq(Nat)
  BY ConnFacts DEF TypeOK
<1>3. k \in 0..Len(b)
  BY <1>2, LeastFacts
<1> HIDE DEF b, k
<1>4. (delivered[c] \o SubSeq(b, 1, k)) \o left = delivered[c] \o b
  BY <1>2, <1>3, SplitConcat
<1> SUFFICES ASSUME NEW d \in Conn, state'[d[1]] \in {"connecting", "open"}
             PROVE  delivered'[Sib(d)] \o buf'[d] = Units(0, read'[d])
  BY DEF StreamInv
<1>5. CASE d = Sib(c)
  <2>1. buf'[d] = left /\ delivered'[Sib(d)] = delivered[c] \o SubSeq(b, 1, k)
    BY <1>1, <1>2, <1>5 DEF TypeOK
  <2>2. delivered[c] \o b = Units(0, read[d])
    BY <1>1, <1>2, <1>5 DEF StreamInv, b
  <2> QED
    BY <1>1, <1>4, <2>1, <2>2
<1>6. CASE d # Sib(c)
  <2>1. Sib(d) # c /\ Sib(d) \in Conn
    BY <1>2, <1>6, ConnFacts
  <2>2. buf'[d] = buf[d] /\ delivered'[Sib(d)] = delivered[Sib(d)]
    BY <1>1, <1>6, <2>1 DEF TypeOK
  <2> QED
    BY <1>1, <2>2 DEF StreamInv
<1> QED
  BY <1>5, <1>6

LEMMA StreamInvStep == TypeOK /\ StreamInv /\ [Next]_vars => StreamInv'
<1> SUFFICES ASSUME TypeOK, StreamInv, [Next]_vars PROVE StreamInv'
  OBVIOUS
<1>1. ASSUME Peer \/ Stop \/ UNCHANGED vars \/ EpollWait \/ EventDone \/ AcceptFails \/ AcceptDenied
      PROVE  StreamInv'
  <2>1. UNCHANGED <<buf, read, delivered, state>>
    BY <1>1 DEF Peer, ClientConnects, PeerSends, PeerReads, PeerCloses, ConnectResolves, Stop, vars,
       EpollWait, EventDone, AcceptFails, AcceptDenied, loopVars, memVars, dataVars
  <2> QED
    BY <2>1, StreamFrame
<1>2. ASSUME NEW e \in batch, TakeEvent(e) PROVE StreamInv'
  <2>1. UNCHANGED <<buf, read, delivered, state>>
    BY <1>2 DEF TakeEvent, memVars, dataVars
  <2> QED
    BY <2>1, StreamFrame
<1>3. ASSUME FlushClosedConnections PROVE StreamInv'
  <2>1. UNCHANGED <<buf, read, delivered>>
    BY <1>3 DEF FlushClosedConnections, dataVars
  <2>2. \A p \in Pairs : state'[p] = state[p] \/ state'[p] = "free"
    BY <1>3 DEF FlushClosedConnections
  <2> QED
    BY <2>1, <2>2, StreamFrame
<1>5. ASSUME NEW c \in Conn, InEof(c) \/ OutConnectFails(c) \/ OutSendFails(c) \/ Hup(c)
      PROVE  StreamInv'
  <2>1. CloseConnections(c) /\ UNCHANGED <<read, delivered>>
    BY <1>5 DEF InEof, OutConnectFails, OutSendFails, Hup, dataVars
  <2> QED
    BY <2>1, StreamClose
<1>6. ASSUME NEW c \in Conn, InSendFails(c) PROVE StreamInv'
  <2>1. /\ UNCHANGED <<buf, delivered>> /\ c[1] \in Pairs
        /\ state' = [state EXCEPT ![c[1]] = "closed"]
        /\ \A d \in Conn : d # c => read'[d] = read[d]
    BY <1>6, ConnFacts DEF InSendFails, CloseConnections, TypeOK
  <2> QED
    BY <2>1, ConnFacts DEF StreamInv, TypeOK
<1>7. ASSUME NEW c \in Conn, OutConnected(c) PROVE StreamInv'
  <2>1. UNCHANGED <<buf, read, delivered>>
    BY <1>7 DEF OutConnected, dataVars
  <2>2. state[c[1]] = "connecting" /\ state' = [state EXCEPT ![c[1]] = "open"]
    BY <1>7 DEF OutConnected, Connecting, StartReceive
  <2>3. \A p \in Pairs : state'[p] = state[p] \/ state[p] = "connecting"
    BY <2>2, ConnFacts DEF TypeOK
  <2> QED
    BY <2>1, <2>3, StreamFrame
<1> QED
  BY <1>1, <1>2, <1>3, <1>5, <1>6, <1>7, StreamAccept, StreamIn, StreamOut DEF Next, Step

(* For any buffer size, any partial sends and any reuse of a pair, an open     *)
(* pair loses, repeats and reorders nothing.                                   *)
THEOREM StreamCorrect == Spec => []StreamIntact
<1>1. Init => StreamInv
  BY DEF Init, StreamInv, Conn
<1>2. StreamInv => StreamIntact
  BY DEF StreamInv, StreamIntact
<1> QED
  BY <1>1, <1>2, TypeCorrect, StreamInvStep, PTL DEF Spec
-----------------------------------------------------------------------------
(* vsockproxy implements Relay. *)

OpenPairs == {p \in Pairs : state[p] \in {"connecting", "open"}}
relayVars == <<OpenPairs, sent, read, delivered>>

LEMMA RelayInit == Init => R!Init
  BY DEF Init, R!Init, R!Conn, Conn

(* The streams are as long as they were read; what is taken was sent, and at  *)
(* most a buffer of it is on the way.                                         *)
ReadBound == \A c \in Conn : read[c] <= sent[c] /\ Len(buf[c]) <= BufSize

RelayInv == TypeOK /\ LoopInv /\ StreamInv /\ ReadBound

LEMMA SubSeqFacts ==
  ASSUME NEW b \in Seq(Nat), NEW k \in 0..Len(b)
  PROVE  /\ SubSeq(b, 1, k) \in Seq(Nat) /\ Len(SubSeq(b, 1, k)) = k
         /\ SubSeq(b, k + 1, Len(b)) \in Seq(Nat) /\ Len(SubSeq(b, k + 1, Len(b))) = Len(b) - k
  OBVIOUS

LEMMA ConcatFacts ==
  ASSUME NEW d \in Seq(Nat), NEW b \in Seq(Nat)
  PROVE  /\ d \o b \in Seq(Nat) /\ Len(d) \in Nat /\ Len(b) \in Nat /\ Len(d \o b) = Len(d) + Len(b)
         /\ \A i \in 1..Len(d) : (d \o b)[i] = d[i]
  OBVIOUS

(* The beginning of a stream is that of the numbers. *)
LEMMA PrefixUnits ==
  ASSUME NEW d \in Seq(Nat), NEW b \in Seq(Nat), NEW n \in Nat, d \o b = Units(0, n)
  PROVE  Len(d) \in Nat /\ Len(b) \in Nat /\ Len(d) + Len(b) = n /\ d = [i \in 1..Len(d) |-> i]
<1>1. Len(d) \in Nat /\ Len(b) \in Nat /\ Len(d) + Len(b) = n
  BY ConcatFacts, UnitsType
<1>2. \A i \in 1..Len(d) : d[i] = i
  <2> TAKE i \in 1..Len(d)
  <2>1. d[i] = Units(0, n)[i]
    BY ConcatFacts
  <2>2. i \in 1..n
    BY <1>1
  <2> QED
    BY <2>1, <2>2 DEF Units
<1>3. d = [i \in 1..Len(d) |-> d[i]]
  BY <1>1
<1> QED
  BY <1>1, <1>2, <1>3

LEMMA HandledIsOpen ==
  ASSUME TypeOK, LoopInv, NEW c \in Conn, cur # NoEvent, cur.c = c
  PROVE  state[c[1]] \in {"connecting", "open"}
<1>1. c \in watched /\ c[1] \in Pairs /\ state[c[1]] \in {"free", "connecting", "open", "closed"}
  BY ConnFacts DEF LoopInv, EventsLive, TypeOK
<1> QED
  BY <1>1, ConnFacts DEF LoopInv, PairShape

(* A step that reads n - read[c] units from c and has sent d to its sibling,   *)
(* with b on the way.                                                          *)
LEMMA Carries ==
  ASSUME TypeOK, NEW c \in Conn, NEW n \in Nat, NEW d \in Seq(Nat), NEW b \in Seq(Nat),
         d \o b = Units(0, n), read[c] <= n, n <= sent[c], Len(delivered[Sib(c)]) <= Len(d),
         read' = [read EXCEPT ![c] = n], delivered' = [delivered EXCEPT ![Sib(c)] = d],
         UNCHANGED sent
  PROVE  /\ R!Carry(c, n, Len(d)) /\ n \in 0..sent[c] /\ Len(d) \in 0..n /\ n - Len(d) = Len(b)
         /\ c \in R!Conn
<1>1. Len(d) \in Nat /\ Len(b) \in Nat /\ Len(d) + Len(b) = n /\ d = [i \in 1..Len(d) |-> i]
  BY PrefixUnits
<1>2. R!Other(c) = Sib(c) /\ c \in R!Conn
  BY DEF R!Other, Sib, R!Conn, Conn
<1>3. sent[c] \in Nat /\ Len(d) <= n
  BY <1>1 DEF TypeOK
<1>4. delivered' = [delivered EXCEPT ![R!Other(c)] = [i \in 1..Len(d) |-> i]]
  BY <1>1, <1>2
<1>5. R!Carry(c, n, Len(d))
  BY <1>2, <1>3, <1>4 DEF R!Carry
<1> QED
  BY <1>1, <1>2, <1>3, <1>5

LEMMA RelayMoves ==
  ASSUME NEW c \in Conn, NEW n \in 0..sent[c], NEW k \in 0..n, R!Carry(c, n, k), c \in R!Conn,
         c[1] \in OpenPairs, n - k <= BufSize, OpenPairs' = OpenPairs
  PROVE  R!Next
<1>1. R!Move(c, n, k)
  BY DEF R!Move, OpenPairs
<1> QED
  BY <1>1 DEF R!Next

LEMMA RelayCloses ==
  ASSUME NEW c \in Conn, NEW n \in 0..sent[c], NEW k \in 0..n, R!Carry(c, n, k), c \in R!Conn,
         c[1] \in OpenPairs, OpenPairs' = OpenPairs \ {c[1]}
  PROVE  R!Next
<1>1. R!Close(c, n, k)
  BY DEF R!Close, OpenPairs
<1> QED
  BY <1>1 DEF R!Next

LEMMA ClosedPairs ==
  ASSUME TypeOK, NEW c \in Conn, state' = [state EXCEPT ![c[1]] = "closed"]
  PROVE  OpenPairs' = OpenPairs \ {c[1]}
  BY ConnFacts DEF OpenPairs, TypeOK

(* close_connections without any data moved. *)
LEMMA RelayClosing ==
  ASSUME RelayInv, NEW c \in Conn, cur # NoEvent, cur.c = c, CloseConnections(c),
         UNCHANGED <<sent, read, delivered>>
  PROVE  R!Next
<1> DEFINE n == read[c]
           d == delivered[Sib(c)]
<1>1. TypeOK /\ LoopInv /\ StreamInv /\ ReadBound
  BY DEF RelayInv
<1>2. state[c[1]] \in {"connecting", "open"} /\ c[1] \in Pairs /\ Sib(c) \in Conn
  BY <1>1, HandledIsOpen, ConnFacts
<1>3. n \in Nat /\ d \in Seq(Nat) /\ buf[c] \in Seq(Nat) /\ n <= sent[c] /\ Len(d) \in Nat
  BY <1>1, <1>2 DEF TypeOK, ReadBound
<1>4. d \o buf[c] = Units(0, n)
  BY <1>1, <1>2 DEF StreamInv
<1>5. read' = [read EXCEPT ![c] = n] /\ delivered' = [delivered EXCEPT ![Sib(c)] = d]
  BY <1>1, <1>2 DEF TypeOK
<1>6. OpenPairs' = OpenPairs \ {c[1]} /\ c[1] \in OpenPairs
  BY <1>1, <1>2, ClosedPairs DEF CloseConnections, OpenPairs
<1> HIDE DEF n, d
<1>7. R!Carry(c, n, Len(d)) /\ n \in 0..sent[c] /\ Len(d) \in 0..n /\ c \in R!Conn
  <2>1. read[c] <= n /\ Len(delivered[Sib(c)]) <= Len(d)
    BY <1>3 DEF n, d
  <2> QED
    BY <1>1, <1>3, <1>4, <1>5, <2>1, Carries
<1> QED
  BY <1>6, <1>7, RelayCloses

(* Data came in at c: n units have been read, d has been sent on and left is    *)
(* on the way.                                                                  *)
Passed(c, n, d, left) ==
  /\ d \o left = Units(0, n) /\ read[c] <= n /\ n <= sent[c]
  /\ Len(left) <= BufSize /\ Len(delivered[Sib(c)]) <= Len(d)
  /\ read' = [read EXCEPT ![c] = n] /\ delivered' = [delivered EXCEPT ![Sib(c)] = d]
  /\ UNCHANGED sent
  /\ \/ left = <<>> /\ UNCHANGED <<buf, state>>
     \/ buf' = [buf EXCEPT ![c] = left] /\ UNCHANGED state
     \/ UNCHANGED buf /\ state' = [state EXCEPT ![c[1]] = "closed"]

LEMMA InDataFacts ==
  ASSUME TypeOK, LoopInv, StreamInv, NEW c \in Conn, InData(c)
  PROVE  \E n \in Nat, d \in Seq(Nat), left \in Seq(Nat) : Passed(c, n, d, left)
<1> DEFINE n    == Least(Avail(c), BufSize)
           k    == Least(n, room[Sib(c)])
           new  == Units(read[c], n)
           left == SubSeq(new, k + 1, n)
           d    == delivered[Sib(c)] \o SubSeq(new, 1, k)
<1>1. /\ buf[c] = <<>> /\ Avail(c) > 0 /\ cur # NoEvent /\ cur.c = c
      /\ read' = [read EXCEPT ![c] = @ + n]
      /\ delivered' = [delivered EXCEPT ![Sib(c)] = @ \o SubSeq(new, 1, k)]
      /\ UNCHANGED sent
      /\ \/ left = <<>> /\ UNCHANGED <<buf, state>>
         \/ buf' = [buf EXCEPT ![c] = left] /\ UNCHANGED state
         \/ CloseConnections(Sib(c))
  BY DEF InData, Handling, memVars, peerVars
<1>2. /\ Sib(c) \in Conn /\ Sib(c)[1] = c[1] /\ read[c] \in Nat /\ sent[c] \in Nat /\ room[Sib(c)] \in Nat
      /\ delivered[Sib(c)] \in Seq(Nat) /\ BufSize \in Nat
  BY ConnFacts, ConstantsAssumption DEF TypeOK
<1>3. n \in Nat /\ n <= BufSize /\ read[c] + n <= sent[c]
  <2>1. Avail(c) \in Int /\ Avail(c) = sent[c] - read[c]
    BY <1>2 DEF Avail
  <2>2. n \in {Avail(c), BufSize} /\ n <= Avail(c) /\ n <= BufSize
    BY <1>2, <2>1, LeastFacts
  <2>3. Avail(c) > 0
    BY <1>1
  <2> HIDE DEF n
  <2> QED
    BY <1>2, <2>1, <2>2, <2>3
<1> HIDE DEF n
<1>4. k \in 0..n
  <2>1. k \in {n, room[Sib(c)]} /\ k <= n
    BY <1>2, <1>3, LeastFacts
  <2> HIDE DEF k
  <2> QED
    BY <1>2, <1>3, <2>1
<1>5. new \in Seq(Nat) /\ Len(new) = n
  BY <1>2, <1>3, UnitsType
<1> HIDE DEF k, new
<1>6. delivered[Sib(c)] = Units(0, read[c])
  <2>1. delivered[Sib(c)] \o <<>> = Units(0, read[c])
    BY <1>1, HandledIsOpen DEF StreamInv
  <2> QED
    BY <1>2, <2>1, ConcatEmptySeq
<1>7. d \o left = Units(0, read[c] + n)
  <2>1. d \o left = delivered[Sib(c)] \o new
    BY <1>2, <1>4, <1>5, SplitConcat
  <2>2. Units(0, read[c]) \o new = Units(0, read[c] + n)
    BY <1>2, <1>3, UnitsConcat DEF new
  <2> QED
    BY <1>6, <2>1, <2>2
<1>8. SubSeq(new, 1, k) \in Seq(Nat) /\ Len(SubSeq(new, 1, k)) = k
      /\ left \in Seq(Nat) /\ Len(left) = n - k
  BY <1>4, <1>5, SubSeqFacts
<1>9. d \in Seq(Nat) /\ Len(delivered[Sib(c)]) <= Len(d) /\ Len(left) <= BufSize
  <2>1. d \in Seq(Nat) /\ Len(d) = Len(delivered[Sib(c)]) + k /\ Len(delivered[Sib(c)]) \in Nat
    BY <1>2, <1>4, <1>8, ConcatFacts
  <2> HIDE DEF d, left
  <2> QED
    BY <1>2, <1>3, <1>4, <1>8, <2>1
<1>10. CloseConnections(Sib(c)) => UNCHANGED buf /\ state' = [state EXCEPT ![c[1]] = "closed"]
  BY <1>2 DEF CloseConnections
<1>11. read' = [read EXCEPT ![c] = read[c] + n] /\ delivered' = [delivered EXCEPT ![Sib(c)] = d]
  BY <1>1
<1>12. read[c] + n \in Nat /\ read[c] <= read[c] + n
  BY <1>2, <1>3
<1>13. \/ left = <<>> /\ UNCHANGED <<buf, state>>
       \/ buf' = [buf EXCEPT ![c] = left] /\ UNCHANGED state
       \/ UNCHANGED buf /\ state' = [state EXCEPT ![c[1]] = "closed"]
  BY <1>1, <1>10
<1> HIDE DEF d, left
<1>14. Passed(c, read[c] + n, d, left)
  BY <1>1, <1>3, <1>7, <1>9, <1>11, <1>12, <1>13, Zenon DEF Passed
<1> QED
  BY <1>8, <1>9, <1>12, <1>14, Zenon

LEMMA RelayIn ==
  ASSUME RelayInv, NEW c \in Conn, InData(c)
  PROVE  R!Next
<1>1. TypeOK /\ LoopInv /\ StreamInv
  BY DEF RelayInv
<1>2. PICK n \in Nat, d \in Seq(Nat), left \in Seq(Nat) : Passed(c, n, d, left)
  BY <1>1, InDataFacts
<1>3. /\ R!Carry(c, n, Len(d)) /\ n \in 0..sent[c] /\ Len(d) \in 0..n /\ n - Len(d) = Len(left)
      /\ c \in R!Conn
  BY <1>1, <1>2, Carries DEF Passed
<1>4. c[1] \in OpenPairs
  BY <1>1, HandledIsOpen, ConnFacts DEF OpenPairs, InData, Handling
<1>5. CASE UNCHANGED state
  BY <1>2, <1>3, <1>4, <1>5, RelayMoves DEF OpenPairs, Passed
<1>6. CASE state' = [state EXCEPT ![c[1]] = "closed"]
  BY <1>1, <1>3, <1>4, <1>6, ClosedPairs, RelayCloses
<1> QED
  BY <1>2, <1>5, <1>6 DEF Passed

(* A failed send has taken units that are lost with the pair. *)
LEMMA RelaySendFails ==
  ASSUME RelayInv, NEW c \in Conn, InSendFails(c)
  PROVE  R!Next
<1> DEFINE n == read[c] + Least(Avail(c), BufSize)
           d == delivered[Sib(c)]
           b == Units(read[c], Least(Avail(c), BufSize))
<1>1. TypeOK /\ LoopInv /\ StreamInv /\ c[1] \in Pairs /\ Sib(c) \in Conn
  BY ConnFacts DEF RelayInv
<1>2. /\ buf[c] = <<>> /\ Avail(c) > 0 /\ cur # NoEvent /\ cur.c = c
      /\ read' = [read EXCEPT ![c] = @ + Least(Avail(c), BufSize)]
      /\ CloseConnections(c) /\ UNCHANGED <<sent, delivered>>
  BY DEF InSendFails, Handling, peerVars
<1>3. state[c[1]] \in {"connecting", "open"}
  BY <1>1, <1>2, HandledIsOpen
<1>4. read[c] \in Nat /\ sent[c] \in Nat /\ d \in Seq(Nat) /\ BufSize \in Nat
  BY <1>1, ConstantsAssumption DEF TypeOK
<1>5. Least(Avail(c), BufSize) \in Nat /\ Least(Avail(c), BufSize) <= Avail(c)
  BY <1>2, <1>4, LeastFacts DEF Avail
<1>6. n \in Nat /\ read[c] <= n /\ n <= sent[c] /\ Len(d) \in Nat
  BY <1>4, <1>5 DEF Avail
<1>7. b \in Seq(Nat) /\ d \o b = Units(0, n)
  <2>1. d \o <<>> = Units(0, read[c])
    BY <1>1, <1>2, <1>3 DEF StreamInv
  <2>2. d = Units(0, read[c])
    BY <1>4, <2>1, ConcatEmptySeq
  <2> QED
    BY <1>4, <1>5, <2>2, UnitsConcat, UnitsType
<1>8. read' = [read EXCEPT ![c] = n] /\ delivered' = [delivered EXCEPT ![Sib(c)] = d]
  BY <1>1, <1>2 DEF TypeOK
<1>9. c[1] \in OpenPairs /\ OpenPairs' = OpenPairs \ {c[1]}
  BY <1>1, <1>2, <1>3, ClosedPairs DEF OpenPairs, CloseConnections
<1>10. Len(delivered[Sib(c)]) <= Len(d)
  BY <1>6
<1> HIDE DEF n, d, b
<1>11. R!Carry(c, n, Len(d)) /\ n \in 0..sent[c] /\ Len(d) \in 0..n /\ c \in R!Conn
  BY <1>1, <1>2, <1>4, <1>6, <1>7, <1>8, <1>10, Carries
<1> QED
  BY <1>9, <1>11, RelayCloses

LEMMA RelayOut ==
  ASSUME RelayInv, NEW c \in Conn, OutData(c)
  PROVE  R!Next
<1> DEFINE e    == Sib(c)
           b    == buf[e]
           k    == Least(Len(b), room[c])
           left == SubSeq(b, k + 1, Len(b))
           d    == delivered[c] \o SubSeq(b, 1, k)
           n    == read[e]
<1>1. TypeOK /\ LoopInv /\ StreamInv /\ ReadBound
  BY DEF RelayInv
<1>2. /\ delivered' = [delivered EXCEPT ![c] = @ \o SubSeq(b, 1, k)]
      /\ UNCHANGED <<state, read, sent>> /\ cur # NoEvent /\ cur.c = c
  BY DEF OutData, HandlingOut, Handling, peerVars
<1>3. e \in Conn /\ Sib(e) = c /\ e[1] = c[1] /\ c[1] \in Pairs
  BY ConnFacts
<1> HIDE DEF e
<1>4. /\ b \in Seq(Nat) /\ Len(b) \in Nat /\ room[c] \in Nat /\ delivered[c] \in Seq(Nat)
      /\ n \in Nat /\ n <= sent[e] /\ Len(b) <= BufSize /\ BufSize \in Nat
  BY <1>1, <1>3, ConstantsAssumption DEF TypeOK, ReadBound
<1>5. state[e[1]] \in {"connecting", "open"}
  BY <1>1, <1>2, <1>3, HandledIsOpen
<1>6. delivered[c] \o b = Units(0, n)
  BY <1>1, <1>3, <1>5 DEF StreamInv
<1>7. read' = [read EXCEPT ![e] = n] /\ delivered' = [delivered EXCEPT ![Sib(e)] = d]
  BY <1>1, <1>2, <1>3 DEF TypeOK
<1>8. k \in 0..Len(b)
  <2>1. k \in {Len(b), room[c]} /\ k <= Len(b)
    BY <1>4, LeastFacts
  <2> HIDE DEF k
  <2> QED
    BY <1>4, <2>1
<1>9. read[e] <= n
  BY <1>4
<1> HIDE DEF b, k, n
<1>10. d \o left = Units(0, n)
  BY <1>4, <1>6, <1>8, SplitConcat
<1>11. /\ SubSeq(b, 1, k) \in Seq(Nat) /\ Len(SubSeq(b, 1, k)) = k
       /\ left \in Seq(Nat) /\ Len(left) = Len(b) - k
  BY <1>4, <1>8, SubSeqFacts
<1>12. d \in Seq(Nat) /\ Len(delivered[c]) \in Nat /\ Len(d) = Len(delivered[c]) + k
  BY <1>4, <1>11, ConcatFacts
<1> HIDE DEF d, left
<1>13. Len(delivered[Sib(e)]) <= Len(d) /\ Len(left) <= BufSize
  <2>1. delivered[Sib(e)] = delivered[c]
    BY <1>3
  <2>2. k \in Nat /\ Len(left) <= BufSize
    BY <1>4, <1>8, <1>11
  <2>3. Len(delivered[c]) <= Len(d)
    BY <1>12, <2>2
  <2> QED
    BY <2>1, <2>2, <2>3
<1>14. /\ R!Carry(e, n, Len(d)) /\ n \in 0..sent[e] /\ Len(d) \in 0..n
       /\ n - Len(d) = Len(left) /\ e \in R!Conn
  <2>1. TypeOK /\ e \in Conn /\ n \in Nat /\ d \in Seq(Nat) /\ left \in Seq(Nat) /\ UNCHANGED sent
    BY <1>1, <1>2, <1>3, <1>4, <1>11, <1>12
  <2>2. n <= sent[e]
    BY <1>4
  <2> QED
    BY <1>7, <1>9, <1>10, <1>13, <2>1, <2>2, Carries
<1>15. e[1] \in OpenPairs /\ OpenPairs' = OpenPairs
  BY <1>2, <1>3, <1>5 DEF OpenPairs
<1> QED
  BY <1>3, <1>13, <1>14, <1>15, RelayMoves

LEMMA RelayBegins ==
  ASSUME TypeOK, NEW p \in Pairs, Accept(p)
  PROVE  R!Next
<1>1. /\ state[p] = "free"
      /\ sent' = [sent EXCEPT ![Rx(p)] = 0, ![Tx(p)] = 0]
      /\ read' = [read EXCEPT ![Rx(p)] = 0, ![Tx(p)] = 0]
      /\ delivered' = [delivered EXCEPT ![Rx(p)] = <<>>, ![Tx(p)] = <<>>]
  BY DEF Accept, Allocate
<1>2. \E x \in {"open", "connecting", "closed"} : state' = [state EXCEPT ![p] = x]
  BY DEF Accept, AcceptConnected, AcceptInProgress, AcceptAborted, StartReceive
<1>3. p \notin OpenPairs /\ OpenPairs' \in {OpenPairs, OpenPairs \cup {p}}
  BY <1>1, <1>2 DEF OpenPairs, TypeOK
<1>4. \A c \in Conn : c[1] = p <=> c \in {Rx(p), Tx(p)}
  BY ConnFacts
<1>5. Rx(p) \in Conn /\ Tx(p) \in Conn /\ Rx(p) # Tx(p) /\ R!Conn = Conn
  BY ConnFacts DEF R!Conn, Conn
<1>6. sent' = [c \in Conn |-> IF c[1] = p THEN 0 ELSE sent[c]]
  BY <1>1, <1>4, <1>5 DEF TypeOK
<1>7. read' = [c \in Conn |-> IF c[1] = p THEN 0 ELSE read[c]]
  BY <1>1, <1>4, <1>5 DEF TypeOK
<1>8. delivered' = [c \in Conn |-> IF c[1] = p THEN <<>> ELSE delivered[c]]
  BY <1>1, <1>4, <1>5 DEF TypeOK
<1>9. R!Begin(p)
  BY <1>3, <1>5, <1>6, <1>7, <1>8 DEF R!Begin, OpenPairs
<1> QED
  BY <1>9 DEF R!Next

LEMMA RelaySends ==
  ASSUME TypeOK, NEW c \in Conn, PeerSends(c)
  PROVE  R!Next
<1>1. c \in R!Conn /\ c[1] \in OpenPairs
  BY ConnFacts DEF R!Conn, Conn, PeerSends, HasPeer, OpenPairs
<1>2. /\ sent' = [sent EXCEPT ![c] = @ + 1] /\ OpenPairs' = OpenPairs /\ UNCHANGED <<read, delivered>>
  BY DEF PeerSends, memVars, dataVars, OpenPairs
<1>3. R!Send(c)
  BY <1>1, <1>2 DEF R!Send, OpenPairs
<1> QED
  BY <1>1, <1>3 DEF R!Next

LEMMA RelayStep == RelayInv /\ [Next]_vars => [R!Next]_relayVars
<1> SUFFICES ASSUME RelayInv, [Next]_vars PROVE R!Next \/ UNCHANGED relayVars
  OBVIOUS
<1>0. TypeOK /\ LoopInv
  BY DEF RelayInv
<1>1. CASE \/ ClientConnects \/ (\E c \in Conn : PeerReads(c) \/ \E how \in {"shut", "reset"} : PeerCloses(c, how))
           \/ (\E p \in Pairs, how \in {"ok", "refused"} : ConnectResolves(p, how))
           \/ Stop \/ UNCHANGED vars \/ EpollWait \/ EventDone \/ AcceptFails \/ AcceptDenied
           \/ (\E e \in batch : TakeEvent(e))
  BY <1>1 DEF ClientConnects, PeerReads, PeerCloses, ConnectResolves, Stop, vars, EpollWait, EventDone,
     AcceptFails, AcceptDenied, TakeEvent, loopVars, memVars, dataVars, peerVars, relayVars, OpenPairs
<1>2. CASE FlushClosedConnections
  <2>1. \A p \in Pairs : state'[p] = state[p] \/ (state'[p] = "free" /\ state[p] = "closed")
    BY <1>0, <1>2 DEF FlushClosedConnections, LoopInv, OnlyClosedQueued
  <2>2. OpenPairs' = OpenPairs
    BY <2>1 DEF OpenPairs
  <2> QED
    BY <1>2, <2>2 DEF FlushClosedConnections, peerVars, dataVars, relayVars
<1>3. CASE \E c \in Conn : OutConnected(c)
  <2>1. PICK c \in Conn : OutConnected(c)
    BY <1>3
  <2>2. /\ state[c[1]] = "connecting" /\ state' = [state EXCEPT ![c[1]] = "open"]
        /\ UNCHANGED <<sent, read, delivered>>
    BY <2>1 DEF OutConnected, Connecting, StartReceive, peerVars, dataVars
  <2>3. OpenPairs' = OpenPairs
    BY <1>0, <2>2, ConnFacts DEF OpenPairs, TypeOK
  <2> QED
    BY <2>2, <2>3 DEF relayVars
<1>4. CASE \E c \in Conn : InEof(c) \/ OutConnectFails(c) \/ OutSendFails(c) \/ Hup(c)
  <2>1. PICK c \in Conn : InEof(c) \/ OutConnectFails(c) \/ OutSendFails(c) \/ Hup(c)
    BY <1>4
  <2>2. cur # NoEvent /\ cur.c = c /\ CloseConnections(c) /\ UNCHANGED <<sent, read, delivered>>
    BY <2>1 DEF InEof, OutConnectFails, OutSendFails, Hup, HandlingOut, Handling, peerVars, dataVars
  <2> QED
    BY <2>2, RelayClosing
<1> QED
  BY <1>0, <1>1, <1>2, <1>3, <1>4, RelayIn, RelaySendFails, RelayOut, RelayBegins, RelaySends
  DEF Next, Step, Peer

LEMMA ReadBoundStep == TypeOK /\ LoopInv /\ StreamInv /\ ReadBound /\ [Next]_vars => ReadBound'
<1> SUFFICES ASSUME TypeOK, LoopInv, StreamInv, ReadBound, [Next]_vars PROVE ReadBound'
  OBVIOUS
<1>0. /\ sent \in [Conn -> Nat] /\ read \in [Conn -> Nat] /\ buf \in [Conn -> Seq(Nat)]
      /\ BufSize \in Nat
  BY ConstantsAssumption DEF TypeOK
<1>1. ASSUME UNCHANGED <<sent, read, buf>> PROVE ReadBound'
  BY <1>1 DEF ReadBound
<1>2. CASE \E c \in Conn : PeerSends(c)
  <2>1. PICK c \in Conn : sent' = [sent EXCEPT ![c] = @ + 1] /\ UNCHANGED <<read, buf>>
    BY <1>2 DEF PeerSends, memVars, dataVars
  <2> QED
    BY <1>0, <2>1 DEF ReadBound
<1>3. CASE \E p \in Pairs : Accept(p)
  <2>1. PICK p \in Pairs : /\ sent' = [sent EXCEPT ![Rx(p)] = 0, ![Tx(p)] = 0]
                           /\ read' = [read EXCEPT ![Rx(p)] = 0, ![Tx(p)] = 0]
                           /\ buf' = [buf EXCEPT ![Rx(p)] = <<>>, ![Tx(p)] = <<>>]
    BY <1>3 DEF Accept, Allocate
  <2>2. Rx(p) \in Conn /\ Tx(p) \in Conn
    BY ConnFacts
  <2>3. \A c \in Conn : \/ sent'[c] = 0 /\ read'[c] = 0 /\ buf'[c] = <<>>
                        \/ sent'[c] = sent[c] /\ read'[c] = read[c] /\ buf'[c] = buf[c]
    BY <1>0, <2>1, <2>2
  <2> QED
    BY <1>0, <2>3 DEF ReadBound
<1>4. CASE \E c \in Conn : InData(c)
  <2>1. PICK c \in Conn : InData(c)
    BY <1>4
  <2>2. PICK n \in Nat, d \in Seq(Nat), left \in Seq(Nat) : Passed(c, n, d, left)
    BY <2>1, InDataFacts
  <2>3. /\ n <= sent[c] /\ Len(left) <= BufSize /\ read' = [read EXCEPT ![c] = n] /\ UNCHANGED sent
        /\ UNCHANGED buf \/ buf' = [buf EXCEPT ![c] = left]
    BY <2>2, Zenon DEF Passed
  <2> QED
    BY <1>0, <2>3 DEF ReadBound
<1>5. CASE \E c \in Conn : InSendFails(c)
  <2>1. PICK c \in Conn : /\ read' = [read EXCEPT ![c] = @ + Least(Avail(c), BufSize)]
                          /\ UNCHANGED <<sent, buf>>
    BY <1>5 DEF InSendFails, CloseConnections, peerVars
  <2>2. Avail(c) \in Int /\ Avail(c) = sent[c] - read[c]
    BY <1>0 DEF Avail
  <2>3. Least(Avail(c), BufSize) \in Int /\ Least(Avail(c), BufSize) <= Avail(c)
    BY <1>0, <2>2, LeastFacts
  <2>4. read'[c] <= sent[c] /\ \A d \in Conn : d # c => read'[d] = read[d]
    BY <1>0, <2>1, <2>2, <2>3
  <2> QED
    BY <2>1, <2>4 DEF ReadBound
<1>6. CASE \E c \in Conn : OutData(c)
  <2>1. PICK c \in Conn : OutData(c)
    BY <1>6
  <2> DEFINE b    == buf[Sib(c)]
             k    == Least(Len(b), room[c])
             left == SubSeq(b, k + 1, Len(b))
  <2>2. buf' = [buf EXCEPT ![Sib(c)] = left] /\ UNCHANGED <<sent, read>>
    BY <2>1 DEF OutData, peerVars
  <2>3. Sib(c) \in Conn /\ b \in Seq(Nat) /\ Len(b) \in Nat /\ room[c] \in Nat /\ Len(b) <= BufSize
    BY ConnFacts DEF TypeOK, ReadBound
  <2>4. k \in 0..Len(b)
    <3>1. k \in {Len(b), room[c]} /\ k <= Len(b)
      BY <2>3, LeastFacts
    <3> HIDE DEF k
    <3> QED
      BY <2>3, <3>1
  <2> HIDE DEF b, k
  <2>5. Len(left) = Len(b) - k
    BY <2>3, <2>4, SubSeqFacts
  <2> HIDE DEF left
  <2>6. Len(left) <= BufSize
    BY <1>0, <2>3, <2>4, <2>5
  <2> QED
    BY <1>0, <2>2, <2>3, <2>6 DEF ReadBound
<1>7. CASE \/ ClientConnects \/ (\E c \in Conn : PeerReads(c) \/ \E how \in {"shut", "reset"} : PeerCloses(c, how))
           \/ (\E p \in Pairs, how \in {"ok", "refused"} : ConnectResolves(p, how))
           \/ Stop \/ UNCHANGED vars \/ EpollWait \/ EventDone \/ AcceptFails \/ AcceptDenied
           \/ (\E e \in batch : TakeEvent(e)) \/ FlushClosedConnections
  <2>1. UNCHANGED <<sent, read, buf>>
    BY <1>7 DEF ClientConnects, PeerReads, PeerCloses, ConnectResolves, Stop, vars, EpollWait, EventDone,
       AcceptFails, AcceptDenied, TakeEvent, FlushClosedConnections, loopVars, memVars, dataVars, peerVars
  <2> QED
    BY <1>1, <2>1
<1>8. CASE \E c \in Conn : InEof(c) \/ OutConnectFails(c) \/ OutSendFails(c) \/ Hup(c) \/ OutConnected(c)
  <2>1. UNCHANGED <<sent, read, buf>>
    BY <1>8 DEF InEof, OutConnectFails, OutSendFails, Hup, OutConnected, CloseConnections, peerVars, dataVars
  <2> QED
    BY <1>1, <2>1
<1> QED
  BY <1>2, <1>3, <1>4, <1>5, <1>6, <1>7, <1>8 DEF Next, Step, Peer

(* Every behaviour of the event loop is one of the abstract relay: nothing    *)
(* lost, repeated or reordered, at most a buffer on the way, and each pair    *)
(* starting afresh.                                                           *)
THEOREM RelayCorrect == Spec => RelaysStreams
<1>1. Init => ReadBound /\ StreamInv
  <2>1. Init => StreamInv
    BY DEF Init, StreamInv, Conn
  <2>2. Init => ReadBound
    BY ConstantsAssumption DEF Init, ReadBound
  <2> QED
    BY <2>1, <2>2
<1>2. Spec => []RelayInv
  BY <1>1, ReadBoundStep, TypeCorrect, LoopInvariant, StreamInvStep, PTL DEF Spec, RelayInv
<1>3. RelayInv /\ [Next]_vars => [R!Next]_<<OpenPairs, sent, read, delivered>>
  BY RelayStep DEF relayVars
<1> QED
  BY <1>2, <1>3, RelayInit, PTL DEF Spec, RelaysStreams, R!Spec, OpenPairs
=============================================================================
