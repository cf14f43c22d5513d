----------------------------- MODULE VsockProxy -----------------------------
(***************************************************************************)
(* The epoll loop of vsockproxy.  A guest connects to the listening socket *)
(* (the rx side of a pair), the proxy connects to the remote guest (the tx *)
(* side) and copies bytes both ways, one buffer for each direction.        *)
(*                                                                         *)
(* The process is single threaded; what interleaves with it are the peers  *)
(* and the kernel: the events of one batch were true when epoll_pwait      *)
(* returned them and may be stale when their turn comes.                   *)
(***************************************************************************)
EXTENDS Integers, Sequences, FiniteSets

CONSTANTS
  Pairs,       \* pairs of struct client the process can hold at a time
  Listen,      \* stands for listen_data in an event
  NoEvent,     \* no event is being handled
  MaxEvents,   \* MAX_EVENTS
  BufSize,     \* RECV_BUF_SIZE, in units of data
  SockRoom,    \* bound: units a socket takes before its peer reads
  MaxUnits,    \* bound: units a peer sends on one connection
  MaxConnects, \* bound: connection attempts in a behaviour
  MaxTalkers,  \* bound: connections whose peers have sent something
  MaxClosers   \* bound: connections whose peers have shut down or reset

ASSUME ConstantsAssumption ==
  /\ IsFiniteSet(Pairs)
  /\ MaxEvents \in Nat \ {0} /\ BufSize \in Nat \ {0}
  /\ SockRoom \in Nat \ {0} /\ MaxUnits \in Nat /\ MaxConnects \in Nat
  /\ MaxTalkers \in Nat /\ MaxClosers \in Nat
  /\ Listen \notin Pairs \X {"rx", "tx"}
  /\ NoEvent \notin [c : (Pairs \X {"rx", "tx"}) \cup {Listen}, ev : SUBSET {"in", "out", "hup"}]

Conn   == Pairs \X {"rx", "tx"}
Sib(c) == <<c[1], IF c[2] = "rx" THEN "tx" ELSE "rx">>
Rx(p)  == <<p, "rx">>
Tx(p)  == <<p, "tx">>
Ends(p) == {Rx(p), Tx(p)}

Flags  == {"in", "out", "hup"}
Event  == [c : Conn \cup {Listen}, ev : SUBSET Flags]

VARIABLES
  loop,      \* "wait" in epoll_pwait, "walk" over the batch, "stopped"
  batch,     \* the events not yet taken; the kernel's order is any order
  cur,       \* the event being handled, with the flags still to be looked at
  state,     \* of a pair: free memory, connecting, open, closed but not freed
  watched,   \* sockets registered with epoll
  interest,  \* which of in/out is asked for; hup, rdhup and err always are
  buf,       \* buf[c]: units read from c and not yet sent to its sibling
  closedQ,   \* closed_clients
  backlog,   \* connections waiting for accept
  connects,  \* connection attempts so far, for the bound MaxConnects
  sent,      \* sent[c]: units the peer of c has sent so far; unit k is k
  read,      \* read[c]: units read from c so far
  fin,       \* what the peer of c has done: nothing, shut down, reset
  room,      \* units socket c accepts without blocking
  delivered, \* delivered[c]: units sent to the peer of c, in order
  conn       \* outcome of connect() on the tx socket of a pair

memVars  == <<state, watched, interest, buf, closedQ>>
loopVars == <<loop, batch, cur>>
peerVars == <<backlog, connects, sent, fin, conn>>
dataVars == <<read, room, delivered>>
vars     == <<loopVars, memVars, peerVars, dataVars>>

Least(a, b) == IF a <= b THEN a ELSE b
Avail(c)    == sent[c] - read[c]

Init ==
  /\ loop = "wait" /\ batch = {} /\ cur = NoEvent
  /\ state = [p \in Pairs |-> "free"]
  /\ watched = {}
  /\ interest = [c \in Conn |-> {}]
  /\ buf = [c \in Conn |-> <<>>]
  /\ closedQ = <<>>
  /\ backlog = 0 /\ connects = 0
  /\ sent = [c \in Conn |-> 0]
  /\ read = [c \in Conn |-> 0]
  /\ fin = [c \in Conn |-> "no"]
  /\ room = [c \in Conn |-> SockRoom]
  /\ delivered = [c \in Conn |-> <<>>]
  /\ conn = [p \in Pairs |-> "pending"]
-----------------------------------------------------------------------------
(* The peers and the kernel. *)

(* A peer acts on a connection that exists; the remote guest only once it   *)
(* has accepted.                                                            *)
HasPeer(c) == \/ state[c[1]] = "open"
              \/ state[c[1]] = "connecting" /\ (c[2] = "rx" \/ conn[c[1]] = "ok")

ClientConnects ==
  /\ connects < MaxConnects
  /\ connects' = connects + 1
  /\ backlog' = backlog + 1
  /\ UNCHANGED <<loopVars, memVars, dataVars, sent, fin, conn>>

(* The bounds MaxTalkers and MaxClosers. *)
MayTalk(c)  == Cardinality({d \in Conn : sent[d] > 0} \cup {c}) <= MaxTalkers
MayClose(c) == Cardinality({d \in Conn : fin[d] # "no"} \cup {c}) <= MaxClosers

PeerSends(c) ==
  /\ HasPeer(c) /\ fin[c] = "no" /\ sent[c] < MaxUnits /\ MayTalk(c)
  /\ sent' = [sent EXCEPT ![c] = @ + 1]
  /\ UNCHANGED <<loopVars, memVars, dataVars, backlog, connects, fin, conn>>

PeerReads(c) ==
  /\ HasPeer(c) /\ fin[c] # "reset" /\ room[c] < SockRoom
  /\ room' = [room EXCEPT ![c] = @ + 1]
  /\ UNCHANGED <<loopVars, memVars, peerVars, read, delivered>>

(* shutdown(SHUT_WR) by the peer, or the end of the peer. *)
PeerCloses(c, how) ==
  /\ HasPeer(c) /\ fin[c] = "no" /\ MayClose(c)
  /\ fin' = [fin EXCEPT ![c] = how]
  /\ UNCHANGED <<loopVars, memVars, dataVars, backlog, connects, sent, conn>>

ConnectResolves(p, how) ==
  /\ state[p] = "connecting" /\ conn[p] = "pending"
  /\ conn' = [conn EXCEPT ![p] = how]
  /\ UNCHANGED <<loopVars, memVars, dataVars, backlog, connects, sent, fin>>
-----------------------------------------------------------------------------
(* epoll_pwait: level triggered, at most MAX_EVENTS events.  An unresolved  *)
(* connect reports nothing, a refused one out and hup.                      *)

Connecting(c) == state[c[1]] = "connecting" /\ c[2] = "tx"

ReadyFlags(c) ==
  IF Connecting(c) /\ conn[c[1]] = "pending" THEN {}
  ELSE IF Connecting(c) /\ conn[c[1]] = "refused" THEN {"out", "hup"}
  ELSE {f \in Flags :
          CASE f = "in"  -> "in" \in interest[c] /\ (Avail(c) > 0 \/ fin[c] # "no")
            [] f = "out" -> "out" \in interest[c] /\ (room[c] > 0 \/ fin[c] = "reset")
            [] f = "hup" -> fin[c] # "no"}

ReadyEvents ==
  {[c |-> c, ev |-> ReadyFlags(c)] : c \in {d \in watched : ReadyFlags(d) # {}}}
  \cup (IF backlog > 0 THEN {[c |-> Listen, ev |-> {"in"}]} ELSE {})

EpollWait ==
  /\ loop = "wait" /\ ReadyEvents # {}
  /\ batch' \in {B \in SUBSET ReadyEvents :
                   Cardinality(B) = Least(Cardinality(ReadyEvents), MaxEvents)}
  /\ loop' = "walk"
  /\ UNCHANGED <<cur, memVars, peerVars, dataVars>>

(* SIGTERM and SIGINT are only let in during the wait. *)
Stop ==
  /\ loop = "wait"
  /\ loop' = "stopped"
  /\ UNCHANGED <<batch, cur, memVars, peerVars, dataVars>>
-----------------------------------------------------------------------------
(* The walk over the batch. *)

(* The next event; one whose pair was closed earlier in the batch is        *)
(* skipped.                                                                 *)
TakeEvent(e) ==
  /\ loop = "walk" /\ cur = NoEvent /\ e \in batch
  /\ batch' = batch \ {e}
  /\ cur' = IF e.c # Listen /\ state[e.c[1]] = "closed" THEN NoEvent ELSE e
  /\ UNCHANGED <<loop, memVars, peerVars, dataVars>>

Handling(c, f) == cur # NoEvent /\ cur.c = c /\ f \in cur.ev

Continue  == cur' = NoEvent /\ UNCHANGED batch
Break     == cur' = NoEvent /\ batch' = {}
Proceed(f) == /\ cur' = [cur EXCEPT !.ev = @ \ {f}]
              /\ UNCHANGED batch

(* Mutant: the structs are freed at once. *)
CloseConnections_FreesNow(c) ==
  /\ state' = [state EXCEPT ![c[1]] = "free"]
  /\ watched' = watched \ Ends(c[1])
  /\ UNCHANGED <<interest, buf, closedQ>>

(* Mutant: the closed flag is not set. *)
CloseConnections_NoFlag(c) ==
  /\ watched' = watched \ Ends(c[1])
  /\ closedQ' = closedQ \o <<c, Sib(c)>>
  /\ UNCHANGED <<interest, buf, state>>

(* close_connections(c): the closed flag, epoll and close(), the queue for  *)
(* freeing, then the same for the sibling.                                  *)
CloseConnections(c) ==
  /\ state' = [state EXCEPT ![c[1]] = "closed"]
  /\ watched' = watched \ Ends(c[1])
  /\ closedQ' = closedQ \o <<c, Sib(c)>>
  /\ UNCHANGED <<interest, buf>>

(* flush_closed_connections after the last event of the batch. *)
FlushClosedConnections ==
  /\ loop = "walk" /\ cur = NoEvent /\ batch = {}
  /\ loop' = "wait"
  /\ closedQ' = <<>>
  /\ state' = [p \in Pairs |->
                 IF \E i \in 1..Len(closedQ) : closedQ[i][1] = p THEN "free" ELSE state[p]]
  /\ UNCHANGED <<batch, cur, watched, interest, buf, peerVars, dataVars>>
-----------------------------------------------------------------------------
(* The listening socket. *)

(* accept() fails: the guest gave up, or there are no descriptors left. *)
AcceptFails ==
  /\ Handling(Listen, "in")
  /\ \/ backlog' = backlog - 1
     \/ UNCHANGED backlog /\ \A p \in Pairs : state[p] # "free"
  /\ Break
  /\ UNCHANGED <<loop, memVars, dataVars, connects, sent, fin, conn>>

(* The cid is not allowed_cid: the socket is closed, nothing is allocated. *)
AcceptDenied ==
  /\ Handling(Listen, "in")
  /\ backlog' = backlog - 1
  /\ Continue
  /\ UNCHANGED <<loop, memVars, dataVars, connects, sent, fin, conn>>

(* A zeroed pair of struct client and fresh sockets. *)
Allocate(p) ==
  /\ state[p] = "free"
  /\ buf' = [buf EXCEPT ![Rx(p)] = <<>>, ![Tx(p)] = <<>>]
  /\ sent' = [sent EXCEPT ![Rx(p)] = 0, ![Tx(p)] = 0]
  /\ read' = [read EXCEPT ![Rx(p)] = 0, ![Tx(p)] = 0]
  /\ fin' = [fin EXCEPT ![Rx(p)] = "no", ![Tx(p)] = "no"]
  /\ room' = [room EXCEPT ![Rx(p)] = SockRoom, ![Tx(p)] = SockRoom]
  /\ delivered' = [delivered EXCEPT ![Rx(p)] = <<>>, ![Tx(p)] = <<>>]
  /\ conn' = [conn EXCEPT ![p] = "pending"]

(* start_receive: both ends are watched for input. *)
StartReceive(p) ==
  /\ state' = [state EXCEPT ![p] = "open"]
  /\ watched' = watched \cup Ends(p)
  /\ interest' = [interest EXCEPT ![Rx(p)] = {"in"}, ![Tx(p)] = {"in"}]

(* connect() succeeds at once. *)
AcceptConnected(p) ==
  /\ StartReceive(p)
  /\ UNCHANGED closedQ

(* EINPROGRESS: only the tx side is watched, for the outcome. *)
AcceptInProgress(p) ==
  /\ state' = [state EXCEPT ![p] = "connecting"]
  /\ watched' = watched \cup {Tx(p)}
  /\ interest' = [interest EXCEPT ![Rx(p)] = {}, ![Tx(p)] = {"in", "out"}]
  /\ UNCHANGED closedQ

(* The uplink socket fails before tx_data exists, or epoll_ctl fails after: *)
(* one or both structs are queued.                                          *)
AcceptAborted(p) ==
  /\ state' = [state EXCEPT ![p] = "closed"]
  /\ closedQ' \in {closedQ \o <<Rx(p)>>, closedQ \o <<Rx(p), Tx(p)>>}
  /\ UNCHANGED <<watched, interest>>

Accept(p) ==
  /\ Handling(Listen, "in")
  /\ Allocate(p)
  /\ AcceptConnected(p) \/ AcceptInProgress(p) \/ AcceptAborted(p)
  /\ backlog' = backlog - 1
  /\ Continue
  /\ UNCHANGED <<loop, connects>>
-----------------------------------------------------------------------------
(* EPOLLIN on connection c. *)

(* Mutant: only one end is switched. *)
SwitchMod_OneEnd(c, b) ==
  interest' = [interest EXCEPT ![c] =
    (IF b[c] = <<>> THEN {"in"} ELSE {}) \cup (IF b[Sib(c)] # <<>> THEN {"out"} ELSE {})]

(* switch_mod on both ends of c, given the new buffers b. *)
SwitchMod(c, b) ==
  interest' = [d \in Conn |->
    IF d \in Ends(c[1])
    THEN (IF b[d] = <<>> THEN {"in"} ELSE {}) \cup (IF b[Sib(d)] # <<>> THEN {"out"} ELSE {})
    ELSE interest[d]]

(* Units n+1 .. n+k of a stream. *)
Units(n, k) == [i \in 1..k |-> n + i]

(* The buffer still holds data: the event is left. *)
InBufferFull(c) == Handling(c, "in") /\ buf[c] # <<>>

(* Mutant: the -1 of a failed read() is used as a length. *)
InEof_ErrorUnchecked(c) ==
  /\ Handling(c, "in") /\ buf[c] = <<>>
  /\ \/ Avail(c) = 0 /\ fin[c] = "shut" /\ Break /\ CloseConnections(c) /\ UNCHANGED read
     \/ /\ fin[c] = "reset"
        /\ read' = [read EXCEPT ![c] = @ - 1]
        /\ Proceed("in")
        /\ UNCHANGED memVars
  /\ UNCHANGED <<loop, peerVars, room, delivered>>

(* read() returns 0, or fails *)
InEof(c) ==
  /\ Handling(c, "in") /\ buf[c] = <<>>
  /\ \/ Avail(c) = 0 /\ fin[c] = "shut" /\ Break
     \/ fin[c] = "reset" /\ Continue
  /\ CloseConnections(c)
  /\ UNCHANGED <<loop, peerVars, dataVars>>

(* ... or has data, of which send() takes what fits. *)
InData(c) ==
  /\ Handling(c, "in") /\ buf[c] = <<>> /\ Avail(c) > 0
  /\ LET n    == Least(Avail(c), BufSize)
         k    == Least(n, room[Sib(c)])
         new  == Units(read[c], n)
         left == SubSeq(new, k + 1, n)
     IN  /\ fin[Sib(c)] # "reset"
         /\ read' = [read EXCEPT ![c] = @ + n]
         /\ room' = [room EXCEPT ![Sib(c)] = @ - k]
         /\ delivered' = [delivered EXCEPT ![Sib(c)] = @ \o SubSeq(new, 1, k)]
         /\ \/ /\ left = <<>>
               /\ Proceed("in")
               /\ UNCHANGED memVars
            \/ /\ left # <<>> /\ Sib(c) \in watched
               /\ buf' = [buf EXCEPT ![c] = left]
               /\ SwitchMod(c, [buf EXCEPT ![c] = left])
               /\ Proceed("in")
               /\ UNCHANGED <<state, watched, closedQ>>
            \/ /\ left # <<>> /\ Sib(c) \notin watched \* EPOLL_CTL_MOD fails
               /\ CloseConnections(Sib(c))
               /\ Break
  /\ UNCHANGED <<loop, peerVars>>

InSendFails(c) ==
  /\ Handling(c, "in") /\ buf[c] = <<>> /\ Avail(c) > 0
  /\ fin[Sib(c)] = "reset"
  /\ read' = [read EXCEPT ![c] = @ + Least(Avail(c), BufSize)]
  /\ CloseConnections(c)
  /\ Break
  /\ UNCHANGED <<loop, peerVars, room, delivered>>
-----------------------------------------------------------------------------
(* EPOLLOUT on connection c, after EPOLLIN. *)

HandlingOut(c) == Handling(c, "out") /\ "in" \notin cur.ev

(* The outcome of connect(); start_receive may fail too. *)
OutConnected(c) ==
  /\ HandlingOut(c) /\ Connecting(c) /\ conn[c[1]] = "ok"
  /\ StartReceive(c[1])
  /\ Proceed("out")
  /\ UNCHANGED <<loop, buf, closedQ, peerVars, dataVars>>

OutConnectFails(c) ==
  /\ HandlingOut(c) /\ Connecting(c)
  /\ CloseConnections(c)
  /\ Continue
  /\ UNCHANGED <<loop, peerVars, dataVars>>

(* Mutant: no memmove after a partial send. *)
OutData_NoMove(c) ==
  /\ HandlingOut(c) /\ ~ Connecting(c)
  /\ buf[Sib(c)] = <<>> \/ (room[c] > 0 /\ fin[c] # "reset")
  /\ LET b    == buf[Sib(c)]
         k    == Least(Len(b), room[c])
         left == SubSeq(b, 1, Len(b) - k)
     IN  /\ room' = [room EXCEPT ![c] = @ - k]
         /\ delivered' = [delivered EXCEPT ![c] = @ \o SubSeq(b, 1, k)]
         /\ buf' = [buf EXCEPT ![Sib(c)] = left]
         /\ IF left = <<>> THEN SwitchMod(c, [buf EXCEPT ![Sib(c)] = left])
                           ELSE UNCHANGED interest
  /\ Proceed("out")
  /\ UNCHANGED <<loop, state, watched, closedQ, peerVars, read>>

(* Send from the sibling's buffer; watch for input again once it is empty. *)
OutData(c) ==
  /\ HandlingOut(c) /\ ~ Connecting(c)
  /\ buf[Sib(c)] = <<>> \/ (room[c] > 0 /\ fin[c] # "reset")
  /\ LET b    == buf[Sib(c)]
         k    == Least(Len(b), room[c])
         left == SubSeq(b, k + 1, Len(b))
     IN  /\ room' = [room EXCEPT ![c] = @ - k]
         /\ delivered' = [delivered EXCEPT ![c] = @ \o SubSeq(b, 1, k)]
         /\ buf' = [buf EXCEPT ![Sib(c)] = left]
         /\ IF left = <<>> THEN SwitchMod(c, [buf EXCEPT ![Sib(c)] = left])
                           ELSE UNCHANGED interest
  /\ Proceed("out")
  /\ UNCHANGED <<loop, state, watched, closedQ, peerVars, read>>

(* send() would block: the event is left. *)
OutBlocked(c) ==
  /\ HandlingOut(c) /\ ~ Connecting(c) /\ fin[c] # "reset"
  /\ buf[Sib(c)] # <<>> /\ room[c] = 0

(* send() fails. *)
OutSendFails(c) ==
  /\ HandlingOut(c) /\ ~ Connecting(c) /\ fin[c] = "reset"
  /\ buf[Sib(c)] # <<>>
  /\ CloseConnections(c)
  /\ Continue
  /\ UNCHANGED <<loop, peerVars, dataVars>>
-----------------------------------------------------------------------------
(* EPOLLRDHUP, EPOLLHUP, EPOLLERR, looked at last; then the next event. *)
Hup(c) ==
  /\ Handling(c, "hup") /\ cur.ev = {"hup"}
  /\ CloseConnections(c)
  /\ Continue
  /\ UNCHANGED <<loop, peerVars, dataVars>>

(* No flag is left, or `continue' leaves those there are. *)
EventDone ==
  /\ cur # NoEvent
  /\ cur.ev = {} \/ \E c \in Conn : InBufferFull(c) \/ OutBlocked(c)
  /\ Continue
  /\ UNCHANGED <<loop, memVars, peerVars, dataVars>>
-----------------------------------------------------------------------------
Peer == \/ ClientConnects
        \/ \E c \in Conn : \/ PeerSends(c) \/ PeerReads(c)
                           \/ \E how \in {"shut", "reset"} : PeerCloses(c, how)
        \/ \E p \in Pairs, how \in {"ok", "refused"} : ConnectResolves(p, how)

Step == \/ EpollWait \/ FlushClosedConnections \/ EventDone
        \/ \E e \in batch : TakeEvent(e)
        \/ AcceptFails \/ AcceptDenied
        \/ \E p \in Pairs : Accept(p)
        \/ \E c \in Conn : \/ InEof(c) \/ InData(c) \/ InSendFails(c)
                           \/ OutConnected(c) \/ OutConnectFails(c)
                           \/ OutData(c) \/ OutSendFails(c)
                           \/ Hup(c)

Next == Peer \/ Step \/ Stop

Spec == Init /\ [][Next]_vars

(* The process keeps running.  Nothing is assumed of the peers. *)
FairSpec == Spec /\ WF_vars(Step)
-----------------------------------------------------------------------------
(* Type invariant. *)
TypeOK ==
  /\ loop \in {"wait", "walk", "stopped"}
  /\ batch \subseteq Event
  /\ cur \in Event \cup {NoEvent}
  /\ state \in [Pairs -> {"free", "connecting", "open", "closed"}]
  /\ watched \subseteq Conn
  /\ interest \in [Conn -> SUBSET {"in", "out"}]
  /\ buf \in [Conn -> Seq(Nat)]
  /\ closedQ \in Seq(Conn)
  /\ backlog \in Int /\ connects \in Nat
  /\ sent \in [Conn -> Nat] /\ read \in [Conn -> Nat]
  /\ fin \in [Conn -> {"no", "shut", "reset"}]
  /\ room \in [Conn -> Nat]
  /\ delivered \in [Conn -> Seq(Nat)]
  /\ conn \in [Pairs -> {"pending", "ok", "refused"}]

(* switch_mod and start_receive keep what epoll is asked for in step with   *)
(* the two buffers of an open pair: input is asked for exactly while the    *)
(* buffer is empty, output exactly while the sibling has data waiting.  A   *)
(* missing flag would stall the pair, a superfluous one spin the loop.      *)
InterestMatchesBuffers ==
  \A p \in Pairs : state[p] = "open" => \A c \in Ends(p) :
     /\ c \in watched
     /\ "in" \in interest[c] <=> buf[c] = <<>>
     /\ "out" \in interest[c] <=> buf[Sib(c)] # <<>>

(* While a pair is open no byte is lost, duplicated or reordered, whether it *)
(* went straight through, was sent in parts or waited in the buffer: what    *)
(* the sibling was sent, followed by the buffer, is what was read.           *)
StreamIntact ==
  \A c \in Conn : state[c[1]] = "open" =>
     delivered[Sib(c)] \o buf[c] = Units(0, read[c])

(* "The memory is still valid": no event of the batch, taken or not, points  *)
(* to a freed struct client, although handling one event tears down two.     *)
NoUseAfterFree ==
  \A e \in batch \cup ({cur} \ {NoEvent}) : e.c # Listen => state[e.c[1]] # "free"

(* "at most two entries per event are ever queued": the array is never full  *)
(* and no struct is queued, hence freed, twice.                              *)
ClosedQueueSound ==
  /\ Len(closedQ) + 2 * Cardinality(batch) + (IF cur = NoEvent THEN 0 ELSE 2) <= 2 * MaxEvents
  /\ \A i, j \in 1..Len(closedQ) : closedQ[i] = closedQ[j] => i = j

(* Parts of the inductive invariant behind the properties above: which ends   *)
(* of a pair epoll knows in each state, what the events of a batch point to,  *)
(* and the streams of a pair that is still connecting.                        *)
PairShape ==
  \A p \in Pairs :
    /\ state[p] \in {"free", "closed"} => Rx(p) \notin watched /\ Tx(p) \notin watched
    /\ state[p] = "connecting" => /\ Rx(p) \notin watched
                                  /\ buf[Rx(p)] = <<>> /\ buf[Tx(p)] = <<>>

OnlyClosedQueued == \A i \in 1..Len(closedQ) : state[closedQ[i][1]] = "closed"

EventsLive ==
  /\ \A e \in batch : e.c # Listen => e.c \in watched \/ state[e.c[1]] = "closed"
  /\ cur # NoEvent => cur.c = Listen \/ cur.c \in watched

LoopInv == InterestMatchesBuffers /\ PairShape /\ OnlyClosedQueued /\ EventsLive

StreamInv ==
  \A c \in Conn : state[c[1]] \in {"connecting", "open"} =>
     delivered[Sib(c)] \o buf[c] = Units(0, read[c])

Open(c) == loop # "stopped" /\ state[c[1]] = "open"

(* A connection waits and accept() has no descriptor left for it. *)
Exhausted == backlog > 0 /\ \A p \in Pairs : state[p] # "free"

(* Data never stalls in an open pair: what is buffered goes out if the       *)
(* receiving socket has room, what has arrived is read once the buffer is    *)
(* empty, although events are stale and the `break' of another pair, or of a *)
(* failed accept(), drops this pair's events with the rest of the batch.     *)
(* Only an accept() that fails for want of descriptors can do so for ever.   *)
DataMoves ==
  \A c \in Conn :
    /\ (Open(c) /\ buf[c] # <<>> /\ room[Sib(c)] > 0)
         ~> (~ Open(c) \/ buf[c] = <<>> \/ room[Sib(c)] = 0 \/ Exhausted)
    /\ (Open(c) /\ Avail(c) > 0) ~> (~ Open(c) \/ Avail(c) = 0 \/ buf[c] # <<>> \/ Exhausted)
-----------------------------------------------------------------------------
(* The abstract relay this implements: a pair is open from accept() to        *)
(* close_connections, and what was read and not sent is on the way.           *)
R == INSTANCE Relay WITH
       Cap <- BufSize, taken <- read,
       open <- {p \in Pairs : state[p] \in {"connecting", "open"}}

(* vsockproxy is a relay: every step of the loop, partial sends, failed       *)
(* connects, resets and the reuse of a pair included, is a step of Relay or   *)
(* none at all.                                                               *)
RelaysStreams == R!Spec

=============================================================================
