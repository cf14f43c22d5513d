-------------------------------- MODULE Relay --------------------------------
(***************************************************************************)
(* What vsockproxy promises: between the two ends of an open pair, a       *)
(* channel each way that loses, repeats and reorders nothing and holds at  *)
(* most Cap units on the way.  Only the end of the pair loses what was on  *)
(* the way, and a new pair starts with empty channels.                     *)
(***************************************************************************)
EXTENDS Integers, Sequences

CONSTANTS
  Pairs,  \* pairs of connected guests there is room for
  Cap     \* units on the way in one direction

VARIABLES
  open,      \* pairs in use
  sent,      \* sent[c]: units the peer of c has sent
  taken,     \* taken[c]: of which the relay has taken so many
  delivered  \* delivered[c]: what the peer of c was given

Conn     == Pairs \X {"rx", "tx"}
Other(c) == <<c[1], IF c[2] = "rx" THEN "tx" ELSE "rx">>

Init ==
  /\ open = {}
  /\ sent = [c \in Conn |-> 0] /\ taken = [c \in Conn |-> 0]
  /\ delivered = [c \in Conn |-> <<>>]

Send(c) ==
  /\ c[1] \in open
  /\ sent' = [sent EXCEPT ![c] = @ + 1]
  /\ UNCHANGED <<open, taken, delivered>>

(* Units come in at c and go out at its other end, in the order they were    *)
(* sent: units 1..k have gone out.                                           *)
Carry(c, n, k) ==
  /\ taken[c] <= n /\ n <= sent[c]
  /\ Len(delivered[Other(c)]) <= k /\ k <= n
  /\ taken' = [taken EXCEPT ![c] = n]
  /\ delivered' = [delivered EXCEPT ![Other(c)] = [i \in 1..k |-> i]]
  /\ UNCHANGED sent

Move(c, n, k) ==
  /\ c[1] \in open /\ Carry(c, n, k) /\ n - k <= Cap
  /\ UNCHANGED open

(* A pair may end while units are carried. *)
Close(c, n, k) ==
  /\ c[1] \in open /\ Carry(c, n, k)
  /\ open' = open \ {c[1]}

(* A pair begins, or is given up as soon as it has begun. *)
Begin(p) ==
  /\ p \notin open
  /\ open' \in {open, open \cup {p}}
  /\ sent' = [c \in Conn |-> IF c[1] = p THEN 0 ELSE sent[c]]
  /\ taken' = [c \in Conn |-> IF c[1] = p THEN 0 ELSE taken[c]]
  /\ delivered' = [c \in Conn |-> IF c[1] = p THEN <<>> ELSE delivered[c]]

Next ==
  \/ \E c \in Conn : Send(c) \/ \E n \in 0..sent[c] : \E k \in 0..n : Move(c, n, k) \/ Close(c, n, k)
  \/ \E p \in Pairs : Begin(p)

Spec == Init /\ [][Next]_<<open, sent, taken, delivered>>
=============================================================================
