---------------------------- MODULE UringServerInv -----------------------------
(***************************************************************************)
(* The inductive invariant behind the safety properties of UringServer.    *)
(* "Exactly one" is spelled out place by place, without the sets of places *)
(* of the properties, so that one step of the ring changes one clause.     *)
(***************************************************************************)
EXTENDS UringServer, RingInv

(* Operations name a connection, a descriptor and a buffer when their type *)
(* has one, and only transfers and the accept are ever in flight.          *)
Shaped(e) ==
  /\ e.type \in {"READ", "WRITE"} => e.conn \in Client /\ e.fd \in Fd
  /\ e.type = "PROV_BUF" => e.conn \in Client /\ e.bid \in Bid

ShapeInv ==
  /\ \A i \in DOMAIN sq : Shaped(sq[i])
  /\ \A e \in inflight : Shaped(e) /\ e.type # "PROV_BUF"
  /\ \A q \in cq : /\ Shaped(q.op)
                   /\ q.op.type = "READ" /\ q.res # "nobufs" => q.out \in Bid

RouteInv ==
  /\ \A i \in DOMAIN sq : sq[i] \in Transfers => Routed(sq[i])
  /\ \A e \in inflight : e \in Transfers => Routed(e)
  /\ \A q \in cq : q.op \in Transfers => Routed(q.op)

WakeupInv ==
  \A c \in Client :
    IF co[c] \in {"read", "write"} THEN One(Wakeups(c)) ELSE ~Some(Wakeups(c))

AcceptInv == One(Accepts)

(* The descriptor an accept has returned is open and not yet registered.   *)
DescriptorInv ==
  /\ DescriptorAgreement
  /\ \A q \in cq : q.op.type = "ACCEPT" /\ q.res = "ok" =>
       q.out \in Fd /\ open[q.out] \in Client /\ connections[q.out] = None
  /\ \A f, g \in Fd : open[f] \in Client /\ open[f] = open[g] => f = g
  /\ \A f \in Fd : open[f] \in Client =>
       /\ open[f] \notin backlog
       /\ connections[f] = open[f] \/ co[open[f]] = "none"

CoroutineInv ==
  /\ \A f \in Fd : connections[f] \in Client =>
       /\ co[connections[f]] \in {"read", "write"}
       /\ promise[connections[f]].fd = f
  /\ \A c \in Client :
       /\ co[c] # "write" => promise[c].bid = None
       /\ co[c] = "write" => promise[c].bid \in Bid
       /\ c \in backlog => co[c] = "none"

(* Each of the five hands a buffer can be in, and no two at once.          *)
Selected(q, b) == q.op.type = "READ" /\ q.out = b
Providing(i, b) == sq[i].type = "PROV_BUF" /\ sq[i].bid = b
Failed(q, b) == q.op.type = "PROV_BUF" /\ q.op.bid = b /\ q.res = "err"

HandsApart(b) ==
  /\ \A q, r \in cq : Selected(q, b) /\ Selected(r, b) => q = r
  /\ \A c, d \in Client : promise[c].bid = b /\ promise[d].bid = b => c = d
  /\ \A i, j \in DOMAIN sq : Providing(i, b) /\ Providing(j, b) => i = j
  /\ \A q, r \in cq : Failed(q, b) /\ Failed(r, b) => q = r
  /\ b \in group => /\ \A q \in cq : ~Selected(q, b) /\ ~Failed(q, b)
                    /\ \A c \in Client : promise[c].bid # b
                    /\ \A i \in DOMAIN sq : ~Providing(i, b)
  /\ \A q \in cq : Selected(q, b) => /\ \A c \in Client : promise[c].bid # b
                                     /\ \A i \in DOMAIN sq : ~Providing(i, b)
                                     /\ \A r \in cq : ~Failed(r, b)
  /\ \A c \in Client : promise[c].bid = b => /\ \A i \in DOMAIN sq : ~Providing(i, b)
                                             /\ \A r \in cq : ~Failed(r, b)
  /\ \A i \in DOMAIN sq, r \in cq : ~(Providing(i, b) /\ Failed(r, b))

InSomeHand(b) ==
  \/ b \in group
  \/ \E q \in cq : Selected(q, b) \/ Failed(q, b)
  \/ \E c \in Client : promise[c].bid = b
  \/ \E i \in DOMAIN sq : Providing(i, b)

BufferInv == \A b \in Bid : InSomeHand(b) /\ HandsApart(b)

(* The conjuncts about the routing of completions, the coroutines and the  *)
(* buffers: inductive on their own.                                        *)
CoreInv ==
  /\ TypeOK
  /\ ShapeInv
  /\ RouteInv
  /\ WakeupInv
  /\ AcceptInv
  /\ DescriptorInv
  /\ CoroutineInv
  /\ BufferInv
  /\ proc # "derailed"

(* While a buffer waits in the SQ to be provided, nothing is outstanding   *)
(* on the descriptor it was answered on, except the first read of the      *)
(* connection that got this descriptor next, and that is filled in later.  *)
ProvideInv ==
  \A i \in DOMAIN sq : sq[i].type = "PROV_BUF" =>
    /\ sq[i].fd \in Fd
    /\ \A e \in inflight : e \in Transfers => e.fd # sq[i].fd
    /\ \A q \in cq : q.op \in Transfers => q.op.fd # sq[i].fd
    /\ \A j \in DOMAIN sq :
         sq[j].type # "ACCEPT" /\ sq[j].fd = sq[i].fd =>
           j = i \/ (j > i /\ sq[j].type = "READ")

(* One descriptor at most is accepted again while the loop has not         *)
(* submitted what closing it has filled in.                                *)
Reused(i) == sq[i].type = "PROV_BUF" /\ open[sq[i].fd] # None

ReuseInv ==
  loop = "reap" =>
    /\ \A i, j \in DOMAIN sq : Reused(i) /\ Reused(j) => i = j
    /\ \A i \in DOMAIN sq : Reused(i) =>
         \/ \E q \in cq : q.op.type = "ACCEPT" /\ q.res = "ok" /\ q.out = sq[i].fd
         \/ \E j \in DOMAIN sq : sq[j].type = "ACCEPT"

(* A read has starved, or the process has ended for it, only when a buffer *)
(* was lost; a lost buffer stays lost.                                     *)
StarvedInv ==
  /\ Cardinality(Fd) <= Cardinality(Bid) /\ (\E q \in cq : q.res = "nobufs") => BufferLost
  /\ NoBufferExhaustion

BoundInv == ProvideInv /\ ReuseInv /\ StarvedInv /\ SqNeverFull

IInv == CoreInv /\ BoundInv

================================================================================
