----------------------------- MODULE EchoServerInv ------------------------------
(***************************************************************************)
(* The inductive invariant behind the safety properties of EchoServer.     *)
(* All the server knows of a connection is in its outstanding operations,  *)
(* so the invariant says, operation by operation, what each of them means. *)
(***************************************************************************)
EXTENDS EchoServer, RingInv

Transfers == {e \in SqeType : e.type \in {"READ", "WRITE"}}
Wakeups(c) == {e \in Transfers : e.conn = c}
Accepts == {e \in SqeType : e.type = "ACCEPT"}
Writes(b) == {e \in SqeType : e.type = "WRITE" /\ e.bid = b}

(* A transfer names the open descriptor of the connection that issued it;  *)
(* a buffer is provided on behalf of a connection that has a descriptor.   *)
Shaped(e) ==
  /\ e.type \in {"READ", "WRITE"} =>
       e.conn \in Client /\ e.fd \in Fd /\ open[e.fd] = e.conn
  /\ e.type \in {"WRITE", "PROV_BUF"} => e.bid \in Bid
  /\ e.type = "PROV_BUF" => e.conn \in Client /\ \E f \in Fd : open[f] = e.conn

ShapeInv ==
  /\ \A i \in DOMAIN sq : Shaped(sq[i])
  /\ \A e \in inflight : Shaped(e) /\ e.type # "PROV_BUF"
  /\ \A q \in cq :
       /\ Shaped(q.op)
       /\ q.op.type = "READ" /\ q.res # "nobufs" => q.out \in Bid
       /\ q.op.type = "ACCEPT" /\ q.res = "ok" => q.out \in Fd /\ open[q.out] \in Client

AcceptInv == One(Accepts)

DescriptorInv ==
  /\ \A f, g \in Fd : open[f] \in Client /\ open[f] = open[g] => f = g
  /\ \A f \in Fd : open[f] \in Client => open[f] \notin backlog

(* Nothing was asked for yet on a connection that waits to be accepted, or *)
(* whose accept has not been seen; afterwards at most one transfer is      *)
(* outstanding at a time.                                                  *)
Fresh(c) ==
  \/ c \in backlog
  \/ \E q \in cq : q.op.type = "ACCEPT" /\ q.res = "ok" /\ open[q.out] = c

WakeupInv ==
  \A c \in Client :
    /\ AtMostOne(Wakeups(c))
    /\ Fresh(c) => /\ ~Some(Wakeups(c))
                   /\ \A i \in DOMAIN sq : sq[i].type = "PROV_BUF" => sq[i].conn # c
                   /\ delivered[c] = 0 /\ echoed[c] = <<>>

(* While a buffer waits in the SQ to be provided, nothing is outstanding   *)
(* for its connection but the next read, which is filled in later.         *)
ProvideInv ==
  \A i \in DOMAIN sq : sq[i].type = "PROV_BUF" =>
    /\ \A e \in inflight : e \in Transfers => e.conn # sq[i].conn
    /\ \A q \in cq : q.op \in Transfers => q.op.conn # sq[i].conn
    /\ \A j \in DOMAIN sq :
         sq[j].type # "ACCEPT" /\ sq[j].conn = sq[i].conn =>
           j = i \/ (j > i /\ sq[j].type = "READ")

(* The hands a buffer can be in: the group's, a completed read's, a        *)
(* write's from when it is filled in to when its completion is seen, a     *)
(* request's to provide it, or none any more when that failed.             *)
Selected(q, b) == q.op.type = "READ" /\ q.out = b
Providing(i, b) == sq[i].type = "PROV_BUF" /\ sq[i].bid = b
Failed(q, b) == q.op.type = "PROV_BUF" /\ q.op.bid = b /\ q.res = "err"

HandsApart(b) ==
  /\ AtMostOne(Writes(b))
  /\ \A q, r \in cq : Selected(q, b) /\ Selected(r, b) => q = r
  /\ \A i, j \in DOMAIN sq : Providing(i, b) /\ Providing(j, b) => i = j
  /\ \A q, r \in cq : Failed(q, b) /\ Failed(r, b) => q = r
  /\ b \in group => /\ \A q \in cq : ~Selected(q, b) /\ ~Failed(q, b)
                    /\ ~Some(Writes(b))
                    /\ \A i \in DOMAIN sq : ~Providing(i, b)
  /\ \A q \in cq : Selected(q, b) => /\ ~Some(Writes(b))
                                     /\ \A i \in DOMAIN sq : ~Providing(i, b)
                                     /\ \A r \in cq : ~Failed(r, b)
  /\ Some(Writes(b)) => /\ \A i \in DOMAIN sq : ~Providing(i, b)
                        /\ \A r \in cq : ~Failed(r, b)
  /\ \A i \in DOMAIN sq, r \in cq : ~(Providing(i, b) /\ Failed(r, b))

InSomeHand(b) ==
  \/ b \in group
  \/ Some(Writes(b))
  \/ \E q \in cq : Selected(q, b) \/ Failed(q, b)
  \/ \E i \in DOMAIN sq : Providing(i, b)

BufferInv == \A b \in Bid : InSomeHand(b) /\ HandsApart(b)

(* The message in hand is the last one received, and the next to be        *)
(* echoed; when a read may be issued, nothing is left to be echoed.        *)
Held(c, b) == bufs[b] = <<c, delivered[c]>> /\ Len(echoed[c]) + 1 = delivered[c]
Level(c) == Len(echoed[c]) = delivered[c]

EchoInv ==
  /\ \A i \in DOMAIN sq : /\ sq[i].type = "WRITE" => Held(sq[i].conn, sq[i].bid)
                          /\ sq[i].type = "READ" => Level(sq[i].conn)
  /\ \A e \in inflight : /\ e.type = "WRITE" => Held(e.conn, e.bid)
                         /\ e.type = "READ" => Level(e.conn)
  /\ \A q \in cq : /\ q.op.type = "READ" /\ q.res = "ok" => Held(q.op.conn, q.out)
                   /\ q.op.type = "WRITE" => Level(q.op.conn)
  /\ EchoesInOrder

(* Whose the operations, the descriptors and the buffers are: this part    *)
(* does not depend on what the buffers hold.                               *)
LendInv ==
  /\ TypeOK
  /\ ShapeInv
  /\ AcceptInv
  /\ DescriptorInv
  /\ WakeupInv
  /\ ProvideInv
  /\ BufferInv

CoreInv == LendInv /\ EchoInv

(* A read has starved, or the process has ended for it, only when a buffer *)
(* was lost; a lost buffer stays lost.                                     *)
BufferLost == \E q \in cq : q.op.type = "PROV_BUF" /\ q.res = "err"

StarvedInv ==
  /\ Cardinality(Fd) <= Cardinality(Bid) /\ (\E q \in cq : q.res = "nobufs") => BufferLost
  /\ NoBufferExhaustion

IInv == CoreInv /\ StarvedInv /\ SqNeverFull

================================================================================
