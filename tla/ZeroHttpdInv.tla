------------------------------ MODULE ZeroHttpdInv ------------------------------
(***************************************************************************)
(* The inductive invariant behind the safety properties of ZeroHttpd: what *)
(* each outstanding operation owns on the heap, and what it says there.    *)
(***************************************************************************)
EXTENDS ZeroHttpd

(* What a request block holds while its operation is outstanding.  f is    *)
(* the socket of the operation.                                            *)
OnSocket(b, f) == f \in Fd /\ open[f] \in Client /\ req[b].sock = f

AcceptShape(b) == req[b].type = "ACCEPT" /\ req[b].iov = <<>>
ReadShape(b, f) ==
  /\ req[b].type = "READ" /\ OnSocket(b, f)
  /\ Len(req[b].iov) = 1 /\ req[b].iov[1] # b
WriteShape(b, f) ==
  req[b].type = "WRITE" /\ OnSocket(b, f) /\ Len(req[b].iov) # 0

ShapeInv ==
  /\ \A op \in inflight :
       \/ op.opcode = "accept" /\ AcceptShape(op.data) /\ op.sock = None
       \/ op.opcode = "readv" /\ ReadShape(op.data, op.sock)
       \/ op.opcode = "writev" /\ WriteShape(op.data, op.sock)
  /\ \A q \in cq :
       /\ q.res = "ok" =>
            \/ /\ AcceptShape(q.data)
               /\ q.sock \in Fd /\ open[q.sock] \in Client
            \/ ReadShape(q.data, q.sock)
            \/ WriteShape(q.data, q.sock)
       /\ q.res = "empty" => ReadShape(q.data, q.sock)

(* An operation has its socket to itself, and a connection its descriptor. *)
SocketInv ==
  /\ SocketsAccounted
  /\ \A f \in lost : \A op \in Outstanding : op.sock # f
  /\ \A op, other \in Outstanding :
       op.sock = other.sock /\ op.sock # None => op = other
  /\ \A f, g \in Fd : open[f] # None /\ open[f] = open[g] => f = g
  /\ \A f \in Fd : open[f] \notin backlog

(* The buffer of a completed read holds what its client has sent, the      *)
(* blocks of a write an answer to that.                                    *)
AnswerTo(c, bs) ==
  \E r \in replies(request[c]) : \A b \in bs : text[b] = [of |-> c, kind |-> r]

TextInv ==
  /\ \A q \in cq : q.res = "ok" /\ req[q.data].type = "READ" =>
       /\ text[req[q.data].iov[1]] =
            [of |-> open[q.sock], kind |-> request[open[q.sock]]]
       /\ request[open[q.sock]] \in Requests
  /\ \A op \in inflight : op.opcode = "writev" =>
       AnswerTo(open[op.sock], ToSet(req[op.data].iov))
  /\ OwnAnswer

(* The blocks that are allocated and that no operation will free.          *)
Used == UNION {Owned(b) : b \in InUse}
LeakInv ==
  /\ IsFiniteSet(lost)
  /\ Cardinality(live \ Used) = 2 * Cardinality(lost)

IInv ==
  /\ TypeOK
  /\ NothingDangles
  /\ ShapeInv
  /\ SocketInv
  /\ TextInv
  /\ LeakInv

================================================================================
