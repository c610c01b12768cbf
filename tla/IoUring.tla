-------------------------------- MODULE IoUring --------------------------------
(***************************************************************************)
(* The io_uring instance, the provided-buffer group and the descriptor     *)
(* table, as far as the servers of this repository use them.  None of this *)
(* is code of the repository: it is the kernel's side of the calls that    *)
(* server/io_uring.h makes through liburing.  A server module extends this *)
(* one, adds its own variables and conjoins UNCHANGED of them with the     *)
(* kernel's actions.                                                       *)
(*                                                                         *)
(* The submission queue is a sequence: the kernel consumes it in order,    *)
(* and only inside io_uring_submit_and_wait.  Operations in flight and     *)
(* posted completions are sets: io_uring promises no order of completion,  *)
(* so any posted completion may be the next one the event loop reads.      *)
(***************************************************************************)
EXTENDS Naturals, Sequences, FiniteSets

CONSTANTS
  Client,   \* connections clients make; each of them is made once
  Fd,       \* descriptors the process can still give to accepted sockets
  Bid,      \* ids of the provided buffers, 0 .. BUFFERS_COUNT-1 in the code
  Faults,   \* failures of the environment: see FaultKinds
  None

FaultKinds == {"accept", "eof", "reset", "provide", "short", "text"}

(* A process has a limit on its descriptors, and a group is one array.     *)
ASSUME RingAssumption ==
  /\ None \notin Client \union Fd \union Bid
  /\ Faults \subseteq FaultKinds
  /\ IsFiniteSet(Fd) /\ IsFiniteSet(Bid)

VARIABLES
  sq,         \* SQEs the program has filled in and the kernel not consumed
  inflight,   \* operations the kernel has taken and not completed
  cq,         \* CQEs posted and not yet seen by the event loop
  group,      \* buffers of the group the kernel may select
  open,       \* descriptor table: the connection behind each descriptor
  backlog     \* connections not yet accepted

ringVars == <<sq, inflight, cq, group, open, backlog>>

--------------------------------------------------------------------------------
(* What an SQE asks for: its arguments, which its user_data repeats as far *)
(* as a handler reads them.  conn is the connection that issued it, which  *)
(* no code reads.                                                          *)
Sqe(type, fd, bid, conn) ==
  [type |-> type, fd |-> fd, bid |-> bid, conn |-> conn]

SqeType ==
  [type : {"ACCEPT", "READ", "WRITE", "PROV_BUF"}, fd : Fd \union {None},
   bid : Bid \union {None}, conn : Client \union {None}]

(* A completion returns the user_data of its SQE, a result, and in out the *)
(* accepted descriptor or the selected buffer (cqe->flags >> 16).          *)
Cqe(op, res, out) == [op |-> op, res |-> res, out |-> out]

CqeType ==
  [op : SqeType, res : {"ok", "eof", "err", "short", "nobufs"},
   out : Fd \union Bid \union {None}]

RingTypeOK ==
  /\ sq \in Seq(SqeType)
  /\ inflight \subseteq SqeType
  /\ cq \subseteq CqeType
  /\ group \subseteq Bid
  /\ open \in [Fd -> Client \union {None}]
  /\ backlog \subseteq Client

Post(op, res, out) == cq' = cq \union {Cqe(op, res, out)}

--------------------------------------------------------------------------------
(* io_uring_enter takes the oldest SQE.  Providing a buffer is carried out *)
(* on the spot; everything else stays in flight.                           *)
ConsumeProvide ==
  /\ sq # <<>> /\ Head(sq).type = "PROV_BUF"
  /\ sq' = Tail(sq)
  /\ group' = group \union {Head(sq).bid}
  /\ Post(Head(sq), "ok", None)
  /\ UNCHANGED <<inflight, open, backlog>>

ConsumeProvideFails ==
  /\ "provide" \in Faults
  /\ sq # <<>> /\ Head(sq).type = "PROV_BUF"
  /\ sq' = Tail(sq)
  /\ Post(Head(sq), "err", None)
  /\ UNCHANGED <<inflight, group, open, backlog>>

ConsumeRequest ==
  /\ sq # <<>> /\ Head(sq).type # "PROV_BUF"
  /\ sq' = Tail(sq)
  /\ inflight' = inflight \union {Head(sq)}
  /\ UNCHANGED <<cq, group, open, backlog>>

Complete(op, res, out) ==
  /\ op \in inflight
  /\ inflight' = inflight \ {op}
  /\ Post(op, res, out)

(* An accept gives a waiting connection a descriptor that is not open.     *)
CompleteAccept(c, f) ==
  \E op \in inflight :
    /\ op.type = "ACCEPT" /\ c \in backlog /\ open[f] = None
    /\ Complete(op, "ok", f)
    /\ open' = [open EXCEPT ![f] = c]
    /\ backlog' = backlog \ {c}
    /\ UNCHANGED <<sq, group>>

(* With no descriptor left an accept fails at once (EMFILE); it may also   *)
(* fail because the peer is gone (ECONNABORTED).                           *)
FailAccept ==
  \E op \in inflight :
    /\ op.type = "ACCEPT"
    /\ "accept" \in Faults \/ \A f \in Fd : open[f] # None
    /\ Complete(op, "err", None)
    /\ UNCHANGED <<sq, group, open, backlog>>

(* A receive with IOSQE_BUFFER_SELECT takes a buffer of the group, also    *)
(* when the peer has closed ("eof") or reset the connection ("err"): the   *)
(* echo demos rely on it when they re-add the buffer of a failed read.     *)
RecvResults ==
  {"ok"} \union (IF "eof" \in Faults THEN {"eof"} ELSE {})
         \union (IF "reset" \in Faults THEN {"err"} ELSE {})

CompleteRecv(c, b, res) ==
  \E op \in inflight :
    /\ op.type = "READ" /\ op.conn = c /\ b \in group /\ res \in RecvResults
    /\ Complete(op, res, b)
    /\ group' = group \ {b}
    /\ UNCHANGED <<sq, open, backlog>>

(* -ENOBUFS: the group is empty when the receive needs a buffer.           *)
StarveRecv(c) ==
  \E op \in inflight :
    /\ op.type = "READ" /\ op.conn = c /\ group = {}
    /\ Complete(op, "nobufs", None)
    /\ UNCHANGED <<sq, group, open, backlog>>

(* A send on a stream socket may transmit a part of the buffer only.       *)
SendResults == {"ok"} \union (IF "short" \in Faults THEN {"short"} ELSE {})

CompleteSend(c, b, res) ==
  \E op \in inflight :
    /\ op.type = "WRITE" /\ op.conn = c /\ op.bid = b /\ res \in SendResults
    /\ Complete(op, res, None)
    /\ UNCHANGED <<sq, group, open, backlog>>

================================================================================
