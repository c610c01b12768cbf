------------------------------- MODULE EchoServer ------------------------------
(***************************************************************************)
(* demo/io_uring_echo_server.c (io_uring_echo_server.cpp is the same       *)
(* program): one thread, one event loop, no coroutines.  All it knows of a *)
(* connection travels in the user_data of the operation outstanding.       *)
(*                                                                         *)
(* A client sends its messages in order; each fits in a buffer and arrives *)
(* whole.  What is echoed is what the buffer holds when the kernel sends.  *)
(***************************************************************************)
EXTENDS IoUring

CONSTANTS
  ENTRIES,    \* SQEs of the ring: 2048 in io_uring_queue_init_params
  Messages    \* bound: messages a client sends

ASSUME EchoAssumption == ENTRIES \in Nat \ {0} /\ Messages \in Nat

VARIABLES
  proc,        \* "up", or why the process has ended
  loop,        \* in io_uring_for_each_cqe, or in io_uring_submit_and_wait
  shut,        \* descriptors that were shut down
  bufs,        \* the message each buffer holds
  delivered,   \* messages received from each client
  echoed       \* what was sent to each client, and whether all of it was

echoVars == <<proc, loop, shut>>
dataVars == <<bufs, delivered, echoed>>
vars == <<ringVars, echoVars, dataVars>>

Ended == {"enobufs", "eprovide", "nosqe"}

Message == Client \X (1 .. Messages)

TypeOK ==
  /\ RingTypeOK
  /\ proc \in {"up"} \union Ended
  /\ loop \in {"reap", "enter"}
  /\ shut \subseteq Fd
  /\ bufs \in [Bid -> Message \union {None}]
  /\ delivered \in [Client -> 0 .. Messages]
  /\ echoed \in [Client -> Seq([msg : Message \union {None}, whole : BOOLEAN])]

--------------------------------------------------------------------------------
(* conn_info has no buffer for an accept or a read, and add_provide_buf    *)
(* leaves its fd 0: the handlers never read these.                         *)
add_accept == Sqe("ACCEPT", None, None, None)
add_socket_read(c, fd) == Sqe("READ", fd, None, c)
add_socket_write(c, fd, bid) == Sqe("WRITE", fd, bid, c)

(* Bug variant: the buffer is taken from the user_data of a read, which    *)
(* names none.                                                             *)
NoBid_add_provide_buf(c, bid) == Sqe("PROV_BUF", None, add_socket_read(c, None).bid, c)
add_provide_buf(c, bid) == Sqe("PROV_BUF", None, bid, c)

(* io_uring_get_sqe returns NULL when the SQ is full, and is not checked.  *)
(* Bug variant: the last SQE of the ring is never used.                    *)
OffByOne_Room(n) == Len(sq) + n < ENTRIES
Room(n) == Len(sq) + n <= ENTRIES

Exit(reason) ==
  /\ proc' = reason
  /\ UNCHANGED <<ringVars, loop, shut, dataVars>>

(* The CQE at hand is done with and the SQEs s are filled in.              *)
Answer(q, s) ==
  IF ~Room(Len(s)) THEN Exit("nosqe")
  ELSE /\ cq' = cq \ {q}
       /\ sq' = sq \o s
       /\ UNCHANGED <<inflight, group, open, backlog, proc, loop, dataVars>>
       /\ shut' = IF q.op.type = "READ" /\ q.res # "ok" THEN shut \union {q.op.fd}
                  ELSE shut

Init ==
  /\ sq = <<add_accept>>
  /\ inflight = {} /\ cq = {}
  /\ group = Bid
  /\ open = [f \in Fd |-> None]
  /\ backlog = Client
  /\ proc = "up" /\ loop = "enter" /\ shut = {}
  /\ bufs = [b \in Bid |-> None]
  /\ delivered = [c \in Client |-> 0]
  /\ echoed = [c \in Client |-> <<>>]

--------------------------------------------------------------------------------
Enter ==
  /\ proc = "up" /\ loop = "reap" /\ cq = {}
  /\ loop' = "enter"
  /\ UNCHANGED <<ringVars, proc, shut, dataVars>>

Return ==
  /\ proc = "up" /\ loop = "enter" /\ sq = <<>> /\ cq # {}
  /\ loop' = "reap"
  /\ UNCHANGED <<ringVars, proc, shut, dataVars>>

KernelConsumes ==
  /\ proc = "up" /\ loop = "enter"
  /\ ConsumeProvide \/ ConsumeProvideFails \/ ConsumeRequest
  /\ UNCHANGED <<echoVars, dataVars>>

Accepted(c) ==
  /\ proc = "up"
  /\ \E f \in Fd : CompleteAccept(c, f)
  /\ UNCHANGED <<echoVars, dataVars>>

AcceptFailed == proc = "up" /\ FailAccept /\ UNCHANGED <<echoVars, dataVars>>

(* The next message of c arrives, in the buffer the kernel selects.        *)
Received(c) ==
  /\ proc = "up" /\ delivered[c] < Messages
  /\ \E b \in Bid :
       /\ CompleteRecv(c, b, "ok")
       /\ bufs' = [bufs EXCEPT ![b] = <<c, delivered[c] + 1>>]
  /\ delivered' = [delivered EXCEPT ![c] = @ + 1]
  /\ UNCHANGED <<echoVars, echoed>>

(* c hangs up, or has been shut down; or no buffer is left.                *)
ReceiveFailed(c) ==
  /\ proc = "up"
  /\ StarveRecv(c) \/ \E b \in Bid, res \in RecvResults \ {"ok"} : CompleteRecv(c, b, res)
  /\ UNCHANGED <<echoVars, dataVars>>

Sent(c) ==
  /\ proc = "up"
  /\ \E b \in Bid, res \in SendResults :
       /\ CompleteSend(c, b, res)
       /\ echoed' = [echoed EXCEPT
                       ![c] = Append(@, [msg |-> bufs[b], whole |-> res = "ok"])]
  /\ UNCHANGED <<echoVars, bufs, delivered>>

--------------------------------------------------------------------------------
(* The loop's branches, in the order of the code.                          *)
Reaping(q, type) ==
  /\ proc = "up" /\ loop = "reap"
  /\ q \in cq /\ q.op.type = type /\ q.res # "nobufs"

OutOfBuffers ==
  /\ proc = "up" /\ loop = "reap"
  /\ \E q \in cq : q.res = "nobufs"
  /\ Exit("enobufs")

HandleProvBuf ==
  \E q \in cq :
    /\ Reaping(q, "PROV_BUF")
    /\ IF q.res = "err" THEN Exit("eprovide") ELSE Answer(q, <<>>)

(* Bug variant: the accept is re-armed only if it succeeded.               *)
NotRearmed_AfterAccept(c, q) ==
  IF q.res = "ok" THEN <<add_socket_read(c, q.out), add_accept>> ELSE <<>>
AfterAccept(c, q) ==
  IF q.res = "ok" THEN <<add_socket_read(c, q.out), add_accept>> ELSE <<add_accept>>

HandleAccept ==
  \E q \in cq :
    /\ Reaping(q, "ACCEPT")
    /\ Answer(q, AfterAccept(IF q.res = "ok" THEN open[q.out] ELSE None, q))

(* A failed read or the end of the stream: shutdown, and no close.         *)
(* Bug variant: a buffer is provided as soon as it was read.               *)
TooEarly_AfterRead(c, q) ==
  IF q.res = "ok"
  THEN <<add_provide_buf(c, q.out), add_socket_write(c, q.op.fd, q.out)>>
  ELSE <<add_provide_buf(c, q.out)>>
AfterRead(c, q) ==
  IF q.res = "ok" THEN <<add_socket_write(c, q.op.fd, q.out)>>
  ELSE <<add_provide_buf(c, q.out)>>

HandleRead(c) ==
  \E q \in cq :
    /\ Reaping(q, "READ") /\ q.op.conn = c
    /\ Answer(q, AfterRead(c, q))

(* The result of the send is not looked at.                                *)
(* Bug variants: the next read comes first; there is no next read.         *)
ReadFirst_AfterWrite(c, q) ==
  <<add_socket_read(c, q.op.fd), add_provide_buf(c, q.op.bid)>>
NoRead_AfterWrite(c, q) == <<add_provide_buf(c, q.op.bid)>>
AfterWrite(c, q) == <<add_provide_buf(c, q.op.bid), add_socket_read(c, q.op.fd)>>

HandleWrite(c) ==
  \E q \in cq :
    /\ Reaping(q, "WRITE") /\ q.op.conn = c
    /\ Answer(q, AfterWrite(c, q))

Next ==
  \/ Enter
  \/ Return
  \/ KernelConsumes
  \/ AcceptFailed
  \/ OutOfBuffers
  \/ HandleProvBuf
  \/ HandleAccept
  \/ \E c \in Client : \/ Accepted(c)
                       \/ Received(c)
                       \/ ReceiveFailed(c)
                       \/ Sent(c)
                       \/ HandleRead(c)
                       \/ HandleWrite(c)

(* As for the web server.  A client sends its messages; it need not hang   *)
(* up afterwards.                                                          *)
Fairness ==
  /\ WF_vars(Enter) /\ WF_vars(Return) /\ WF_vars(KernelConsumes)
  /\ WF_vars(OutOfBuffers) /\ WF_vars(HandleProvBuf) /\ WF_vars(HandleAccept)
  /\ \A c \in Client :
       /\ SF_vars(Accepted(c))
       /\ WF_vars(Received(c)) /\ WF_vars(Sent(c))
       /\ WF_vars(HandleRead(c)) /\ WF_vars(HandleWrite(c))

Spec == Init /\ [][Next]_vars
FairSpec == Spec /\ Fairness

--------------------------------------------------------------------------------
Operations == {sq[i] : i \in DOMAIN sq} \union inflight \union {q.op : q \in cq}

(* A client gets its own messages back, each once and in the order it sent *)
(* them, whichever buffers they passed through and whoever used these      *)
(* before (io_uring_echo_server.c:147-164).                                *)
EchoesInOrder ==
  \A c \in Client :
    /\ Len(echoed[c]) <= delivered[c]
    /\ \A i \in DOMAIN echoed[c] : echoed[c][i].msg = <<c, i>>

(* "write has been completed": what was sent was sent whole                *)
(* (io_uring_echo_server.c:160).                                           *)
WriteHasBeenCompleted ==
  \A c \in Client : \A i \in DOMAIN echoed[c] : echoed[c][i].whole

(* document/part1.md:26 closes a connection whose read failed or ended.    *)
(* Its descriptor is free once nothing is outstanding on it.               *)
ClosedAtEnd ==
  \A f \in shut :
    (\A e \in Operations : e.type = "PROV_BUF" \/ e.fd # f) => open[f] = None

(* The ring needs two SQEs per connection, which a completed write fills   *)
(* in at once, and one for the accept.                                     *)
SqNeverFull == 2 * Cardinality(Fd) + 1 <= ENTRIES => proc # "nosqe"

(* As in the web server, "this should not happen" when there are as many   *)
(* buffers as descriptors and none was lost (io_uring_echo_server.c:130):  *)
(* the buffer is given back before the next read is issued.                *)
NoBufferExhaustion ==
  Cardinality(Fd) <= Cardinality(Bid) /\ proc = "enobufs" =>
    \E q \in cq : q.op.type = "PROV_BUF" /\ q.res = "err"

(* Buffers are lent as module BufferPool says.                             *)
Lent(c, b) ==
  \/ \E e \in Operations : e.type = "WRITE" /\ e.conn = c /\ e.bid = b
  \/ \E q \in cq : q.op.type = "READ" /\ q.op.conn = c /\ q.out = b

Returning(c, b) ==
  \/ \E i \in DOMAIN sq :
       sq[i].type = "PROV_BUF" /\ sq[i].conn = c /\ sq[i].bid = b
  \/ \E q \in cq : /\ q.op.type = "PROV_BUF" /\ q.res = "err"
                   /\ q.op.conn = c /\ q.op.bid = b

OwnerOf(b) ==
  IF b \in group THEN None
  ELSE IF \E c \in Client : Lent(c, b) \/ Returning(c, b)
       THEN CHOOSE c \in Client : Lent(c, b) \/ Returning(c, b)
       ELSE "lost"

Lending ==
  INSTANCE BufferPool WITH
    Conn <- Client, Buffer <- Bid, Pool <- None,
    owner <- [b \in Bid |-> OwnerOf(b)],
    released <- {b \in Bid : \E c \in Client : Returning(c, b)}

PoolDiscipline == Lending!Spec

(* Every client that gets a descriptor gets all its messages back, unless  *)
(* it hangs up or the process ends.                                        *)
AllEchoed ==
  \A c \in Client :
    c \notin backlog ~> \/ Len(echoed[c]) = Messages
                       \/ \E f \in shut : open[f] = c
                       \/ proc # "up"

================================================================================
