------------------------------ MODULE UringServer ------------------------------
(***************************************************************************)
(* The web server of server/: io_uring_handler::event_loop, the coroutines *)
(* it resumes (one handle_http_request per connection, suspended in a      *)
(* read_awaitable or a write_awaitable), and the requests they submit.     *)
(*                                                                         *)
(* One thread runs everything: between two CQEs the loop resumes at most   *)
(* one coroutine, which runs to its next suspension, so the handling of a  *)
(* CQE is one action.  The kernel of module IoUring moves between any two  *)
(* of them.  What a response says is left out; that its text is computed   *)
(* from whatever the read left in the buffer is not (see Killed).          *)
(***************************************************************************)
EXTENDS IoUring

CONSTANTS
  ENTRIES,    \* SQEs of the ring: 2048 in server.h
  Talkers     \* clients that send a request, or hang up, sooner or later

ASSUME ServerAssumption ==
  /\ ENTRIES \in Nat \ {0}
  /\ Talkers \subseteq Client

VARIABLES
  proc,         \* "up", or why the process has ended
  loop,         \* in io_uring_for_each_cqe, or in io_uring_submit_and_wait
  connections,  \* the map: the coroutine registered under each descriptor
  co,           \* where the coroutine of each connection is suspended
  promise       \* its request_info: client_socket and the buffer it uses

serverVars == <<proc, loop, connections, co, promise>>
vars == <<ringVars, serverVars>>

Ended == {"enobufs",    \* "this should not happen": exit(1)
          "eprovide",   \* a buffer could not be given back: exit(1)
          "killed",     \* the coroutine brought the process down
          "nosqe",      \* io_uring_get_sqe returned NULL and was written to
          "derailed"}   \* no coroutine, or not the suspended one, under the fd

Stages == {"none", "read", "write", "done"}

(* request_info is not initialised: None stands for an unwritten field.    *)
Blank == [fd |-> None, bid |-> None]

TypeOK ==
  /\ RingTypeOK
  /\ proc \in {"up"} \union Ended
  /\ loop \in {"reap", "enter"}
  /\ connections \in [Fd -> Client \union {None}]
  /\ co \in [Client -> Stages]
  /\ promise \in [Client -> [fd : Fd \union {None}, bid : Bid \union {None}]]

--------------------------------------------------------------------------------
(* The SQEs of io_uring_handler and the user_data each carries.            *)
add_accept_request == Sqe("ACCEPT", None, None, None)
add_read_request(c, f) == Sqe("READ", f, None, c)
add_write_request(c, b) == Sqe("WRITE", promise[c].fd, b, c)

(* Bug variant: the request is filled in after the frame was freed.        *)
AfterFree_add_buffer_request(c) == Sqe("PROV_BUF", Blank.fd, Blank.bid, c)
add_buffer_request(c) == Sqe("PROV_BUF", promise[c].fd, promise[c].bid, c)

(* The result of io_uring_get_sqe is used unchecked; nothing is submitted  *)
(* before the loop has gone through every CQE.                             *)

(* Bug variant: the last SQE of the ring is never used.                    *)
OffByOne_Room(n) == Len(sq) + n < ENTRIES
Room(n) == Len(sq) + n <= ENTRIES

(* What the steps of a coroutine leave in the SQ: its first run ends in    *)
(* read_awaitable::await_suspend, the second in write_awaitable's, and     *)
(* write_awaitable::await_resume gives the buffer back.  The loop itself   *)
(* re-arms the accept.                                                     *)
(* Bug variants: the coroutine, created suspended, is never resumed; the   *)
(* answer is not sent; it is sent but the buffer is provided at once; the  *)
(* buffer is not provided again; the accept is not re-armed.               *)
NotStarted_StartRead(c, f) == sq
StartRead(c, f) == Append(sq, add_read_request(c, f))

NotSent_StartWrite(c, b) == sq
TooEarly_StartWrite(c, b) ==
  Append(Append(sq, add_write_request(c, b)), Sqe("PROV_BUF", promise[c].fd, b, c))
StartWrite(c, b) == Append(sq, add_write_request(c, b))

NotGivenBack_EndWrite(c) == sq
EndWrite(c) == Append(sq, add_buffer_request(c))

NotRearmed_Rearm(s) == s
Rearm(s) == Append(s, add_accept_request)

(* add_close_request closes at once; it submits nothing.                   *)
(* Bug variants: the map keeps the entry; the descriptor is not closed.    *)
KeepsEntry_add_close_request(f) ==
  /\ open' = [open EXCEPT ![f] = None]
  /\ UNCHANGED connections
KeepsOpen_add_close_request(f) ==
  /\ connections' = [connections EXCEPT ![f] = None]
  /\ UNCHANGED open
add_close_request(f) ==
  /\ connections' = [connections EXCEPT ![f] = None]
  /\ open' = [open EXCEPT ![f] = None]

(* Every way to end the process leaves the CQE at hand unseen:             *)
(* io_uring_cq_advance comes after the loop.                               *)
Exit(reason) ==
  /\ proc' = reason
  /\ UNCHANGED <<ringVars, loop, connections, co, promise>>

Init ==
  /\ sq = <<add_accept_request>>
  /\ inflight = {} /\ cq = {}
  /\ group = Bid
  /\ open = [f \in Fd |-> None]
  /\ backlog = Client
  /\ proc = "up" /\ loop = "enter"
  /\ connections = [f \in Fd |-> None]
  /\ co = [c \in Client |-> "none"]
  /\ promise = [c \in Client |-> Blank]

--------------------------------------------------------------------------------
(* Around the loop: io_uring_submit_and_wait(&ring, 1) consumes every SQE  *)
(* and returns when there is a CQE; the loop ends when there is none left. *)
Enter ==
  /\ proc = "up" /\ loop = "reap" /\ cq = {}
  /\ loop' = "enter"
  /\ UNCHANGED <<ringVars, proc, connections, co, promise>>

Return ==
  /\ proc = "up" /\ loop = "enter" /\ sq = <<>> /\ cq # {}
  /\ loop' = "reap"
  /\ UNCHANGED <<ringVars, proc, connections, co, promise>>

KernelConsumes ==
  /\ proc = "up" /\ loop = "enter"
  /\ ConsumeProvide \/ ConsumeProvideFails \/ ConsumeRequest
  /\ UNCHANGED serverVars

(* Completions arrive at any time, whatever the event loop is doing.       *)
Accepted(c) == \E f \in Fd : CompleteAccept(c, f)
Received(c) == StarveRecv(c) \/ \E b \in Bid, res \in RecvResults : CompleteRecv(c, b, res)
Sent(c) == \E b \in Bid, res \in SendResults : CompleteSend(c, b, res)

Kernel(step) == proc = "up" /\ step /\ UNCHANGED serverVars

KernelCompletes ==
  \/ Kernel(FailAccept)
  \/ \E c \in Client : Kernel(Accepted(c)) \/ Kernel(Received(c)) \/ Kernel(Sent(c))

--------------------------------------------------------------------------------
(* The body of io_uring_for_each_cqe.  -ENOBUFS is tested before the type. *)
Reaping(q, type) ==
  /\ proc = "up" /\ loop = "reap"
  /\ q \in cq /\ q.op.type = type /\ q.res # "nobufs"

Seen(q) == cq' = cq \ {q}

OutOfBuffers ==
  /\ proc = "up" /\ loop = "reap"
  /\ \E q \in cq : q.res = "nobufs"
  /\ Exit("enobufs")

HandleProvBuf ==
  \E q \in cq :
    /\ Reaping(q, "PROV_BUF")
    /\ IF q.res = "err"
       THEN Exit("eprovide")
       ELSE /\ Seen(q)
            /\ UNCHANGED <<sq, inflight, group, open, backlog, serverVars>>

(* emplace starts no coroutine when the descriptor is still registered:    *)
(* resume() then wakes the old one.  A new one runs up to its first read,  *)
(* and the loop re-arms the accept after it.                               *)
HandleAccept ==
  \E q \in cq, c \in Client :
    /\ Reaping(q, "ACCEPT") /\ q.res = "ok" /\ open[q.out] = c
    /\ IF connections[q.out] # None THEN Exit("derailed")
       ELSE IF ~Room(2) THEN Exit("nosqe")
       ELSE /\ Seen(q)
            /\ connections' = [connections EXCEPT ![q.out] = c]
            /\ co' = [co EXCEPT ![c] = "read"]
            /\ promise' = [promise EXCEPT ![c] = [fd |-> q.out, bid |-> None]]
            /\ sq' = Rearm(StartRead(c, q.out))
            /\ UNCHANGED <<inflight, group, open, backlog, proc, loop>>

HandleFailedAccept ==
  \E q \in cq :
    /\ Reaping(q, "ACCEPT") /\ q.res = "err"
    /\ IF ~Room(1) THEN Exit("nosqe")
       ELSE /\ Seen(q)
            /\ sq' = Rearm(sq)
            /\ UNCHANGED <<inflight, group, open, backlog, serverVars>>

(* What resuming a reader leads to.  handle_http_request does not look at  *)
(* the result of the read.  After "eof" the text is empty and strtolower   *)
(* gets the NULL of strtok_r; after "err" the terminator is written before *)
(* the buffer and the text is whatever was there; the text of a request    *)
(* may lack a method or a path too, or name a file that cannot be opened.  *)
Answered(res) == res # "eof"
Killed(res) == res \in {"eof", "err"} \/ "text" \in Faults

(* connections.at finds the coroutine that is suspended in that request.   *)
Suspended(op, stage) ==
  LET c == connections[op.fd] IN c # None /\ c = op.conn /\ co[c] = stage

HandleRead(c) ==
  \E q \in cq :
    /\ Reaping(q, "READ") /\ q.op.conn = c /\ Answered(q.res)
    /\ IF ~Suspended(q.op, "read") THEN Exit("derailed")
       ELSE IF ~Room(1) THEN Exit("nosqe")
       ELSE /\ Seen(q)
            /\ promise' = [promise EXCEPT ![c].bid = q.out]
            /\ co' = [co EXCEPT ![c] = "write"]
            /\ sq' = StartWrite(c, q.out)
            /\ UNCHANGED <<inflight, group, open, backlog, proc, loop,
                           connections>>

RequestKills(c) ==
  \E q \in cq :
    /\ Reaping(q, "READ") /\ q.op.conn = c /\ Killed(q.res)
    /\ Exit("killed")

(* Whatever the send's result: the buffer is given back, the connection    *)
(* forgotten, the descriptor closed, and the frame freed at final_suspend. *)
HandleWrite(c) ==
  \E q \in cq :
    /\ Reaping(q, "WRITE") /\ q.op.conn = c
    /\ IF ~Suspended(q.op, "write") THEN Exit("derailed")
       ELSE IF ~Room(1) THEN Exit("nosqe")
       ELSE /\ Seen(q)
            /\ sq' = EndWrite(c)
            /\ add_close_request(promise[c].fd)
            /\ co' = [co EXCEPT ![c] = "done"]
            /\ promise' = [promise EXCEPT ![c] = Blank]
            /\ UNCHANGED <<inflight, group, backlog, proc, loop>>

HandlesCqe ==
  \/ OutOfBuffers
  \/ HandleProvBuf
  \/ HandleAccept
  \/ HandleFailedAccept
  \/ \E c \in Client : HandleRead(c) \/ RequestKills(c) \/ HandleWrite(c)

Next ==
  \/ Enter
  \/ Return
  \/ KernelConsumes
  \/ KernelCompletes
  \/ HandlesCqe

(* The loop runs and the CQ ring is first in, first out, so each CQE is    *)
(* handled; the kernel consumes what it is asked to and completes what can *)
(* be completed; not every accept fails for ever (SF).  Only a Talker's    *)
(* receive is sure to have an answer: there is no timeout in the code, so  *)
(* a silent client may stay silent.                                        *)
Fairness ==
  /\ WF_vars(Enter) /\ WF_vars(Return) /\ WF_vars(KernelConsumes)
  /\ WF_vars(OutOfBuffers) /\ WF_vars(HandleProvBuf)
  /\ WF_vars(HandleAccept) /\ WF_vars(HandleFailedAccept)
  /\ \A c \in Client :
       /\ WF_vars(HandleRead(c) \/ RequestKills(c))
       /\ WF_vars(HandleWrite(c))
       /\ SF_vars(Kernel(Accepted(c)))
       /\ WF_vars(Kernel(Sent(c)))
  /\ \A c \in Talkers : WF_vars(Kernel(Received(c)))
  /\ WF_vars(Kernel(FailAccept))

Spec == Init /\ [][Next]_vars
FairSpec == Spec /\ Fairness

--------------------------------------------------------------------------------
(* Where the operations of a kind E stand: prepared, in flight, completed. *)
Places(E) ==
  {<<"sq", i>> : i \in {j \in DOMAIN sq : sq[j] \in E}}
    \union {<<"inflight", e>> : e \in inflight \intersect E}
    \union {<<"cq", q>> : q \in {r \in cq : r.op \in E}}

ExactlyOne(S) == \E x \in S : S = {x}

Operations == {sq[i] : i \in DOMAIN sq} \union inflight \union {q.op : q \in cq}

Transfers == {e \in SqeType : e.type \in {"READ", "WRITE"}}
Wakeups(c) == {e \in Transfers : e.conn = c}
Accepts == {e \in SqeType : e.type = "ACCEPT"}

(* A completion names its connection by descriptor only, and descriptors   *)
(* are reused.  Whichever operation is outstanding, its descriptor still   *)
(* belongs to the connection that issued it, in the table and in the       *)
(* kernel, and that connection's coroutine waits for this kind of result   *)
(* (io_uring.h:137,145).                                                   *)
Routed(e) ==
  /\ connections[e.fd] = e.conn /\ open[e.fd] = e.conn
  /\ promise[e.conn].fd = e.fd
  /\ \/ e.type = "READ" /\ co[e.conn] = "read"
     \/ e.type = "WRITE" /\ co[e.conn] = "write" /\ promise[e.conn].bid = e.bid

Routing ==
  /\ \A e \in Operations \intersect Transfers : Routed(e)
  /\ proc # "derailed"

(* No wake-up is lost or doubled: a suspended coroutine has exactly one    *)
(* operation that will resume it, every other connection has none.         *)
OneWakeup ==
  \A c \in Client :
    IF co[c] \in {"read", "write"} THEN ExactlyOne(Places(Wakeups(c)))
    ELSE Places(Wakeups(c)) = {}

(* The accept is re-armed once per completion, failed ones included, so    *)
(* there is always exactly one (io_uring.h:133).                           *)
AcceptArmed == ExactlyOne(Places(Accepts))

(* Every buffer is in exactly one hand: the group's, a completed read's, a *)
(* coroutine's that answers from it, or a request's to provide it again    *)
(* (which may have failed).  A buffer in two hands is answered from by two *)
(* connections; one in no hand is lost for good.                           *)
Hands(b) ==
  {<<"group", x>> : x \in group \intersect {b}}
    \union {<<"selected", q>> : q \in {r \in cq : r.op.type = "READ" /\ r.out = b}}
    \union {<<"answering", c>> : c \in {d \in Client : promise[d].bid = b}}
    \union {<<"sq", i>> : i \in {j \in DOMAIN sq : sq[j].type = "PROV_BUF"
                                                    /\ sq[j].bid = b}}
    \union {<<"failed", q>> : q \in {r \in cq : /\ r.op.type = "PROV_BUF"
                                                /\ r.op.bid = b /\ r.res = "err"}}

BufferConservation == \A b \in Bid : ExactlyOne(Hands(b))

(* The map and the kernel's table agree: a descriptor is open exactly when *)
(* its connection is registered, or its accept has not been seen yet; so   *)
(* no descriptor leaks and none is closed under a live connection.         *)
DescriptorAgreement ==
  \A f \in Fd :
    \/ connections[f] = open[f]
    \/ /\ connections[f] = None
       /\ \E q \in cq : q.op.type = "ACCEPT" /\ q.res = "ok" /\ q.out = f

(* The SQ cannot overflow however many CQEs one pass of the loop handles,  *)
(* when it has room for one SQE per descriptor, one more, and the accept:  *)
(* a connection is accepted, answered and closed across several passes.    *)
SqNeverFull == Cardinality(Fd) + 2 <= ENTRIES => proc # "nosqe"

(* "bufs in automatic buffer selection empty, this should not happen" is   *)
(* true when there are as many buffers as descriptors (io_uring.h:105) and *)
(* none was lost to a failed provide: a buffer that is on its way back is  *)
(* in the group before its descriptor's next user can read.                *)
BufferLost == \E q \in cq : q.op.type = "PROV_BUF" /\ q.res = "err"

NoBufferExhaustion ==
  Cardinality(Fd) <= Cardinality(Bid) /\ proc = "enobufs" => BufferLost

(* The same sentence as the code has it, without a condition.              *)
ShouldNotHappen == proc # "enobufs"

(* Buffers are lent and returned as module BufferPool says: the refinement *)
(* mapping.  Lending is the completion of a read, releasing the completion *)
(* of the send, returning the kernel's consumption of the provide.         *)
Lent(c, b) ==
  \/ promise[c].bid = b
  \/ \E q \in cq : q.op.type = "READ" /\ q.op.conn = c /\ q.out = b

Returning(c, b) ==
  \/ \E i \in DOMAIN sq :
       sq[i].type = "PROV_BUF" /\ sq[i].conn = c /\ sq[i].bid = b
  \/ \E q \in cq : /\ q.op.type = "PROV_BUF" /\ q.res = "err"
                    /\ q.op.conn = c /\ q.op.bid = b

OwnerOf(b) ==
  IF b \in group THEN None
  ELSE IF \E c \in Client : Lent(c, b) \/ Returning(c, b)
       THEN CHOOSE c \in Client : Lent(c, b) \/ Returning(c, b)
       ELSE "lost"

Lending ==
  INSTANCE BufferPool WITH
    Conn <- Client, Buffer <- Bid, Pool <- None,
    owner <- [b \in Bid |-> OwnerOf(b)],
    released <- {b \in Bid : \E c \in Client : Returning(c, b)}

PoolDiscipline == Lending!Spec
PoolNeverDrains == Lending!FairSpec

(* A connection that was accepted and whose client talks is answered and   *)
(* closed, however long the others keep silent.                            *)
Served ==
  \A c \in Talkers : co[c] = "read" ~> co[c] = "done" \/ proc # "up"

(* While the silent clients leave a descriptor free, a connection waiting  *)
(* to be accepted is served too: failed accepts do not end the accepting.  *)
Admitted ==
  Cardinality(Client \ Talkers) < Cardinality(Fd) =>
    \A c \in Talkers : c \in backlog ~> co[c] = "done" \/ proc # "up"

================================================================================
