------------------------------ MODULE EchoCoroutine ----------------------------
(***************************************************************************)
(* demo/io_uring_coroutine_echo_server.cpp: the echo server of EchoServer  *)
(* rewritten with a coroutine per connection.  The ring, the loop around   *)
(* it and the branches without a connection are the same program text and  *)
(* are taken over; what the callbacks did, handle_echo does between its    *)
(* suspensions, with the connection's state in its promise.                *)
(***************************************************************************)
EXTENDS EchoServer

VARIABLES
  connections,  \* the map: the coroutine registered under each descriptor
  co,           \* where the coroutine of each connection is suspended
  info,         \* its promise's conn_info: descriptor and buffer
  res           \* its promise's res: the result of its last read

coVars == <<connections, co, info, res>>
allVars == <<vars, coVars>>

(* An unwritten field of the promise is None.                              *)
Blank == [fd |-> None, bid |-> None]

CoroutineTypeOK ==
  /\ TypeOK
  /\ connections \in [Fd -> Client \union {None}]
  /\ co \in [Client -> {"none", "read", "write", "done"}]
  /\ info \in [Client -> [fd : Fd \union {None}, bid : Bid \union {None}]]
  /\ res \in [Client -> {"none", "ok", "err"}]

--------------------------------------------------------------------------------
(* The SQE of each awaitable's await_suspend, with the promise p it copies *)
(* into the user_data: that of a read still names the last buffer.         *)
echo_read(c, p) == Sqe("READ", p.fd, p.bid, c)
echo_write(c, p) == Sqe("WRITE", p.fd, p.bid, c)
(* Bug variant: the promise is read after its frame was freed.             *)
AfterFree_echo_add_buffer(c, p) == Sqe("PROV_BUF", Blank.fd, Blank.bid, c)
echo_add_buffer(c, p) == Sqe("PROV_BUF", p.fd, p.bid, c)

CoInit ==
  /\ Init
  /\ connections = [f \in Fd |-> None]
  /\ co = [c \in Client |-> "none"]
  /\ info = [c \in Client |-> Blank]
  /\ res = [c \in Client |-> "none"]

Ends(reason) == Exit(reason) /\ UNCHANGED coVars

(* The CQE at hand is done with, the SQEs s are filled in, and the         *)
(* coroutine of c is suspended again with promise p, or has ended.          *)
Resumed(c, q, stage, p, s) ==
  /\ cq' = cq \ {q}
  /\ sq' = sq \o s
  /\ co' = [co EXCEPT ![c] = stage]
  /\ info' = [info EXCEPT ![c] = p]
  /\ UNCHANGED <<inflight, group, open, backlog, proc, loop, dataVars>>

(* A connection that was reset receives no message any more, and what it   *)
(* is sent fails.                                                          *)
Broken(c) == res[c] = "err"

SendFails(c) ==
  /\ proc = "up" /\ Broken(c)
  /\ \E op \in inflight :
       op.type = "WRITE" /\ op.conn = c /\ Complete(op, "err", None)
  /\ UNCHANGED <<sq, group, open, backlog, echoVars, dataVars>>

(* What does not concern a coroutine.                                      *)
Unresumed ==
  /\ \/ Enter \/ Return \/ KernelConsumes
     \/ AcceptFailed \/ OutOfBuffers \/ HandleProvBuf
     \/ \E c \in Client : \/ Accepted(c) \/ ReceiveFailed(c) \/ SendFails(c)
                          \/ ~Broken(c) /\ (Received(c) \/ Sent(c))
  /\ UNCHANGED coVars

--------------------------------------------------------------------------------
(* emplace, the first run up to echo_read, and the next accept.            *)
CoAccept ==
  \E q \in cq, c \in Client :
    /\ Reaping(q, "ACCEPT") /\ q.res = "ok" /\ open[q.out] = c
    /\ IF connections[q.out] # None THEN Ends("derailed")
       ELSE IF ~Room(2) THEN Ends("nosqe")
       ELSE LET p == [fd |-> q.out, bid |-> None] IN
            /\ Resumed(c, q, "read", p, <<echo_read(c, p), add_accept>>)
            /\ connections' = [connections EXCEPT ![q.out] = c]
            /\ UNCHANGED <<shut, res>>

CoAcceptFailed ==
  \E q \in cq :
    /\ Reaping(q, "ACCEPT") /\ q.res = "err"
    /\ Answer(q, <<add_accept>>) /\ UNCHANGED coVars

Suspended(op, stage) ==
  LET c == connections[op.fd] IN c # None /\ c = op.conn /\ co[c] = stage

(* The event loop stores the buffer that was selected in the promise.      *)
selected(c, q) == [info[c] EXCEPT !.bid = q.out]

(* size_r is unsigned: only the end of the stream is <= 0.                 *)
StreamEnded(result) == result = "eof"

(* After the end of the stream echo_add_buffer resumes the coroutine from  *)
(* within await_suspend; it shuts the connection down, erases itself from  *)
(* the map and ends, and its frame with it.  After anything else it writes. *)
(* Bug variants: the buffer is not given back at the end of the stream;    *)
(* the coroutine goes on to its next read.                                 *)
Forgets_AtEnd(c, p) == <<>>
GoesOn_AtEnd(c, p) == <<echo_add_buffer(c, p), echo_read(c, p)>>
AtEnd(c, p) == <<echo_add_buffer(c, p)>>

CoRead(c) ==
  \E q \in cq :
    /\ Reaping(q, "READ") /\ q.op.conn = c
    /\ IF ~Suspended(q.op, "read") THEN Ends("derailed")
       ELSE IF ~Room(1) THEN Ends("nosqe")
       ELSE LET p == selected(c, q) IN
            /\ IF StreamEnded(q.res)
               THEN /\ Resumed(c, q, "done", Blank, AtEnd(c, p))
                    /\ res' = [res EXCEPT ![c] = "none"]
                    /\ shut' = shut \union {p.fd}
                    /\ connections' = [connections EXCEPT ![p.fd] = None]
               ELSE /\ Resumed(c, q, "write", p, <<echo_write(c, p)>>)
                    /\ res' = [res EXCEPT ![c] = q.res]
                    /\ UNCHANGED <<shut, connections>>

(* echo_add_buffer, resumed from within, and the loop's next echo_read.    *)
(* Bug variant: await_suspend does not resume.                             *)
NotResumed_AfterEcho(c, p) == <<echo_add_buffer(c, p)>>
AfterEcho(c, p) == <<echo_add_buffer(c, p), echo_read(c, p)>>

CoWrite(c) ==
  \E q \in cq :
    /\ Reaping(q, "WRITE") /\ q.op.conn = c
    /\ IF ~Suspended(q.op, "write") THEN Ends("derailed")
       ELSE IF ~Room(2) THEN Ends("nosqe")
       ELSE /\ Resumed(c, q, "read", info[c], AfterEcho(c, info[c]))
            /\ UNCHANGED <<shut, connections, res>>

CoNext ==
  \/ Unresumed
  \/ CoAccept
  \/ CoAcceptFailed
  \/ \E c \in Client : CoRead(c) \/ CoWrite(c)

CoSpec == CoInit /\ [][CoNext]_allVars

--------------------------------------------------------------------------------
(* A completion finds, under its descriptor, the coroutine that asked for  *)
(* it, suspended where it waits for that kind of result; a coroutine that  *)
(* has ended has none outstanding, so its frame is never resumed           *)
(* (io_uring_coroutine_echo_server.cpp:258-266, at of the map).            *)
FramesAlive ==
  /\ proc # "derailed"
  /\ \A e \in Operations :
       /\ e.type = "READ" => Suspended(e, "read")
       /\ e.type = "WRITE" => Suspended(e, "write") /\ info[e.conn].bid = e.bid

(* The ring as the callback server would have it: without the user_data    *)
(* fields that nobody reads.                                               *)
Plain(e) ==
  CASE e.type = "READ" -> [e EXCEPT !.bid = None]
    [] e.type = "PROV_BUF" -> [e EXCEPT !.fd = None]
    [] OTHER -> e

PlainCqe(q) == [q EXCEPT !.op = Plain(q.op)]

PlainSq == [i \in DOMAIN sq |-> Plain(sq[i])]
PlainInflight == {Plain(e) : e \in inflight}
PlainCq == {PlainCqe(q) : q \in cq}

Callbacks ==
  INSTANCE EchoServer WITH sq <- PlainSq, inflight <- PlainInflight, cq <- PlainCq

(* A connection gets over a failed read.                                   *)
GetsOverError(c) == (CoRead(c) \/ SendFails(c) \/ CoWrite(c)) /\ res'[c] = "err"

(* The rewriting changes nothing: up to the user_data fields that nobody   *)
(* reads, every step of the coroutine server is a step of the callback     *)
(* server, with the same SQEs in the same order, except while a connection *)
(* gets over a failed read, which the callbacks end and the coroutine      *)
(* answers (its size_r is not <= 0).                                       *)
SameAsCallbacks ==
  /\ Callbacks!Init
  /\ [][Callbacks!Next \/ \E c \in Client : GetsOverError(c)]_(Callbacks!vars)

================================================================================
