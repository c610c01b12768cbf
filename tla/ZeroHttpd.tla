-------------------------------- MODULE ZeroHttpd ------------------------------
(***************************************************************************)
(* demo/uring_server.c: ZeroHTTPd over liburing, without coroutines or     *)
(* provided buffers.  What an operation needs to know is a request block   *)
(* on the heap, whose address is its user_data and whose iovecs point to   *)
(* further blocks; the handler of a completion frees what the operation    *)
(* was given.                                                              *)
(*                                                                         *)
(* Every SQE is submitted at once and one CQE is handled at a time, so the *)
(* rings never fill; operations in flight and completions are sets, as in  *)
(* IoUring.                                                                *)
(***************************************************************************)
EXTENDS Naturals, FiniteSets, Sequences, SequencesExt

CONSTANTS
  Client,   \* connections clients make; each of them is made once
  Fd,       \* descriptors the process can still give to accepted sockets
  BLOCKS,   \* bound: blocks of the heap
  IOVS,     \* iovecs of a "200 OK" answer: 6
  Faults,   \* what the environment does: "accept", "reset", "hangup"
  None

Block == 1 .. BLOCKS

ASSUME ZeroAssumption ==
  /\ BLOCKS \in Nat /\ IOVS \in 1 .. BLOCKS
  /\ None \notin Client \union Fd
  /\ Faults \subseteq {"accept", "reset", "hangup"}

VARIABLES
  proc,      \* "up", or "exit", or "crash": NULL was dereferenced
  inflight,  \* operations: the user_data (a block), and the socket
  cq,        \* completions: the user_data and the result
  open,      \* descriptor table
  backlog,   \* connections not yet accepted
  live,      \* blocks that are allocated
  req,       \* what each block holds as a request
  text,      \* what each block holds as text: whose it is, and what kind
  request,   \* what each client has asked for and waits for
  sent,      \* whether each client has got an answer, and to what
  lost       \* sockets whose empty read was dropped, with what was not freed

kernelVars == <<inflight, cq, open, backlog>>
heapVars == <<live, req, text>>
clientVars == <<request, sent>>
vars == <<proc, kernelVars, heapVars, clientVars, lost>>

(* Kinds of requests: for a file of a listed type, for one of another type *)
(* or that shrinks before it is read ("odd"), for none; with another       *)
(* method; without a path; without a line end.                             *)
Requests == {"file", "odd", "missing", "other", "pathless", "malformed"}
Replies == {"200", "garbled", "404", "unimplemented"}

(* What a block is before it is written.                                   *)
Blank == [type |-> "none", sock |-> None, iov |-> <<>>]
NoText == [of |-> None, kind |-> "none"]

TypeOK ==
  /\ proc \in {"up", "exit", "crash"}
  /\ inflight \subseteq
       [data : Block, opcode : {"accept", "readv", "writev"}, sock : Fd \union {None}]
  /\ cq \subseteq
       [data : Block, res : {"ok", "empty", "err"}, sock : Fd \union {None}]
  /\ open \in [Fd -> Client \union {None}] /\ backlog \subseteq Client
  /\ live \subseteq Block
  /\ req \in [Block -> [type : {"none", "ACCEPT", "READ", "WRITE"},
                        sock : Fd \union {None}, iov : BoundedSeq(Block, IOVS)]]
  /\ text \in [Block -> [of : Client \union {None},
                         kind : Requests \union Replies \union {"none"}]]
  /\ request \in [Client -> Requests \union {"none"}]
  /\ sent \in [Client -> {"none", "own", "foreign"}]
  /\ lost \subseteq Fd
  /\ \A op \in inflight :   \* the event type says what the operation is
       <<req[op.data].type, op.opcode>> \in
         {<<"ACCEPT", "accept">>, <<"READ", "readv">>, <<"WRITE", "writev">>}

--------------------------------------------------------------------------------
(* malloc gives out the lowest free blocks: it reuses what was freed as    *)
(* early as it can, which is when a stale pointer does harm.               *)
Unused == Block \ live
Fresh(n) ==
  [i \in 1 .. n |-> CHOOSE b \in Unused : Cardinality({a \in Unused : a < b}) = i - 1]
CanAllocate(n) == Cardinality(Unused) >= n

Owned(b) == {b} \union ToSet(req[b].iov)

(* What free leaves in a block is nobody's text and no list of blocks; the *)
(* rest of a request stays, until it is written again.                     *)
FreedReq(r) == [r EXCEPT !.iov = <<>>]
Free(bs, newReq, newText) ==
  /\ req' = [b \in Block |-> IF b \in bs THEN FreedReq(newReq[b]) ELSE newReq[b]]
  /\ text' = [b \in Block |-> IF b \in bs THEN NoText ELSE newText[b]]

(* The SQE of a request block, and what the add_ functions put into the    *)
(* block.  An accept request has no socket.                                *)
Op(b, opcode, sock) == [data |-> b, opcode |-> opcode, sock |-> sock]
Accept(b) == [type |-> "ACCEPT", sock |-> None, iov |-> <<>>]
Read(b, sock, buf) == [type |-> "READ", sock |-> sock, iov |-> <<buf>>]

(* A write request is a new block with new iovecs; old is the block of the *)
(* request it answers.                                                     *)
(* Bug variants: client_socket is not set, and is what the block held      *)
(* before; the answer is written over the request's buffer, which the      *)
(* caller frees; the event type is not set, and is what the block held.    *)
Unset_Write(b, old, iov) == [type |-> "WRITE", sock |-> req[b].sock, iov |-> iov]
Shared_Write(b, old, iov) ==
  [type |-> "WRITE", sock |-> req[old].sock, iov |-> req[old].iov]
Untyped_Write(b, old, iov) == [type |-> req[b].type, sock |-> req[old].sock, iov |-> iov]
Write(b, old, iov) == [type |-> "WRITE", sock |-> req[old].sock, iov |-> iov]

Stop(how) == proc' = how /\ UNCHANGED <<kernelVars, heapVars, clientVars, lost>>

(* server_loop submits the first accept.                                   *)
Init ==
  /\ proc = "up"
  /\ inflight = {Op(1, "accept", None)} /\ cq = {}
  /\ open = [f \in Fd |-> None] /\ backlog = Client
  /\ live = {1}
  /\ req = [b \in Block |-> IF b = 1 THEN Accept(1) ELSE Blank]
  /\ text = [b \in Block |-> NoText]
  /\ request = [c \in Client |-> "none"]
  /\ sent = [c \in Client |-> "none"]
  /\ lost = {}

--------------------------------------------------------------------------------
(* The kernel.  Of a request block it only reads the iovecs the SQE points *)
(* to.                                                                     *)
Completed(op, res, sock) ==
  /\ inflight' = inflight \ {op}
  /\ cq' = cq \union {[data |-> op.data, res |-> res, sock |-> sock]}

Accepted(c) ==
  \E op \in inflight, f \in Fd :
    /\ proc = "up" /\ op.opcode = "accept" /\ c \in backlog /\ open[f] = None
    /\ Completed(op, "ok", f)
    /\ open' = [open EXCEPT ![f] = c] /\ backlog' = backlog \ {c}
    /\ UNCHANGED <<proc, heapVars, clientVars, lost>>

AcceptFails ==
  \E op \in inflight :
    /\ proc = "up" /\ op.opcode = "accept"
    /\ "accept" \in Faults \/ \A f \in Fd : open[f] # None
    /\ Completed(op, "err", None)
    /\ UNCHANGED <<proc, open, backlog, heapVars, clientVars, lost>>

(* readv into the first iovec.                                             *)
Received(c) ==
  \E op \in inflight, kind \in Requests :
    /\ proc = "up" /\ op.opcode = "readv" /\ open[op.sock] = c
    /\ Completed(op, "ok", op.sock)
    /\ text' = [text EXCEPT ![req[op.data].iov[1]] = [of |-> c, kind |-> kind]]
    /\ request' = [request EXCEPT ![c] = kind]
    /\ UNCHANGED <<proc, open, backlog, live, req, sent, lost>>

(* The peer hangs up, or a transfer fails.                                 *)
TransferFails(c) ==
  \E op \in inflight :
    /\ proc = "up" /\ op.sock # None /\ open[op.sock] = c
    /\ \/ "hangup" \in Faults /\ op.opcode = "readv" /\ Completed(op, "empty", op.sock)
       \/ "reset" \in Faults /\ Completed(op, "err", op.sock)
    /\ UNCHANGED <<proc, open, backlog, heapVars, clientVars, lost>>

(* What the answer may be.  For a file of a type that is not listed,       *)
(* send_buffer is read before it is written: the header line is what the   *)
(* stack holds, which may be nothing.  Of a file that is shorter when it is*)
(* read than it was for stat, the end is what the new block held.  The     *)
(* other kinds end the process.                                            *)
replies(kind) ==
  CASE kind = "file" -> {"200"}
    [] kind = "odd" -> {"200", "garbled"}
    [] kind = "missing" -> {"404"}
    [] kind = "other" -> {"unimplemented"}
    [] OTHER -> {}

(* writev from every iovec, to whoever has the socket.  Is it, all of it,  *)
(* the answer to this client's own request?                                *)
Written(c) ==
  \E op \in inflight :
    /\ proc = "up" /\ op.opcode = "writev" /\ op.sock # None /\ open[op.sock] = c
    /\ Completed(op, "ok", op.sock)
    /\ LET told == {text[b] : b \in ToSet(req[op.data].iov)}
           own == \E r \in replies(request[c]) : told = {[of |-> c, kind |-> r]}
       IN  sent' = [sent EXCEPT ![c] = IF own THEN "own" ELSE "foreign"]
    /\ request' = [request EXCEPT ![c] = "none"]
    /\ UNCHANGED <<proc, open, backlog, heapVars, lost>>

--------------------------------------------------------------------------------
(* server_loop, for the CQE q.  Any failed operation ends the process.     *)
Seen(q) == q \in cq /\ proc = "up" /\ cq' = cq \ {q}
Completes(q, type) == q.res = "ok" /\ req[q.data].type = type

AsyncRequestFailed(q) == proc = "up" /\ q.res = "err" /\ Stop("exit")

(* The next accept and the first read are submitted, then the accept's     *)
(* block is freed.                                                         *)
(* Bug variant: the read is forgotten.                                     *)
NoRead_submitted(a, r, f) == {Op(a, "accept", None)}
submitted(a, r, f) == {Op(a, "accept", None), Op(r, "readv", f)}

HandleAccept(q) ==
  /\ Completes(q, "ACCEPT") /\ CanAllocate(3)
  /\ Seen(q)
  /\ LET s == Fresh(3) IN
       /\ inflight' = inflight \union submitted(s[1], s[2], q.sock)
       /\ live' = (live \union ToSet(s)) \ {q.data}
       /\ Free({q.data},
               [req EXCEPT ![s[1]] = Accept(s[1]), ![s[2]] = Read(s[2], q.sock, s[3])],
               [text EXCEPT ![s[3]] = NoText])
  /\ UNCHANGED <<proc, open, backlog, clientVars, lost>>

(* "Empty request!": the loop goes on; nothing is freed or closed.         *)
HandleEmptyRead(q) ==
  /\ q.res = "empty"
  /\ Seen(q)
  /\ lost' = lost \union {q.sock}
  /\ UNCHANGED <<proc, inflight, open, backlog, heapVars, clientVars>>

(* get_line finds no line end in the first 1024 bytes, or copy_file_contents *)
(* cannot open what stat has found: the process exits.  strtok_r finds no  *)
(* path: a null pointer is dereferenced.                                   *)
HandleBadRead(q) ==
  /\ proc = "up" /\ Completes(q, "READ")
  /\ LET kind == text[req[q.data].iov[1]].kind IN
       \/ kind \in {"malformed", "file", "odd"} /\ Stop("exit")
       \/ kind = "pathless" /\ Stop("crash")

iovec_count(kind) == IF kind \in {"file", "odd"} THEN IOVS ELSE 1

(* The answer is built from new blocks and submitted, then the request's   *)
(* buffer and block are freed.                                             *)
HandleRead(q) ==
  /\ Completes(q, "READ")
  /\ LET line == text[req[q.data].iov[1]]
         s == Fresh(1 + iovec_count(line.kind))
         w == Write(s[1], q.data, Tail(s))
     IN  /\ CanAllocate(Len(s))
         /\ Seen(q)
         /\ inflight' = inflight \union {Op(s[1], "writev", w.sock)}
         /\ live' = (live \union ToSet(s)) \ Owned(q.data)
         /\ \E r \in replies(line.kind) :
              Free(Owned(q.data), [req EXCEPT ![s[1]] = w],
                   [b \in Block |->
                     IF b \in ToSet(w.iov) THEN [of |-> line.of, kind |-> r] ELSE text[b]])
  /\ UNCHANGED <<proc, open, backlog, clientVars, lost>>

(* The iovecs are freed, the socket is closed, the block is freed.  How    *)
(* much was written is not looked at: a short write is the same step.      *)
(* Bug variant: the iovecs are not freed.                                  *)
Shallow_freed(b) == {b}
freed(b) == Owned(b)

HandleWrite(q) ==
  /\ Completes(q, "WRITE")
  /\ Seen(q)
  /\ open' = [open EXCEPT ![req[q.data].sock] = None]
  /\ live' = live \ freed(q.data)
  /\ Free(freed(q.data), req, text)
  /\ UNCHANGED <<proc, inflight, backlog, clientVars, lost>>

Handle(q) ==
  \/ AsyncRequestFailed(q) \/ HandleAccept(q) \/ HandleEmptyRead(q)
  \/ HandleBadRead(q) \/ HandleRead(q) \/ HandleWrite(q)

Next ==
  \/ \E q \in cq : Handle(q)
  \/ AcceptFails
  \/ \E c \in Client :
       Accepted(c) \/ Received(c) \/ TransferFails(c) \/ Written(c)

(* The loop handles every completion: the CQ ring is first in, first out.  *)
(* Connections are accepted and transfers end; a client sends a request or *)
(* hangs up sooner or later.                                               *)
Fairness ==
  /\ \A b \in Block : WF_vars(\E q \in cq : q.data = b /\ Handle(q))
  /\ \A c \in Client : /\ WF_vars(Accepted(c))
                       /\ WF_vars(Received(c) \/ TransferFails(c) \/ Written(c))

Spec == Init /\ [][Next]_vars
FairSpec == Spec /\ Fairness

--------------------------------------------------------------------------------
(* The blocks an outstanding operation will be given back with, and uses.  *)
Outstanding == inflight \union cq
InUse == {op.data : op \in Outstanding}

(* The kernel and the handlers only use blocks that are allocated, and no  *)
(* block is used by two operations: none is freed early, and none twice    *)
(* (uring_server.c:408,416-417,420-424).                                   *)
NothingDangles ==
  /\ \A op \in Outstanding : Owned(op.data) \subseteq live
  /\ \A op, other \in Outstanding :
       op # other => Owned(op.data) \intersect Owned(other.data) = {}

(* Every allocated block will be freed by the completion of the operation  *)
(* that uses it, except the two of each empty read, which are lost with    *)
(* its socket (uring_server.c:411-414).                                    *)
NothingElseLeaks ==
  Cardinality(live) =
    Cardinality(UNION {Owned(b) : b \in InUse}) + 2 * Cardinality(lost)

(* A socket stays open exactly as long as something is outstanding on it,  *)
(* except after an empty read; it is never closed under an operation       *)
(* (uring_server.c:423), so an answer cannot reach the descriptor's next   *)
(* owner.                                                                  *)
SocketsAccounted ==
  \A f \in Fd :
    open[f] # None <=> f \in lost \/ \E op \in Outstanding : op.sock = f

(* A client gets the answer to its own request, from blocks that others    *)
(* used before (uring_server.c:301-341); only the answer for a file of an  *)
(* unlisted type (:278), or for one that shrinks while it is served (:209),*)
(* may be garbled, by the code itself.                                     *)
OwnAnswer == \A c \in Client : sent[c] # "foreign"

(* Every connection that was accepted is answered, or its client hangs up, *)
(* or the process ends (uring_server.c:393-429).                           *)
Answered ==
  \A c \in Client :
    c \notin backlog ~>
      sent[c] # "none" \/ proc # "up" \/ \E f \in lost : open[f] = c

================================================================================
