-------------------------- MODULE EchoCoroutineProofs ---------------------------
(***************************************************************************)
(* Proofs about EchoCoroutine, for any numbers of clients, descriptors,    *)
(* buffers, SQEs and messages and any set of faults.  What EchoServer's    *)
(* proofs say of the steps the two programs share is cited from there.     *)
(***************************************************************************)
EXTENDS EchoCoroutineInv, EchoServerProofs

--------------------------------------------------------------------------------
LEMMA SomeIs ==
  ASSUME NEW E
  PROVE  Some(E) <=> \E e \in Operations : e \in E
BY DEF Some, Operations

LEMMA OperationTypes ==
  ASSUME LendInv
  PROVE  \A e \in Operations : e \in SqeType /\ Shaped(e)
BY DEF LendInv, TypeOK, RingTypeOK, CqeType, ShapeInv, Operations

(* The only transfer of a connection.                                      *)
LEMMA OneTransfer ==
  ASSUME LendInv, NEW c \in Client, NEW d \in Operations, NEW e \in Operations,
         d \in Wakeups(c), e \in Wakeups(c)
  PROVE  d = e
<1>1. AtMostOne(Wakeups(c))
  BY DEF LendInv, WakeupInv
<1>. QED BY <1>1 DEF AtMostOne, Operations

--------------------------------------------------------------------------------
(* The steps of the kernel.  None of them adds or drops an operation.      *)
KernelStep ==
  \/ KernelConsumes
  \/ AcceptFailed
  \/ \E c \in Client : Accepted(c) \/ Received(c) \/ ReceiveFailed(c) \/ Sent(c) \/ SendFails(c)

Completing(op, r) ==
  /\ op \in inflight /\ r.op = op /\ sq' = sq
  /\ inflight' = inflight \ {op} /\ cq' = cq \union {r}

LEMMA CompletionOperations ==
  ASSUME NEW op, NEW r, Completing(op, r)
  PROVE  Operations' = Operations
BY DEF Completing, Operations

LEMMA CompleteIs ==
  ASSUME LendInv, NEW op, NEW res1, NEW out, Complete(op, res1, out), sq' = sq
  PROVE  \E r : Completing(op, r) /\ r.res = res1 /\ r.out = out
<1>1. PICK r : cq' = cq \union {r} /\ r.op = op /\ r.res = res1 /\ r.out = out
  BY Posted DEF Complete
<1>. QED BY <1>1 DEF Complete, Completing

LEMMA KernelEffect ==
  ASSUME LendInv, KernelStep
  PROVE  /\ Operations' = Operations /\ UNCHANGED <<proc, loop, shut>>
         /\ \A f \in Fd : open[f] # None => open'[f] = open[f]
         /\ \A c \in Client : Fresh(c)' => Fresh(c)
         /\ \A q \in cq' : q.op.type = "READ" => q \in cq \/ q.res # "short"
<1>. DEFINE Goal == /\ Operations' = Operations /\ UNCHANGED <<proc, loop, shut>>
                    /\ \A f \in Fd : open[f] # None => open'[f] = open[f]
                    /\ \A c \in Client : Fresh(c)' => Fresh(c)
                    /\ \A q \in cq' : q.op.type = "READ" => q \in cq \/ q.res # "short"
<1>. RingTypeOK
  BY DEF LendInv, TypeOK
<1>1. CASE KernelConsumes
  <2>1. /\ sq # <<>> /\ sq' = Tail(sq) /\ UNCHANGED <<open, backlog, proc, loop, shut>>
    BY <1>1 DEF KernelConsumes, ConsumeProvide, ConsumeProvideFails, ConsumeRequest, echoVars
  <2>t. /\ Head(sq) = sq[1] /\ 1 \in DOMAIN sq /\ Len(sq) \in Nat \ {0} /\ DOMAIN sq = 1 .. Len(sq)
        /\ DOMAIN Tail(sq) = 1 .. (Len(sq) - 1)
        /\ \A i \in DOMAIN Tail(sq) : i + 1 \in DOMAIN sq /\ Tail(sq)[i] = sq[i + 1]
        /\ \A j \in DOMAIN sq : j = 1 \/ (j - 1 \in DOMAIN Tail(sq) /\ Tail(sq)[j - 1] = sq[j])
    BY <2>1, TailFacts
  <2>2. {sq[i] : i \in DOMAIN sq} = {sq'[i] : i \in DOMAIN sq'} \union {Head(sq)}
    <3>1. \A i \in DOMAIN sq' : sq'[i] \in {sq[j] : j \in DOMAIN sq}
      BY <2>1, <2>t
    <3>2. \A j \in DOMAIN sq : sq[j] \in {sq'[i] : i \in DOMAIN sq'} \union {Head(sq)}
      BY <2>1, <2>t
    <3>. QED BY <2>t, <3>1, <3>2
  <2>3. CASE ConsumeProvide \/ ConsumeProvideFails
    <3>1. /\ inflight' = inflight /\ Head(sq).type = "PROV_BUF"
          /\ Post(Head(sq), "ok", None) \/ Post(Head(sq), "err", None)
      BY <2>3 DEF ConsumeProvide, ConsumeProvideFails
    <3>2. PICK r : cq' = cq \union {r} /\ r.op = Head(sq)
      BY <3>1, Posted
    <3>3. {q.op : q \in cq'} = {q.op : q \in cq} \union {Head(sq)}
      BY <3>2
    <3>4. Operations' = Operations
      BY <2>2, <3>1, <3>3 DEF Operations
    <3>5. \A c \in Client : Fresh(c)' => Fresh(c)
      BY <2>1, <3>1, <3>2 DEF Fresh
    <3>6. \A q \in cq' : q.op.type = "READ" => q \in cq
      BY <3>1, <3>2
    <3>. QED BY <2>1, <3>4, <3>5, <3>6
  <2>4. CASE ConsumeRequest
    <3>1. inflight' = inflight \union {Head(sq)} /\ cq' = cq
      BY <2>4 DEF ConsumeRequest
    <3>2. Operations' = Operations
      BY <2>2, <3>1 DEF Operations
    <3>. QED BY <2>1, <3>1, <3>2 DEF Fresh
  <2>. QED BY <1>1, <2>3, <2>4 DEF KernelConsumes
<1>2. CASE AcceptFailed
  <2>1. PICK op : /\ op.type = "ACCEPT" /\ Complete(op, "err", None)
                  /\ UNCHANGED <<sq, open, backlog, proc, loop, shut>>
    BY <1>2 DEF AcceptFailed, FailAccept, echoVars
  <2>2. PICK r : Completing(op, r) /\ r.res = "err"
    BY <2>1, CompleteIs
  <2>. QED BY <2>1, <2>2, CompletionOperations DEF Completing, Fresh
<1>3. ASSUME NEW c \in Client, Accepted(c) PROVE Goal
  <2>1. PICK f \in Fd, op \in inflight :
          /\ op.type = "ACCEPT" /\ c \in backlog /\ open[f] = None
          /\ Complete(op, "ok", f)
          /\ open' = [open EXCEPT ![f] = c] /\ backlog' = backlog \ {c}
          /\ UNCHANGED <<sq, proc, loop, shut>>
    BY <1>3 DEF Accepted, CompleteAccept, echoVars
  <2>2. PICK r : Completing(op, r) /\ r.res = "ok" /\ r.out = f
    BY <2>1, CompleteIs
  <2>3. None \notin Client /\ open \in [Fd -> Client \union {None}]
    BY RingAssumption DEF RingTypeOK
  <2>4. open'[f] = c /\ \A g \in Fd \ {f} : open'[g] = open[g]
    BY <2>1, <2>3
  <2>5. ASSUME NEW d \in Client, Fresh(d)' PROVE Fresh(d)
    <3>1. CASE d = c
      BY <2>1, <3>1 DEF Fresh
    <3>2. CASE d # c
      <4>1. \A q \in cq : q.op.type = "ACCEPT" /\ q.res = "ok" =>
              q.out \in Fd /\ open[q.out] \in Client
        BY DEF LendInv, ShapeInv
      <4>. QED BY <2>1, <2>2, <2>3, <2>4, <2>5, <3>2, <4>1 DEF Fresh, Completing
    <3>. QED BY <3>1, <3>2
  <2>. QED BY <2>1, <2>2, <2>4, <2>5, CompletionOperations DEF Completing
<1>4. ASSUME NEW c \in Client, Received(c) \/ ReceiveFailed(c) \/ Sent(c) \/ SendFails(c) PROVE Goal
  <2>1. PICK op, res1, out : /\ op.type \in {"READ", "WRITE"} /\ Complete(op, res1, out)
                             /\ op.type = "READ" => res1 # "short"
                             /\ UNCHANGED <<sq, open, backlog, proc, loop, shut>>
    <3>1. CASE Received(c)
      BY <3>1 DEF Received, CompleteRecv, echoVars
    <3>2. CASE ReceiveFailed(c)
      <4>1. "short" \notin RecvResults
        BY DEF RecvResults
      <4>. QED BY <3>2, <4>1 DEF ReceiveFailed, StarveRecv, CompleteRecv, echoVars
    <3>3. CASE Sent(c)
      BY <3>3 DEF Sent, CompleteSend, echoVars
    <3>4. CASE SendFails(c)
      BY <3>4 DEF SendFails, echoVars
    <3>. QED BY <1>4, <3>1, <3>2, <3>3, <3>4
  <2>2. PICK r : Completing(op, r) /\ r.res = res1
    BY <2>1, CompleteIs
  <2>. QED BY <2>1, <2>2, CompletionOperations DEF Completing, Fresh
<1>. QED BY <1>1, <1>2, <1>3, <1>4 DEF KernelStep

(* A step that resumes no coroutine leaves the frames as they are.         *)
LEMMA FramesStay ==
  ASSUME CoInv, UNCHANGED coVars, proc' # "derailed",
         \A e \in Operations' : e \in Operations \/ e.type = "ACCEPT",
         \A e \in Operations : e.type \in {"READ", "WRITE"} => e \in Operations',
         \A f \in Fd : open[f] # None => open'[f] = open[f],
         \A c \in Client : Fresh(c)' => Fresh(c),
         \A q \in cq' : q.op.type = "READ" => q \in cq \/ q.res # "short"
  PROVE  FrameInv'
<1>. USE DEF CoInv, FrameInv, coVars
<1>c. None \notin Client /\ \A e \in Operations : e \in SqeType /\ Shaped(e)
  BY RingAssumption, OperationTypes
<1>1. FramesAlive'
  BY DEF FramesAlive, Suspended
<1>2. ASSUME NEW c \in Client PROVE Some(Wakeups(c))' <=> Some(Wakeups(c))
  <2>1. Some(Wakeups(c))' <=> \E e \in Operations' : e \in Wakeups(c)
    BY DEF Some, Operations
  <2>2. Some(Wakeups(c)) <=> \E e \in Operations : e \in Wakeups(c)
    BY SomeIs
  <2>. QED BY <2>1, <2>2 DEF Wakeups, Transfers
<1>3. WaitingInv'
  BY <1>c, <1>2 DEF WaitingInv, Waiting
<1>4. MapInv'
  BY DEF MapInv, Waiting
<1>5. PayloadInv'
  <2>1. \A e \in Operations : e.type = "PROV_BUF" => e.conn \in Client
    BY <1>c DEF Shaped
  <2>. QED BY <1>c, <2>1 DEF PayloadInv
<1>. QED BY <1>1, <1>3, <1>4, <1>5

LEMMA KernelFrames ==
  ASSUME CoInv, KernelStep, UNCHANGED coVars
  PROVE  FrameInv'
<1>1. LendInv /\ proc # "derailed"
  BY DEF CoInv, FrameInv, FramesAlive
<1>. QED BY <1>1, KernelEffect, FramesStay

(* A send that fails leaves its buffer in the hands of its connection.     *)
LEMMA SendFailsStep ==
  ASSUME LendInv, NEW c \in Client, SendFails(c)
  PROVE  LendInv'
<1>. USE DEF LendInv
<1>0. PICK op \in inflight :
        /\ op.type = "WRITE" /\ Complete(op, "err", None)
        /\ UNCHANGED <<sq, group, open, backlog, echoVars, dataVars>>
  BY DEF SendFails
<1>. DEFINE s == [op |-> op, res |-> "err", out |-> None]
<1>s. s \in CqeType /\ s.op = op /\ s.out = None /\ cq' = cq \union {s}
  BY <1>0 DEF TypeOK, RingTypeOK, CqeType, Complete, Post, Cqe
<1>. HIDE DEF s
<1>r. PICK r : r \in CqeType /\ r.op = op /\ r.out = None /\ cq' = cq \union {r}
  BY <1>s
<1>1. /\ AcceptInv' /\ ProvideInv' /\ BufferInv'
      /\ \A d \in Client : /\ AtMostOne(Wakeups(d))'
                           /\ Some(Wakeups(d))' <=> Some(Wakeups(d))
  BY <1>0, <1>r, CompletionRing DEF Complete
<1>2. TypeOK'
  BY <1>0, <1>r DEF TypeOK, RingTypeOK, Complete, echoVars, dataVars
<1>3. ShapeInv' /\ DescriptorInv'
  BY <1>0, <1>r DEF ShapeInv, Shaped, DescriptorInv, Complete
<1>4. WakeupInv'
  <2>1. \A d : Fresh(d)' => Fresh(d)
    BY <1>0, <1>r DEF Fresh
  <2>. QED BY <1>0, <1>1, <2>1 DEF WakeupInv, dataVars
<1>. QED BY <1>1, <1>2, <1>3, <1>4

--------------------------------------------------------------------------------
(* The steps that resume a coroutine.                                      *)
LEMMA InitCoInv == CoInit => CoInv
<1>. SUFFICES ASSUME CoInit PROVE CoInv
  OBVIOUS
<1>. USE DEF CoInit
<1>1. LendInv
  BY InitCoreInv DEF CoreInv
<1>o. Operations = {add_accept} /\ cq = {} /\ proc = "up"
  BY DEF Init, Operations
<1>a. add_accept.type = "ACCEPT"
  BY DEF add_accept, Sqe
<1>2. CoroutineTypeOK
  BY <1>1 DEF CoroutineTypeOK, LendInv, Blank
<1>3. FramesAlive /\ PayloadInv
  BY <1>o, <1>a DEF FramesAlive, PayloadInv
<1>4. WaitingInv
  <2>1. \A c \in Client : ~Some(Wakeups(c))
    BY <1>o, <1>a, SomeIs DEF Wakeups, Transfers
  <2>. QED BY <2>1 DEF WaitingInv, Waiting
<1>5. MapInv
  BY DEF MapInv
<1>. QED BY <1>1, <1>2, <1>3, <1>4, <1>5 DEF CoInv, FrameInv

(* What a coroutine that waits knows of itself is what its operation says. *)
LEMMA Resumption ==
  ASSUME CoInv, NEW q \in cq, NEW c \in Client, q.op.conn = c, q.op.type \in {"READ", "WRITE"}
  PROVE  /\ connections[q.op.fd] = c /\ info[c].fd = q.op.fd
         /\ q.op.fd \in Fd /\ open[q.op.fd] = c
         /\ q.op.type = "READ" => Suspended(q.op, "read")
         /\ q.op.type = "WRITE" => /\ Suspended(q.op, "write")
                                   /\ info[c].bid = q.op.bid /\ q.op.bid \in Bid
<1>. USE DEF CoInv, FrameInv
<1>1. /\ q.op \in Wakeups(c) /\ q.op.fd \in Fd /\ open[q.op.fd] = c
      /\ q.op.type = "WRITE" => q.op.bid \in Bid
  BY TransferSeen
<1>2. Some(Wakeups(c)) /\ q.op \in Operations
  BY <1>1 DEF Some, Operations
<1>3. info[c].fd \in Fd /\ open[info[c].fd] = c /\ connections[info[c].fd] = c
  BY <1>2 DEF WaitingInv
<1>4. info[c].fd = q.op.fd
  BY <1>1, <1>3 DEF LendInv, DescriptorInv
<1>. QED BY <1>1, <1>2, <1>3, <1>4 DEF FramesAlive

LEMMA AnsweredOperations ==
  ASSUME LendInv, NEW q, NEW s, Answered(q, s)
  PROVE  /\ \A e \in Operations' : e \in Operations \/ \E j \in DOMAIN s : e = s[j]
         /\ \A e \in Operations : e \in Operations' \/ e = q.op
         /\ \A j \in DOMAIN s : s[j] \in Operations'
<1>1. /\ \A i \in DOMAIN sq : i \in DOMAIN sq' /\ sq'[i] = sq[i]
      /\ \A i \in DOMAIN sq' : i \in DOMAIN sq \/ \E j \in DOMAIN s : sq'[i] = s[j]
      /\ \A j \in DOMAIN s : \E i \in DOMAIN sq' : sq'[i] = s[j]
  BY AnswerFacts
<1>2. q \in cq /\ cq' = cq \ {q} /\ inflight' = inflight
  BY DEF Answered
<1>3. \A e \in Operations : e \in Operations' \/ e = q.op
  BY <1>1, <1>2 DEF Operations
<1>. QED BY <1>1, <1>2, <1>3 DEF Operations

(* The transfer of c that was seen is the only one there was.              *)
LEMMA OldIsGone ==
  ASSUME LendInv, NEW q, NEW s, Answered(q, s), NEW c \in Client,
         q.op \in Wakeups(c) \/ ~Some(Wakeups(c))
  PROVE  \A e \in Operations' : e \in Wakeups(c) => \E j \in DOMAIN s : e = s[j]
<1>1. q \in cq /\ cq' = cq \ {q} /\ inflight' = inflight /\ AtMostOne(Wakeups(c))
  BY DEF Answered, LendInv, WakeupInv
<1>2. /\ \A i \in DOMAIN sq : sq[i] \notin Wakeups(c)
      /\ \A e \in inflight : e \notin Wakeups(c)
      /\ \A p \in cq' : p.op \notin Wakeups(c)
  BY <1>1 DEF AtMostOne, Some
<1>3. \A i \in DOMAIN sq' : \/ i \in DOMAIN sq /\ sq'[i] = sq[i]
                            \/ \E j \in DOMAIN s : sq'[i] = s[j]
  BY AnswerFacts
<1>. QED BY <1>1, <1>2, <1>3 DEF Operations

(* The frame of c, and the entry of f in the map.                          *)
Moves(c, stage, p) ==
  co' = [co EXCEPT ![c] = stage] /\ info' = [info EXCEPT ![c] = p]

Registers(f, d) == connections' = [connections EXCEPT ![f] = d]

(* The coroutine of c, on descriptor f, is suspended again, with one       *)
(* transfer filled in, or has ended.                                       *)
LEMMA FramesResumed ==
  ASSUME CoInv, NEW q, NEW s, Answered(q, s), NEW c \in Client, NEW f \in Fd, open[f] = c,
         q.op \in Wakeups(c) \/ (~Some(Wakeups(c)) /\ q.op.type = "ACCEPT"),
         ~Fresh(c)', NEW stage \in {"read", "write", "done"}, NEW p,
         Moves(c, stage, p), Registers(f, IF stage = "done" THEN None ELSE c),
         \A j \in DOMAIN s :
           \/ s[j].type = "ACCEPT"
           \/ s[j].type = "PROV_BUF" /\ s[j].conn = c /\ s[j].fd = f
           \/ s[j].type = "READ" /\ s[j].conn = c /\ s[j].fd = f /\ stage = "read"
           \/ s[j].type = "WRITE" /\ s[j].conn = c /\ s[j].fd = f /\ stage = "write"
              /\ s[j].bid = p.bid,
         stage # "done" => p.fd = f /\ \E j \in DOMAIN s : s[j].type \in {"READ", "WRITE"}
  PROVE  FrameInv'
<1>. USE DEF CoInv, FrameInv
<1>t. /\ None \notin Client /\ None \notin Fd /\ open \in [Fd -> Client \union {None}]
      /\ connections \in [Fd -> Client \union {None}] /\ open' = open
      /\ co \in [Client -> {"none", "read", "write", "done"}]
      /\ info \in [Client -> [fd : Fd \union {None}, bid : Bid \union {None}]]
      /\ proc' = proc /\ q \in cq /\ cq' = cq \ {q}
  BY RingAssumption DEF CoroutineTypeOK, TypeOK, RingTypeOK, Answered
<1>s. \A j \in DOMAIN s : s[j] \in SqeType
  BY AnswerFacts
<1>o. /\ \A e \in Operations : e \in SqeType /\ Shaped(e)
      /\ \A e \in Operations' : e \in Operations \/ \E j \in DOMAIN s : e = s[j]
      /\ \A e \in Operations : e \in Operations' \/ e = q.op
      /\ \A j \in DOMAIN s : s[j] \in Operations'
      /\ \A e \in Operations' : e \in Wakeups(c) => \E j \in DOMAIN s : e = s[j]
  BY OperationTypes, AnsweredOperations, OldIsGone
<1>i. \A g \in Fd : open[g] = c => g = f
  BY DEF LendInv, DescriptorInv
<1>g. /\ co'[c] = stage /\ info'[c] = p
      /\ \A d \in Client \ {c} : co'[d] = co[d] /\ info'[d] = info[d]
      /\ connections'[f] = IF stage = "done" THEN None ELSE c
      /\ \A g \in Fd \ {f} : connections'[g] = connections[g]
  BY <1>t DEF Moves, Registers
<1>w. \A d \in Client, e \in Operations :
        e \in Wakeups(d) <=> e.type \in {"READ", "WRITE"} /\ e.conn = d
  BY <1>o DEF Wakeups, Transfers
<1>1. FramesAlive'
  <2>1. proc' # "derailed"
    BY <1>t DEF FramesAlive
  <2>2. ASSUME NEW e \in Operations', e.type \in {"READ", "WRITE"}
        PROVE  /\ e.type = "READ" => Suspended(e, "read")'
               /\ e.type = "WRITE" => Suspended(e, "write")' /\ info'[e.conn].bid = e.bid
    <3>1. CASE \E j \in DOMAIN s : e = s[j]
      BY <1>t, <1>g, <2>2, <3>1 DEF Suspended
    <3>2. CASE ~\E j \in DOMAIN s : e = s[j]
      <4>1. e \in Operations /\ Shaped(e) /\ e \notin Wakeups(c) /\ e \in SqeType
        BY <1>o, <3>2
      <4>2. e.conn \in Client \ {c} /\ e.fd \in Fd /\ open[e.fd] = e.conn
        BY <1>w, <2>2, <4>1 DEF Shaped
      <4>3. e.fd # f
        BY <4>2
      <4>. QED BY <1>g, <2>2, <4>1, <4>2, <4>3 DEF FramesAlive, Suspended
    <3>. QED BY <3>1, <3>2
  <2>. QED BY <2>1, <2>2 DEF FramesAlive
<1>2. WaitingInv'
  <2>. SUFFICES ASSUME NEW d \in Client
                PROVE  /\ Waiting(d)' <=> Some(Wakeups(d))'
                       /\ Waiting(d)' => /\ info'[d].fd \in Fd /\ open'[info'[d].fd] = d
                                         /\ connections'[info'[d].fd] = d
                       /\ Fresh(d)' => co'[d] = "none"
    BY DEF WaitingInv
  <2>0. Some(Wakeups(d))' <=> \E e \in Operations' : e \in Wakeups(d)
    BY DEF Some, Operations
  <2>1. CASE d = c
    <3>1. \A j \in DOMAIN s : s[j] \in Wakeups(c) <=> s[j].type \in {"READ", "WRITE"}
      BY <1>s DEF Wakeups, Transfers
    <3>2. Some(Wakeups(c))' <=> stage # "done"
      BY <1>o, <2>0, <2>1, <3>1
    <3>. QED BY <1>t, <1>g, <2>1, <3>2 DEF Waiting
  <2>2. CASE d # c
    <3>1. \A j \in DOMAIN s : s[j] \notin Wakeups(d)
      BY <2>2 DEF Wakeups, Transfers
    <3>2. q.op \notin Wakeups(d)
      BY <2>2 DEF Wakeups, Transfers
    <3>3. Some(Wakeups(d))' <=> Some(Wakeups(d))
      BY <1>o, <2>0, <3>1, <3>2, SomeIs
    <3>4. Fresh(d)' => Fresh(d)
      BY DEF Fresh, Answered
    <3>5. Waiting(d) => info[d].fd \in Fd /\ info[d].fd # f
      BY <2>2 DEF WaitingInv
    <3>. QED BY <1>t, <1>g, <2>2, <3>3, <3>4, <3>5 DEF WaitingInv, Waiting
  <2>. QED BY <2>1, <2>2
<1>3. MapInv'
  <2>1. ASSUME NEW g \in Fd, connections'[g] # None
        PROVE  open'[g] = connections'[g] /\ Waiting(connections[g])'
    <3>1. CASE g = f
      BY <1>t, <1>g, <2>1, <3>1 DEF Waiting
    <3>2. CASE g # f
      <4>1. open[g] = connections[g] /\ Waiting(connections[g]) /\ connections'[g] = connections[g]
        BY <1>g, <2>1, <3>2 DEF MapInv
      <4>2. connections[g] \in Client \ {c}
        BY <1>t, <1>i, <1>g, <2>1, <3>2, <4>1
      <4>. QED BY <1>t, <1>g, <4>1, <4>2 DEF Waiting
    <3>. QED BY <3>1, <3>2
  <2>. QED BY <2>1 DEF MapInv
<1>4. PayloadInv'
  BY <1>t, <1>o DEF PayloadInv
<1>. QED BY <1>1, <1>2, <1>3, <1>4

--------------------------------------------------------------------------------
(* The steps that resume a coroutine, and what each comes to: the CQE q    *)
(* that is seen, the SQEs s that are filled in, the descriptor f of the    *)
(* connection c, the buffer b.                                             *)
GivesUp(q, type, n) == Reaping(q, type) /\ ~Room(n) /\ Ends("nosqe")

Starts(q, c, f, s) ==
  /\ Reaping(q, "ACCEPT") /\ q.res = "ok" /\ q.out = f /\ open[f] = c
  /\ Room(2) /\ Answered(q, s) /\ UNCHANGED <<shut, res>>
  /\ s = <<Sqe("READ", f, None, c), add_accept>>
  /\ Moves(c, "read", [fd |-> f, bid |-> None]) /\ Registers(f, c)

Transfer(q, type, c, f) ==
  Reaping(q, type) /\ q.op.conn = c /\ q.op.fd = f /\ open[f] = c

Echoes(q, c, f, b, s) ==
  /\ Transfer(q, "READ", c, f) /\ q.out = b /\ q.res \in {"ok", "err"}
  /\ Room(1) /\ Answered(q, s) /\ UNCHANGED shut
  /\ s = <<Sqe("WRITE", f, b, c)>>
  /\ Moves(c, "write", [fd |-> f, bid |-> b]) /\ Registers(f, c)
  /\ res' = [res EXCEPT ![c] = q.res]

Finishes(q, c, f, b, s) ==
  /\ Transfer(q, "READ", c, f) /\ q.out = b /\ q.res = "eof"
  /\ Room(1) /\ Answered(q, s) /\ shut' = shut \union {f}
  /\ s = <<Sqe("PROV_BUF", f, b, c)>>
  /\ Moves(c, "done", Blank) /\ Registers(f, None)
  /\ res' = [res EXCEPT ![c] = "none"]

ReadsOn(q, c, f, b, s) ==
  /\ Transfer(q, "WRITE", c, f) /\ q.op.bid = b
  /\ Room(2) /\ Answered(q, s) /\ UNCHANGED <<shut, res>>
  /\ s = <<Sqe("PROV_BUF", f, b, c), Sqe("READ", f, b, c)>>
  /\ Moves(c, "read", [fd |-> f, bid |-> b]) /\ Registers(f, c)

LEMMA ResumedIs ==
  ASSUME LendInv, NEW c, NEW q \in cq, NEW stage, NEW p, NEW s \in Seq(SqeType),
         Resumed(c, q, stage, p, s), shut' \subseteq Fd
  PROVE  Answered(q, s) /\ Moves(c, stage, p)
BY DEF Resumed, Answered, Moves

(* The SQEs a coroutine fills in.                                          *)
LEMMA Filled ==
  ASSUME NEW c \in Client, NEW f \in Fd, NEW b \in Bid \union {None},
         NEW type \in {"READ", "WRITE", "PROV_BUF"}
  PROVE  /\ Sqe(type, f, b, c) \in SqeType /\ Sqe(type, f, b, c).type = type
         /\ Sqe(type, f, b, c).fd = f /\ Sqe(type, f, b, c).bid = b
         /\ Sqe(type, f, b, c).conn = c
         /\ add_accept \in SqeType /\ add_accept.type = "ACCEPT"
BY DEF Sqe, SqeType, add_accept

LEMMA CoAcceptIs ==
  ASSUME CoInv, CoAccept
  PROVE  \/ \E q \in cq : q.res = "ok" /\ GivesUp(q, "ACCEPT", 2)
         \/ \E q \in cq, c \in Client, f \in Fd, s \in Seq(SqeType) : Starts(q, c, f, s)
<1>. USE DEF CoInv, FrameInv
<1>0. PICK q \in cq, c \in Client :
        /\ Reaping(q, "ACCEPT") /\ q.res = "ok" /\ open[q.out] = c
        /\ IF connections[q.out] # None THEN Ends("derailed")
           ELSE IF ~Room(2) THEN Ends("nosqe")
           ELSE LET p == [fd |-> q.out, bid |-> None] IN
                /\ Resumed(c, q, "read", p, <<echo_read(c, p), add_accept>>)
                /\ connections' = [connections EXCEPT ![q.out] = c]
                /\ UNCHANGED <<shut, res>>
  BY DEF CoAccept
<1>f. PICK f \in Fd : f = q.out
  BY <1>0 DEF LendInv, ShapeInv, Reaping
<1>1. connections[f] = None
  BY <1>0, <1>f DEF Fresh, WaitingInv, MapInv, Waiting, Reaping
<1>2. CASE ~Room(2)
  BY <1>0, <1>f, <1>1, <1>2 DEF GivesUp
<1>3. CASE Room(2)
  <2>p. PICK p : p = [fd |-> f, bid |-> None] /\ echo_read(c, p) = Sqe("READ", f, None, c)
    <3>. DEFINE p0 == [fd |-> f, bid |-> None]
    <3>1. echo_read(c, p0) = Sqe("READ", f, None, c)
      BY DEF echo_read
    <3>. QED BY <3>1
  <2>s. PICK s \in Seq(SqeType) : s = <<Sqe("READ", f, None, c), add_accept>>
    <3>1. Sqe("READ", f, None, c) \in SqeType /\ add_accept \in SqeType
      BY Filled
    <3>2. <<Sqe("READ", f, None, c), add_accept>> \in Seq(SqeType)
      BY <3>1
    <3>. QED BY <3>2
  <2>1. /\ Resumed(c, q, "read", p, s) /\ Registers(f, c) /\ UNCHANGED <<shut, res>>
    BY <1>0, <1>f, <1>1, <1>3, <2>p, <2>s DEF Registers
  <2>2. shut' \subseteq Fd
    BY <2>1 DEF LendInv, TypeOK
  <2>3. Answered(q, s) /\ Moves(c, "read", p)
    BY <1>0, <2>1, <2>2, ResumedIs
  <2>. QED BY <1>0, <1>f, <1>3, <2>p, <2>s, <2>1, <2>3 DEF Starts
<1>. QED BY <1>2, <1>3

LEMMA CoReadIs ==
  ASSUME CoInv, NEW c \in Client, CoRead(c)
  PROVE  \/ \E q \in cq : q.op.conn = c /\ GivesUp(q, "READ", 1)
         \/ \E q \in cq, f \in Fd, b \in Bid, s \in Seq(SqeType) :
              Echoes(q, c, f, b, s) \/ Finishes(q, c, f, b, s)
<1>. USE DEF CoInv, FrameInv
<1>0. PICK q \in cq :
        /\ Reaping(q, "READ") /\ q.op.conn = c
        /\ IF ~Suspended(q.op, "read") THEN Ends("derailed")
           ELSE IF ~Room(1) THEN Ends("nosqe")
           ELSE LET p == selected(c, q) IN
                /\ IF StreamEnded(q.res)
                   THEN /\ Resumed(c, q, "done", Blank, AtEnd(c, p))
                        /\ res' = [res EXCEPT ![c] = "none"]
                        /\ shut' = shut \union {p.fd}
                        /\ connections' = [connections EXCEPT ![p.fd] = None]
                   ELSE /\ Resumed(c, q, "write", p, <<echo_write(c, p)>>)
                        /\ res' = [res EXCEPT ![c] = q.res]
                        /\ UNCHANGED <<shut, connections>>
  BY DEF CoRead
<1>f. PICK f \in Fd : /\ f = q.op.fd /\ open[f] = c /\ info[c].fd = f /\ connections[f] = c
                      /\ Suspended(q.op, "read")
  BY <1>0, Resumption DEF Reaping
<1>b. PICK b \in Bid : b = q.out
  BY <1>0 DEF LendInv, ShapeInv, Reaping
<1>p. PICK p : p = selected(c, q) /\ p = [fd |-> f, bid |-> b]
  <2>1. info[c] \in [fd : Fd \union {None}, bid : Bid \union {None}]
    BY DEF CoroutineTypeOK
  <2>2. selected(c, q) = [fd |-> f, bid |-> b]
    BY <1>f, <1>b, <2>1 DEF selected
  <2>. QED BY <2>2
<1>s. shut \subseteq Fd
  BY DEF LendInv, TypeOK
<1>t. Transfer(q, "READ", c, f)
  BY <1>0, <1>f DEF Transfer
<1>1. CASE ~Room(1)
  BY <1>0, <1>f, <1>1 DEF GivesUp
<1>2. CASE Room(1) /\ StreamEnded(q.res)
  <2>s. PICK s \in Seq(SqeType) : s = AtEnd(c, p) /\ s = <<Sqe("PROV_BUF", f, b, c)>>
    <3>1. Sqe("PROV_BUF", f, b, c) \in SqeType
      BY Filled
    <3>2. AtEnd(c, p) = <<Sqe("PROV_BUF", f, b, c)>>
      BY <1>p DEF AtEnd, echo_add_buffer
    <3>3. <<Sqe("PROV_BUF", f, b, c)>> \in Seq(SqeType)
      BY <3>1
    <3>. QED BY <3>2, <3>3
  <2>1. /\ Resumed(c, q, "done", Blank, s) /\ res' = [res EXCEPT ![c] = "none"]
        /\ shut' = shut \union {f} /\ Registers(f, None)
    BY <1>0, <1>2, <1>f, <1>p, <2>s DEF Registers
  <2>2. shut' \subseteq Fd
    BY <1>s, <2>1
  <2>3. Answered(q, s) /\ Moves(c, "done", Blank)
    BY <1>0, <2>1, <2>2, ResumedIs
  <2>. QED BY <1>b, <1>t, <1>2, <2>s, <2>1, <2>3 DEF Finishes, StreamEnded
<1>3. CASE Room(1) /\ ~StreamEnded(q.res)
  <2>s. PICK s \in Seq(SqeType) : s = <<echo_write(c, p)>> /\ s = <<Sqe("WRITE", f, b, c)>>
    <3>1. Sqe("WRITE", f, b, c) \in SqeType
      BY Filled
    <3>2. echo_write(c, p) = Sqe("WRITE", f, b, c)
      BY <1>p DEF echo_write
    <3>3. <<Sqe("WRITE", f, b, c)>> \in Seq(SqeType)
      BY <3>1
    <3>. QED BY <3>2, <3>3
  <2>1. /\ Resumed(c, q, "write", p, s) /\ res' = [res EXCEPT ![c] = q.res]
        /\ UNCHANGED <<shut, connections>>
    BY <1>0, <1>3, <1>f, <1>p, <2>s
  <2>2. shut' \subseteq Fd
    BY <1>s, <2>1
  <2>3. Answered(q, s) /\ Moves(c, "write", p)
    BY <1>0, <2>1, <2>2, ResumedIs
  <2>4. q.res \in {"ok", "err"}
    <3>1. q.res \in {"ok", "eof", "err", "short", "nobufs"}
      BY <1>0 DEF LendInv, TypeOK, RingTypeOK, CqeType
    <3>. QED BY <1>0, <1>3, <3>1 DEF PayloadInv, StreamEnded, Reaping
  <2>5. Registers(f, c)
    BY <1>f, <2>1 DEF Registers, CoroutineTypeOK
  <2>. QED BY <1>b, <1>t, <1>p, <1>3, <2>s, <2>1, <2>3, <2>4, <2>5 DEF Echoes
<1>. QED BY <1>1, <1>2, <1>3

LEMMA CoWriteIs ==
  ASSUME CoInv, NEW c \in Client, CoWrite(c)
  PROVE  \/ \E q \in cq : q.op.conn = c /\ GivesUp(q, "WRITE", 2)
         \/ \E q \in cq, f \in Fd, b \in Bid, s \in Seq(SqeType) : ReadsOn(q, c, f, b, s)
<1>. USE DEF CoInv, FrameInv
<1>0. PICK q \in cq :
        /\ Reaping(q, "WRITE") /\ q.op.conn = c
        /\ IF ~Suspended(q.op, "write") THEN Ends("derailed")
           ELSE IF ~Room(2) THEN Ends("nosqe")
           ELSE /\ Resumed(c, q, "read", info[c], AfterEcho(c, info[c]))
                /\ UNCHANGED <<shut, connections, res>>
  BY DEF CoWrite
<1>f. PICK f \in Fd, b \in Bid :
        /\ f = q.op.fd /\ open[f] = c /\ info[c].fd = f /\ connections[f] = c
        /\ b = q.op.bid /\ info[c].bid = b /\ Suspended(q.op, "write")
  BY <1>0, Resumption DEF Reaping
<1>p. PICK p : p = info[c] /\ p = [fd |-> f, bid |-> b]
  <2>1. info[c] \in [fd : Fd \union {None}, bid : Bid \union {None}]
    BY DEF CoroutineTypeOK
  <2>. QED BY <1>f, <2>1
<1>t. Transfer(q, "WRITE", c, f)
  BY <1>0, <1>f DEF Transfer
<1>1. CASE ~Room(2)
  BY <1>0, <1>f, <1>1 DEF GivesUp
<1>2. CASE Room(2)
  <2>s. PICK s \in Seq(SqeType) :
          s = AfterEcho(c, p) /\ s = <<Sqe("PROV_BUF", f, b, c), Sqe("READ", f, b, c)>>
    <3>1. Sqe("PROV_BUF", f, b, c) \in SqeType /\ Sqe("READ", f, b, c) \in SqeType
      BY Filled
    <3>2. AfterEcho(c, p) = <<Sqe("PROV_BUF", f, b, c), Sqe("READ", f, b, c)>>
      BY <1>p DEF AfterEcho, echo_add_buffer, echo_read
    <3>3. <<Sqe("PROV_BUF", f, b, c), Sqe("READ", f, b, c)>> \in Seq(SqeType)
      BY <3>1
    <3>. QED BY <3>2, <3>3
  <2>1. Resumed(c, q, "read", p, s) /\ UNCHANGED <<shut, connections, res>>
    BY <1>0, <1>2, <1>f, <1>p, <2>s
  <2>2. shut' \subseteq Fd
    BY <2>1 DEF LendInv, TypeOK
  <2>3. Answered(q, s) /\ Moves(c, "read", p)
    BY <1>0, <2>1, <2>2, ResumedIs
  <2>4. Registers(f, c)
    BY <1>f, <2>1 DEF Registers, CoroutineTypeOK
  <2>. QED BY <1>f, <1>t, <1>p, <1>2, <2>s, <2>1, <2>3, <2>4 DEF ReadsOn
<1>. QED BY <1>1, <1>2

(* What the SQEs are, one by one.                                          *)
LEMMA OneFilled ==
  ASSUME NEW c \in Client, NEW f \in Fd, NEW b \in Bid, NEW type \in {"WRITE", "PROV_BUF"},
         NEW s, s = <<Sqe(type, f, b, c)>>
  PROVE  /\ DOMAIN s = {1} /\ s[1].type = type /\ s[1].fd = f /\ s[1].bid = b /\ s[1].conn = c
         /\ s \in Seq(SqeType)
<1>1. /\ Sqe(type, f, b, c) \in SqeType /\ Sqe(type, f, b, c).type = type
      /\ Sqe(type, f, b, c).fd = f /\ Sqe(type, f, b, c).bid = b
      /\ Sqe(type, f, b, c).conn = c
  BY Filled
<1>. HIDE DEF Sqe
<1>. QED BY <1>1

LEMMA StartFilled ==
  ASSUME NEW c \in Client, NEW f \in Fd, NEW s, s = <<Sqe("READ", f, None, c), add_accept>>
  PROVE  /\ DOMAIN s = {1, 2} /\ s[1].type = "READ" /\ s[1].fd = f /\ s[1].conn = c
         /\ s[2] = add_accept /\ s[2].type = "ACCEPT"
<1>1. /\ Sqe("READ", f, None, c).type = "READ" /\ Sqe("READ", f, None, c).fd = f
      /\ Sqe("READ", f, None, c).conn = c /\ add_accept.type = "ACCEPT"
  BY Filled
<1>. QED BY <1>1

LEMMA ReadsOnFilled ==
  ASSUME NEW c \in Client, NEW f \in Fd, NEW b \in Bid, NEW s,
         s = <<Sqe("PROV_BUF", f, b, c), Sqe("READ", f, b, c)>>
  PROVE  /\ DOMAIN s = {1, 2}
         /\ s[1].type = "PROV_BUF" /\ s[1].fd = f /\ s[1].bid = b /\ s[1].conn = c
         /\ s[2].type = "READ" /\ s[2].fd = f /\ s[2].conn = c
<1>1. /\ Sqe("PROV_BUF", f, b, c).type = "PROV_BUF" /\ Sqe("PROV_BUF", f, b, c).fd = f
      /\ Sqe("PROV_BUF", f, b, c).bid = b /\ Sqe("PROV_BUF", f, b, c).conn = c
      /\ Sqe("READ", f, b, c).type = "READ" /\ Sqe("READ", f, b, c).fd = f
      /\ Sqe("READ", f, b, c).conn = c
  BY Filled
<1>. QED BY <1>1

LEMMA EndsStep ==
  ASSUME CoInv, Ends("nosqe")
  PROVE  CoInv'
<1>. USE DEF CoInv
<1>1. /\ UNCHANGED <<sq, inflight, cq, open, backlog, coVars>> /\ proc' = "nosqe"
  BY DEF Ends, Exit, ringVars
<1>2. LendInv'
  BY ExitStep DEF Ends, Ended
<1>3. CoroutineTypeOK'
  BY <1>1, <1>2 DEF LendInv, CoroutineTypeOK, coVars
<1>4. FrameInv'
  BY <1>1, FramesStay DEF Operations, Fresh
<1>. QED BY <1>2, <1>3, <1>4

LEMMA CoAcceptStep ==
  ASSUME CoInv, CoAccept
  PROVE  CoInv'
<1>. USE DEF CoInv, FrameInv
<1>1. ASSUME NEW q \in cq, GivesUp(q, "ACCEPT", 2) PROVE CoInv'
  BY <1>1, EndsStep DEF GivesUp
<1>2. ASSUME NEW q \in cq, NEW c \in Client, NEW f \in Fd, NEW s \in Seq(SqeType),
             Starts(q, c, f, s)
      PROVE  CoInv'
  <2>0. /\ q.op.type = "ACCEPT" /\ q.res = "ok" /\ q.out = f /\ open[f] = c
        /\ Answered(q, s) /\ UNCHANGED res /\ Moves(c, "read", [fd |-> f, bid |-> None])
        /\ Registers(f, c)
    BY <1>2 DEF Starts, Reaping
  <2>s. /\ DOMAIN s = {1, 2} /\ s[1].type = "READ" /\ s[1].fd = f /\ s[1].conn = c
        /\ s[2].type = "ACCEPT"
    BY <1>2, StartFilled DEF Starts
  <2>1. LendInv'
    BY <2>0, <2>s, AcceptAnswered
  <2>2. CoroutineTypeOK'
    BY <2>0, <2>1 DEF LendInv, CoroutineTypeOK, Moves, Registers
  <2>3. c \notin backlog /\ Fresh(c)
    BY <2>0 DEF LendInv, DescriptorInv, Fresh
  <2>4. ~Some(Wakeups(c))
    BY <2>3 DEF LendInv, WakeupInv
  <2>5. ~Fresh(c)'
    <3>1. \A r \in cq \ {q} : r.op.type # "ACCEPT"
      <4>1. \A r \in cq : r.op \in SqeType
        BY DEF LendInv, TypeOK, RingTypeOK, CqeType
      <4>2. \A r \in cq : r.op \in Accepts => r = q
        BY <2>0, <4>1 DEF LendInv, AcceptInv, One, AtMostOne, Accepts
      <4>. QED BY <4>1, <4>2 DEF Accepts
    <3>. QED BY <2>0, <2>3, <3>1 DEF Fresh, Answered
  <2>p. PICK p : p = [fd |-> f, bid |-> None] /\ p.fd = f
    <3>. DEFINE p0 == [fd |-> f, bid |-> None]
    <3>1. p0 = [fd |-> f, bid |-> None] /\ p0.fd = f /\ p0.bid = None
      OBVIOUS
    <3>. HIDE DEF p0
    <3>. QED BY <3>1
  <2>6. \A j \in DOMAIN s :
          s[j].type = "ACCEPT" \/ (s[j].type = "READ" /\ s[j].conn = c /\ s[j].fd = f)
    BY <2>s
  <2>7. FrameInv'
    BY <2>0, <2>s, <2>4, <2>5, <2>6, <2>p, FramesResumed
  <2>. QED BY <2>1, <2>2, <2>7
<1>. QED BY <1>1, <1>2, CoAcceptIs

LEMMA CoReadStep ==
  ASSUME CoInv, NEW c \in Client, CoRead(c)
  PROVE  CoInv'
<1>. USE DEF CoInv, FrameInv
<1>1. ASSUME NEW q \in cq, GivesUp(q, "READ", 1) PROVE CoInv'
  BY <1>1, EndsStep DEF GivesUp
<1>2. ASSUME NEW q \in cq, NEW f \in Fd, NEW b \in Bid, NEW s \in Seq(SqeType),
             Echoes(q, c, f, b, s) \/ Finishes(q, c, f, b, s)
      PROVE  CoInv'
  <2>0. /\ q.op.type = "READ" /\ q.op.conn = c /\ q.op.fd = f /\ open[f] = c /\ q.out = b
        /\ Answered(q, s)
    BY <1>2 DEF Echoes, Finishes, Transfer, Reaping
  <2>w. q.op \in Wakeups(c) /\ ~Fresh(c)'
    BY <2>0, TransferSeen DEF Fresh, Answered
  <2>1. CASE Echoes(q, c, f, b, s)
    <3>p. PICK p : p = [fd |-> f, bid |-> b] /\ p.fd = f /\ p.bid = b
      <4>. DEFINE p0 == [fd |-> f, bid |-> b]
      <4>1. p0 = [fd |-> f, bid |-> b] /\ p0.fd = f /\ p0.bid = b
        OBVIOUS
      <4>. HIDE DEF p0
      <4>. QED BY <4>1
    <3>0. /\ Moves(c, "write", p) /\ Registers(f, c) /\ res' = [res EXCEPT ![c] = q.res]
          /\ q.res \in {"ok", "err"}
      BY <2>1, <3>p DEF Echoes
    <3>s. /\ DOMAIN s = {1} /\ s[1].type = "WRITE" /\ s[1].fd = f /\ s[1].bid = b
          /\ s[1].conn = c
      BY <2>1, OneFilled DEF Echoes
    <3>1. LendInv'
      BY <2>0, <3>s, TransferAnswered
    <3>2. CoroutineTypeOK'
      BY <3>0, <3>1, <3>p DEF LendInv, CoroutineTypeOK, Moves, Registers
    <3>3. FrameInv'
      BY <2>0, <2>w, <3>0, <3>s, <3>p, FramesResumed
    <3>. QED BY <3>1, <3>2, <3>3
  <2>2. CASE Finishes(q, c, f, b, s)
    <3>0. /\ Moves(c, "done", Blank) /\ Registers(f, None) /\ res' = [res EXCEPT ![c] = "none"]
      BY <2>2 DEF Finishes
    <3>s. /\ DOMAIN s = {1} /\ s[1].type = "PROV_BUF" /\ s[1].fd = f /\ s[1].bid = b
          /\ s[1].conn = c
      BY <2>2, OneFilled DEF Finishes
    <3>1. LendInv'
      BY <2>0, <3>s, TransferAnswered
    <3>2. CoroutineTypeOK'
      BY <3>0, <3>1 DEF LendInv, CoroutineTypeOK, Moves, Registers, Blank
    <3>3. FrameInv'
      BY <2>0, <2>w, <3>0, <3>s, FramesResumed
    <3>. QED BY <3>1, <3>2, <3>3
  <2>. QED BY <1>2, <2>1, <2>2
<1>. QED BY <1>1, <1>2, CoReadIs

LEMMA CoWriteStep ==
  ASSUME CoInv, NEW c \in Client, CoWrite(c)
  PROVE  CoInv'
<1>. USE DEF CoInv, FrameInv
<1>1. ASSUME NEW q \in cq, GivesUp(q, "WRITE", 2) PROVE CoInv'
  BY <1>1, EndsStep DEF GivesUp
<1>2. ASSUME NEW q \in cq, NEW f \in Fd, NEW b \in Bid, NEW s \in Seq(SqeType),
             ReadsOn(q, c, f, b, s)
      PROVE  CoInv'
  <2>p. PICK p : p = [fd |-> f, bid |-> b] /\ p.fd = f /\ p.bid = b
    <3>. DEFINE p0 == [fd |-> f, bid |-> b]
    <3>1. p0 = [fd |-> f, bid |-> b] /\ p0.fd = f /\ p0.bid = b
      OBVIOUS
    <3>. HIDE DEF p0
    <3>. QED BY <3>1
  <2>0. /\ q.op.type = "WRITE" /\ q.op.conn = c /\ q.op.fd = f /\ open[f] = c /\ q.op.bid = b
        /\ Answered(q, s) /\ Moves(c, "read", p) /\ Registers(f, c) /\ UNCHANGED res
    BY <1>2, <2>p DEF ReadsOn, Transfer, Reaping
  <2>w. q.op \in Wakeups(c) /\ ~Fresh(c)'
    BY <2>0, TransferSeen DEF Fresh, Answered
  <2>s. /\ DOMAIN s = {1, 2}
        /\ s[1].type = "PROV_BUF" /\ s[1].fd = f /\ s[1].bid = b /\ s[1].conn = c
        /\ s[2].type = "READ" /\ s[2].fd = f /\ s[2].conn = c
    BY <1>2, ReadsOnFilled DEF ReadsOn
  <2>1. LendInv'
    BY <2>0, <2>s, TransferAnswered
  <2>2. CoroutineTypeOK'
    BY <2>0, <2>1, <2>p DEF LendInv, CoroutineTypeOK, Moves, Registers
  <2>3. FrameInv'
    BY <2>0, <2>w, <2>s, <2>p, FramesResumed
  <2>. QED BY <2>1, <2>2, <2>3
<1>. QED BY <1>1, <1>2, CoWriteIs

(* What the loop answers without resuming a coroutine.                     *)
LEMMA PlainAnswerFrames ==
  ASSUME CoInv, NEW q, NEW s, Answered(q, s), q.op.type \notin {"READ", "WRITE"},
         \A j \in DOMAIN s : s[j].type = "ACCEPT", UNCHANGED coVars
  PROVE  FrameInv'
<1>1. LendInv /\ proc # "derailed" /\ proc' = proc /\ cq' \subseteq cq /\ open' = open
  BY DEF CoInv, FrameInv, FramesAlive, Answered
<1>2. \A c \in Client : Fresh(c)' => Fresh(c)
  BY DEF Fresh, Answered
<1>3. /\ \A e \in Operations' : e \in Operations \/ e.type = "ACCEPT"
      /\ \A e \in Operations : e.type \in {"READ", "WRITE"} => e \in Operations'
  BY <1>1, AnsweredOperations
<1>. QED BY <1>1, <1>2, <1>3, FramesStay

LEMMA CoAcceptFailedStep ==
  ASSUME CoInv, CoAcceptFailed
  PROVE  CoInv'
<1>. USE DEF CoInv
<1>0. PICK q \in cq :
        q.op.type = "ACCEPT" /\ Answer(q, <<add_accept>>) /\ UNCHANGED coVars
  BY DEF CoAcceptFailed, Reaping
<1>1. CASE Exit("nosqe")
  BY <1>0, <1>1, EndsStep DEF Ends
<1>2. CASE ~Exit("nosqe")
  <2>a. PICK a \in SqeType : a = add_accept /\ a.type = "ACCEPT"
    <3>1. add_accept \in SqeType /\ add_accept.type = "ACCEPT"
      BY DEF add_accept, Sqe, SqeType
    <3>. QED BY <3>1
  <2>. DEFINE s == <<a>>
  <2>1. s \in Seq(SqeType) /\ DOMAIN s = {1} /\ s[1] = a
    OBVIOUS
  <2>2. Answered(q, s)
    BY <1>0, <1>2, <2>a, <2>1, AnswerIs
  <2>. HIDE DEF s
  <2>3. LendInv'
    BY <1>0, <2>a, <2>1, <2>2, AcceptAnswered
  <2>4. FrameInv'
    BY <1>0, <2>a, <2>1, <2>2, PlainAnswerFrames
  <2>5. CoroutineTypeOK'
    BY <1>0, <2>3 DEF LendInv, CoroutineTypeOK, coVars
  <2>. QED BY <2>3, <2>4, <2>5
<1>. QED BY <1>1, <1>2

LEMMA UnresumedStep ==
  ASSUME CoInv, Unresumed
  PROVE  CoInv'
<1>. USE DEF CoInv
<1>c. UNCHANGED coVars /\ proc # "derailed"
  BY DEF Unresumed, FrameInv, FramesAlive
<1>t. LendInv' => CoroutineTypeOK'
  BY <1>c DEF LendInv, CoroutineTypeOK, coVars
<1>1. CASE Enter \/ Return
  <2>1. UNCHANGED <<ringVars, proc, shut, dataVars>> /\ loop' \in {"reap", "enter"}
    BY <1>1 DEF Enter, Return
  <2>2. LendInv'
    BY <2>1, RingStill DEF LendInv, TypeOK
  <2>3. FrameInv'
    BY <1>c, <2>1, FramesStay DEF ringVars, Operations, Fresh
  <2>. QED BY <1>t, <2>2, <2>3
<1>2. CASE KernelStep
  <2>1. LendInv'
    <3>1. CASE KernelConsumes
      BY <3>1, ConsumeProvideStep, ConsumeRequestStep DEF KernelConsumes
    <3>. QED BY <1>2, <3>1, AcceptFailedStep, AcceptedStep, ReceivedStep, ReceiveFailedStep,
                SentStep, SendFailsStep DEF KernelStep
  <2>. QED BY <1>c, <1>t, <1>2, <2>1, KernelFrames
<1>3. ASSUME NEW reason \in Ended, Exit(reason) PROVE CoInv'
  <2>1. UNCHANGED <<sq, inflight, cq, open, backlog>> /\ proc' # "derailed"
    BY <1>3 DEF Exit, ringVars, Ended
  <2>2. FrameInv'
    BY <1>c, <2>1, FramesStay DEF Operations, Fresh
  <2>. QED BY <1>t, <1>3, <2>2, ExitStep
<1>4. CASE HandleProvBuf
  <2>0. PICK q \in cq :
          /\ q.op.type = "PROV_BUF"
          /\ IF q.res = "err" THEN Exit("eprovide") ELSE Answer(q, <<>>)
    BY <1>4 DEF HandleProvBuf, Reaping
  <2>. DEFINE s == <<>>
  <2>1. s \in Seq(SqeType) /\ DOMAIN s = {}
    OBVIOUS
  <2>2. CASE Exit("eprovide") \/ Exit("nosqe")
    BY <1>3, <2>2 DEF Ended
  <2>3. CASE ~(Exit("eprovide") \/ Exit("nosqe"))
    <3>1. Answered(q, s)
      BY <2>0, <2>1, <2>3, AnswerIs
    <3>. HIDE DEF s
    <3>2. FrameInv'
      BY <1>c, <2>0, <2>1, <3>1, PlainAnswerFrames
    <3>. QED BY <1>t, <1>4, <3>2, HandleProvBufStep
  <2>. QED BY <2>2, <2>3
<1>5. CASE OutOfBuffers
  BY <1>3, <1>5 DEF OutOfBuffers, Ended
<1>. QED BY <1>1, <1>2, <1>4, <1>5 DEF Unresumed, KernelStep

LEMMA NextCoInv == CoInv /\ [CoNext]_allVars => CoInv'
<1>. SUFFICES ASSUME CoInv, [CoNext]_allVars PROVE CoInv'
  OBVIOUS
<1>1. CASE UNCHANGED allVars
  <2>1. /\ UNCHANGED <<ringVars, proc, loop, shut, dataVars>> /\ UNCHANGED coVars
        /\ LendInv /\ proc # "derailed"
    BY <1>1 DEF allVars, vars, echoVars, CoInv, FrameInv, FramesAlive
  <2>2. LendInv'
    BY <2>1, RingStill DEF LendInv, TypeOK
  <2>3. FrameInv'
    BY <2>1, FramesStay DEF ringVars, Operations, Fresh
  <2>. QED BY <2>1, <2>2, <2>3 DEF CoInv, LendInv, CoroutineTypeOK, coVars
<1>. QED BY <1>1, UnresumedStep, CoAcceptStep, CoAcceptFailedStep, CoReadStep, CoWriteStep
         DEF CoNext

(* The frames, the map of coroutines and the hands of the buffers, in      *)
(* every reachable state.                                                  *)
THEOREM CoInvariance == CoSpec => []CoInv
<1>. QED BY InitCoInv, NextCoInv, PTL DEF CoSpec

(* Every variable keeps its type.                                          *)
THEOREM CoroutineTypeCorrect == CoSpec => []CoroutineTypeOK
<1>1. CoInv => CoroutineTypeOK
  BY DEF CoInv
<1>. QED BY <1>1, CoInvariance, PTL

(* Each completion finds the coroutine that asked for it, suspended where  *)
(* it waits for that; none finds a frame that is gone, however the         *)
(* connections' reads succeed, end or fail.                                *)
THEOREM FramesAliveHolds == CoSpec => []FramesAlive
<1>1. CoInv => FramesAlive
  BY DEF CoInv, FrameInv
<1>. QED BY <1>1, CoInvariance, PTL


--------------------------------------------------------------------------------
(* The refinement of BufferPool: the coroutines lend, release and return   *)
(* the buffers as the callbacks do.                                        *)
LEMMA CompletionsRefine ==
  ASSUME LendInv, KernelStep
  PROVE  [Lending!Next]_(Lending!vars)
<1>1. CASE KernelConsumes
  BY <1>1, ConsumeRefines
<1>2. CASE AcceptFailed
  BY <1>2, PlainCompletionRefines DEF AcceptFailed, FailAccept
<1>3. ASSUME NEW c \in Client, Accepted(c) PROVE UNCHANGED Lending!vars
  <2>1. PICK f, op : /\ op.type = "ACCEPT" /\ Complete(op, "ok", f)
                     /\ UNCHANGED <<sq, group>>
    BY <1>3 DEF Accepted, CompleteAccept
  <2>. QED BY <2>1, PlainCompletionRefines
<1>4. ASSUME NEW c \in Client, Received(c) PROVE Lending!Next
  BY <1>4, CompleteRecvRefines DEF Received
<1>5. ASSUME NEW c \in Client, ReceiveFailed(c) PROVE [Lending!Next]_(Lending!vars)
  <2>1. CASE StarveRecv(c)
    BY <2>1, PlainCompletionRefines, RingAssumption DEF StarveRecv
  <2>. QED BY <1>5, <2>1, CompleteRecvRefines DEF ReceiveFailed
<1>6. ASSUME NEW c \in Client, Sent(c) \/ SendFails(c) PROVE UNCHANGED Lending!vars
  <2>1. PICK op, res1 : /\ op.type = "WRITE" /\ Complete(op, res1, None)
                        /\ UNCHANGED <<sq, group>>
    BY <1>6 DEF Sent, CompleteSend, SendFails
  <2>. QED BY <2>1, PlainCompletionRefines
<1>. QED BY <1>1, <1>2, <1>3, <1>4, <1>5, <1>6 DEF KernelStep

(* What the resumed coroutines do with the buffers.                        *)
LEMMA StartsRefine ==
  ASSUME CoInv, NEW q \in cq, NEW c \in Client, NEW f \in Fd, NEW s \in Seq(SqeType),
         Starts(q, c, f, s)
  PROVE  UNCHANGED Lending!vars
<1>1. LendInv /\ Answered(q, s) /\ q.op.type = "ACCEPT"
  BY DEF CoInv, Starts, Reaping
<1>2. DOMAIN s = {1, 2} /\ s[1].type = "READ" /\ s[2].type = "ACCEPT"
  BY StartFilled DEF Starts
<1>. QED BY <1>1, <1>2, AnswerRefines

LEMMA ResumedRefine ==
  ASSUME CoInv, NEW q \in cq, NEW c \in Client, NEW f \in Fd, NEW b \in Bid,
         NEW s \in Seq(SqeType),
         Echoes(q, c, f, b, s) \/ Finishes(q, c, f, b, s) \/ ReadsOn(q, c, f, b, s)
  PROVE  [Lending!Next]_(Lending!vars)
<1>0. LendInv
  BY DEF CoInv
<1>1. CASE Echoes(q, c, f, b, s)
  <2>1. Answered(q, s) /\ q.op.type = "READ" /\ q.op.conn = c /\ q.out = b
    BY <1>1 DEF Echoes, Transfer, Reaping
  <2>2. DOMAIN s = {1} /\ s[1].type = "WRITE" /\ s[1].bid = b /\ s[1].conn = c
    BY <1>1, OneFilled DEF Echoes
  <2>. QED BY <1>0, <2>1, <2>2, TransferRefines
<1>2. CASE Finishes(q, c, f, b, s)
  <2>1. Answered(q, s) /\ q.op.type = "READ" /\ q.op.conn = c /\ q.out = b
    BY <1>2 DEF Finishes, Transfer, Reaping
  <2>2. DOMAIN s = {1} /\ s[1].type = "PROV_BUF" /\ s[1].bid = b /\ s[1].conn = c
    BY <1>2, OneFilled DEF Finishes
  <2>. QED BY <1>0, <2>1, <2>2, TransferRefines
<1>3. CASE ReadsOn(q, c, f, b, s)
  <2>1. Answered(q, s) /\ q.op.type = "WRITE" /\ q.op.conn = c /\ q.op.bid = b
    BY <1>3 DEF ReadsOn, Transfer, Reaping
  <2>2. /\ DOMAIN s = {1, 2} /\ s[1].type = "PROV_BUF" /\ s[1].bid = b /\ s[1].conn = c
        /\ s[2].type = "READ"
    BY <1>3, ReadsOnFilled DEF ReadsOn
  <2>. QED BY <1>0, <2>1, <2>2, TransferRefines
<1>. QED BY <1>1, <1>2, <1>3

LEMMA CoStepsRefine ==
  ASSUME CoInv, [CoNext]_allVars
  PROVE  [Lending!Next]_(Lending!vars)
<1>. LendInv
  BY DEF CoInv
<1>0. ASSUME NEW r, Ends(r) PROVE UNCHANGED Lending!vars
  BY <1>0, ExitRefines DEF Ends
<1>1. CASE Enter \/ Return \/ UNCHANGED allVars
  <2>1. UNCHANGED <<sq, inflight, cq, group>>
    BY <1>1 DEF Enter, Return, allVars, vars, ringVars
  <2>. QED BY <2>1, SameHands DEF Lent, Operations, Returning
<1>2. CASE KernelStep
  BY <1>2, CompletionsRefine
<1>3. CASE OutOfBuffers \/ HandleProvBuf
  BY <1>3, HandlersRefine
<1>4. CASE CoAcceptFailed
  <2>1. PICK q \in cq : q.op.type = "ACCEPT" /\ Answer(q, <<add_accept>>)
    BY <1>4 DEF CoAcceptFailed, Reaping
  <2>2. PICK a \in SqeType : a = add_accept /\ a.type = "ACCEPT"
    <3>1. add_accept \in SqeType /\ add_accept.type = "ACCEPT"
      BY DEF add_accept, Sqe, SqeType
    <3>. QED BY <3>1
  <2>. DEFINE s == <<a>>
  <2>3. s \in Seq(SqeType) /\ DOMAIN s = {1} /\ s[1] = a
    OBVIOUS
  <2>4. Answered(q, s) \/ Exit("nosqe")
    BY <2>1, <2>2, <2>3, AnswerIs
  <2>. HIDE DEF s
  <2>. QED BY <2>1, <2>2, <2>3, <2>4, AnswerRefines, ExitRefines
<1>5. CASE CoAccept
  BY <1>0, <1>5, CoAcceptIs, StartsRefine DEF GivesUp
<1>6. ASSUME NEW c \in Client, CoRead(c) PROVE [Lending!Next]_(Lending!vars)
  BY <1>0, <1>6, CoReadIs, ResumedRefine DEF GivesUp
<1>7. ASSUME NEW c \in Client, CoWrite(c) PROVE [Lending!Next]_(Lending!vars)
  BY <1>0, <1>7, CoWriteIs, ResumedRefine DEF GivesUp
<1>. QED BY <1>1, <1>2, <1>3, <1>4, <1>5, <1>6, <1>7 DEF CoNext, Unresumed, KernelStep

(* The coroutine server too lends its buffers as BufferPool says: a buffer *)
(* has one borrower, a borrower one buffer, and it comes back only from    *)
(* the borrower.                                                           *)
THEOREM CoPoolDisciplineHolds == CoSpec => PoolDiscipline
<1>1. CoInit => Lending!Init
  <2>. SUFFICES ASSUME CoInit PROVE Lending!Init
    OBVIOUS
  <2>1. /\ group = Bid /\ cq = {} /\ DOMAIN sq = {1} /\ sq[1].type = "ACCEPT"
    BY DEF CoInit, Init, add_accept, Sqe
  <2>. QED BY <2>1 DEF Lending!Init, OwnerOf, Returning
<1>2. CoInv /\ [CoNext]_allVars => [Lending!Next]_(Lending!vars)
  BY CoStepsRefine
<1>. QED BY <1>1, <1>2, CoInvariance, PTL DEF CoSpec, PoolDiscipline, Lending!Spec


--------------------------------------------------------------------------------
(* The coroutine server does what the callback server does.  Plain drops   *)
(* the fields of the user_data that no handler reads; it still tells the   *)
(* outstanding operations apart, so what the one ring loses or gains, the  *)
(* other does too.                                                         *)
LEMMA PlainFields ==
  ASSUME NEW e \in SqeType
  PROVE  /\ Plain(e) \in SqeType /\ Plain(e).type = e.type /\ Plain(e).conn = e.conn
         /\ e.type # "PROV_BUF" => Plain(e).fd = e.fd
         /\ e.type # "READ" => Plain(e).bid = e.bid
         /\ e.type \in {"ACCEPT", "WRITE"} => Plain(e) = e
BY DEF Plain, SqeType

LEMMA PlainApart ==
  ASSUME CoInv, NEW d \in Operations, NEW e \in Operations, Plain(d) = Plain(e)
  PROVE  d = e
<1>. LendInv
  BY DEF CoInv
<1>0. /\ d \in SqeType /\ Shaped(d) /\ e \in SqeType /\ Shaped(e)
      /\ d.type = e.type /\ d.conn = e.conn
  <2>1. d \in SqeType /\ Shaped(d) /\ e \in SqeType /\ Shaped(e)
    BY OperationTypes
  <2>2. Plain(d).type = d.type /\ Plain(d).conn = d.conn
    BY <2>1, PlainFields
  <2>3. Plain(e).type = e.type /\ Plain(e).conn = e.conn
    BY <2>1, PlainFields
  <2>. QED BY <2>1, <2>2, <2>3
<1>1. CASE d.type = "READ"
  <2>1. PICK c \in Client : d \in Wakeups(c) /\ e \in Wakeups(c)
    BY <1>0, <1>1 DEF Shaped, Wakeups, Transfers
  <2>. QED BY <2>1, OneTransfer
<1>2. CASE d.type = "PROV_BUF"
  <2>1. d.bid = e.bid
    <3>1. Plain(d).bid = d.bid
      BY <1>0, <1>2, PlainFields
    <3>2. Plain(e).bid = e.bid
      BY <1>0, <1>2, PlainFields
    <3>. QED BY <3>1, <3>2
  <2>2. d.conn \in Client /\ d.fd \in Fd /\ open[d.fd] = d.conn
    BY <1>0, <1>2 DEF Shaped, CoInv, FrameInv, PayloadInv
  <2>3. e.fd \in Fd /\ open[e.fd] = e.conn
    BY <1>0, <1>2 DEF CoInv, FrameInv, PayloadInv
  <2>4. d.fd = e.fd
    BY <1>0, <2>2, <2>3 DEF LendInv, DescriptorInv
  <2>. QED BY <1>0, <2>1, <2>4 DEF SqeType
<1>3. CASE d.type \notin {"READ", "PROV_BUF"}
  BY <1>0, <1>3 DEF Plain
<1>. QED BY <1>1, <1>2, <1>3

LEMMA PlainCqeFields ==
  ASSUME NEW q \in CqeType
  PROVE  /\ PlainCqe(q) \in CqeType /\ PlainCqe(q).op = Plain(q.op)
         /\ PlainCqe(q).res = q.res /\ PlainCqe(q).out = q.out
         /\ PlainCqe(q) = Cqe(Plain(q.op), q.res, q.out)
<1>1. q.op \in SqeType /\ Plain(q.op) \in SqeType
  BY PlainFields DEF CqeType
<1>. QED BY <1>1 DEF PlainCqe, CqeType, Cqe

LEMMA PlainCqeApart ==
  ASSUME CoInv, NEW p \in cq, NEW q \in cq, PlainCqe(p) = PlainCqe(q)
  PROVE  p = q
<1>1. p \in CqeType /\ q \in CqeType
  BY DEF CoInv, LendInv, TypeOK, RingTypeOK
<1>2. /\ PlainCqe(p).op = Plain(p.op) /\ PlainCqe(p).res = p.res /\ PlainCqe(p).out = p.out
  BY <1>1, PlainCqeFields
<1>3. /\ PlainCqe(q).op = Plain(q.op) /\ PlainCqe(q).res = q.res /\ PlainCqe(q).out = q.out
  BY <1>1, PlainCqeFields
<1>4. p.op = q.op
  BY <1>2, <1>3, PlainApart DEF Operations
<1>. QED BY <1>1, <1>2, <1>3, <1>4 DEF CqeType

(* The ring that the callback server would have.                           *)
LEMMA PlainRing ==
  ASSUME CoInv
  PROVE  /\ PlainSq \in Seq(SqeType) /\ Len(PlainSq) = Len(sq) /\ Len(sq) \in Nat
         /\ DOMAIN PlainSq = DOMAIN sq /\ DOMAIN sq = 1 .. Len(sq)
         /\ \A i \in DOMAIN sq : PlainSq[i] = Plain(sq[i])
         /\ PlainSq = <<>> <=> sq = <<>>
         /\ PlainCq = {} <=> cq = {}
<1>1. /\ sq \in Seq(SqeType) /\ Len(sq) \in Nat /\ DOMAIN sq = 1 .. Len(sq)
      /\ \A i \in DOMAIN sq : sq[i] \in SqeType
  BY DEF CoInv, LendInv, TypeOK, RingTypeOK
<1>2. \A i \in DOMAIN sq : Plain(sq[i]) \in SqeType
  BY <1>1, PlainFields
<1>3. PlainSq \in [1 .. Len(sq) -> SqeType]
  BY <1>1, <1>2 DEF PlainSq
<1>4. PlainSq \in Seq(SqeType) /\ DOMAIN PlainSq = 1 .. Len(sq)
  BY <1>1, <1>3
<1>5. Len(PlainSq) = Len(sq)
  BY <1>1, <1>4
<1>6. \A i \in DOMAIN sq : PlainSq[i] = Plain(sq[i])
  BY DEF PlainSq
<1>7. PlainSq = <<>> <=> sq = <<>>
  BY <1>1, <1>4, <1>5
<1>. QED BY <1>1, <1>4, <1>5, <1>6, <1>7 DEF PlainCq

LEMMA ASequence ==
  ASSUME NEW n \in Nat, NEW u \in [1 .. n -> SqeType]
  PROVE  u \in Seq(SqeType) /\ Len(u) = n
OBVIOUS

LEMMA SameSequence ==
  ASSUME NEW u \in Seq(SqeType), NEW v \in Seq(SqeType), Len(u) = Len(v),
         \A i \in 1 .. Len(u) : u[i] = v[i]
  PROVE  u = v
<1>1. u \in [1 .. Len(u) -> SqeType] /\ v \in [1 .. Len(u) -> SqeType]
  OBVIOUS
<1>. QED BY <1>1

LEMMA PlainTail ==
  ASSUME CoInv, sq # <<>>, sq' = Tail(sq)
  PROVE  PlainSq # <<>> /\ Head(PlainSq) = Plain(Head(sq)) /\ PlainSq' = Tail(PlainSq)
<1>1. /\ PlainSq \in Seq(SqeType) /\ Len(PlainSq) = Len(sq) /\ Len(sq) \in Nat
      /\ DOMAIN PlainSq = DOMAIN sq /\ DOMAIN sq = 1 .. Len(sq)
      /\ \A i \in DOMAIN sq : PlainSq[i] = Plain(sq[i])
      /\ PlainSq # <<>>
  BY PlainRing
<1>2. /\ Head(sq) = sq[1] /\ 1 \in DOMAIN sq
      /\ DOMAIN Tail(sq) = 1 .. (Len(sq) - 1)
      /\ \A i \in DOMAIN Tail(sq) : i + 1 \in DOMAIN sq /\ Tail(sq)[i] = sq[i + 1]
  BY TailFacts DEF CoInv, LendInv, TypeOK
<1>3. /\ PlainSq' = [i \in 1 .. (Len(sq) - 1) |-> Plain(Tail(sq)[i])]
      /\ Tail(sq) \in Seq(SqeType)
  BY <1>2, TailFacts DEF PlainSq, CoInv, LendInv, TypeOK
<1>4. /\ Tail(PlainSq) \in Seq(SqeType) /\ Len(Tail(PlainSq)) = Len(sq) - 1
      /\ \A i \in 1 .. (Len(sq) - 1) : Tail(PlainSq)[i] = PlainSq[i + 1]
      /\ Head(PlainSq) = PlainSq[1]
  BY <1>1
<1>5. \A i \in 1 .. (Len(sq) - 1) : PlainSq[i + 1] = Plain(Tail(sq)[i])
  BY <1>1, <1>2
<1>6. PlainSq' \in Seq(SqeType) /\ Len(PlainSq') = Len(sq) - 1
  <2>1. \A i \in 1 .. (Len(sq) - 1) : PlainSq[i + 1] \in SqeType
    BY <1>1
  <2>2. PlainSq' \in [1 .. (Len(sq) - 1) -> SqeType]
    BY <1>3, <1>5, <2>1
  <2>3. Len(sq) - 1 \in Nat
    BY <1>1, <1>2
  <2>. QED BY <2>2, <2>3
<1>7. \A i \in 1 .. (Len(sq) - 1) : PlainSq'[i] = Tail(PlainSq)[i]
  BY <1>3, <1>4, <1>5
<1>8. PlainSq' = Tail(PlainSq)
  BY <1>4, <1>6, <1>7, SameSequence
<1>. QED BY <1>1, <1>2, <1>4, <1>8

LEMMA ConcatIs ==
  ASSUME NEW u \in Seq(SqeType), NEW v \in Seq(SqeType)
  PROVE  /\ u \o v \in Seq(SqeType) /\ Len(u \o v) = Len(u) + Len(v)
         /\ \A i \in 1 .. (Len(u) + Len(v)) :
              (u \o v)[i] = IF i <= Len(u) THEN u[i] ELSE v[i - Len(u)]
OBVIOUS

LEMMA PlainConcat ==
  ASSUME CoInv, NEW s \in Seq(SqeType), NEW t \in Seq(SqeType), sq' = sq \o s,
         DOMAIN t = DOMAIN s, \A j \in DOMAIN s : t[j] = Plain(s[j])
  PROVE  PlainSq' = PlainSq \o t
<1>1. /\ PlainSq \in Seq(SqeType) /\ Len(PlainSq) = Len(sq) /\ Len(sq) \in Nat
      /\ DOMAIN PlainSq = DOMAIN sq /\ DOMAIN sq = 1 .. Len(sq)
      /\ \A i \in DOMAIN sq : PlainSq[i] = Plain(sq[i])
  BY PlainRing
<1>2. /\ Len(s) \in Nat /\ DOMAIN s = 1 .. Len(s) /\ Len(t) = Len(s)
  OBVIOUS
<1>s. sq \in Seq(SqeType)
  BY DEF CoInv, LendInv, TypeOK, RingTypeOK
<1>3. /\ DOMAIN sq' = 1 .. (Len(sq) + Len(s))
      /\ \A i \in 1 .. (Len(sq) + Len(s)) :
           sq'[i] = IF i <= Len(sq) THEN sq[i] ELSE s[i - Len(sq)]
  BY <1>1, <1>2, <1>s
<1>4. /\ PlainSq \o t \in Seq(SqeType) /\ Len(PlainSq \o t) = Len(sq) + Len(s)
      /\ \A i \in 1 .. (Len(sq) + Len(s)) :
           (PlainSq \o t)[i] = IF i <= Len(sq) THEN PlainSq[i] ELSE t[i - Len(sq)]
  <2>1. Len(PlainSq) = Len(sq) /\ Len(t) = Len(s)
    BY <1>1, <1>2, Zenon
  <2>2. /\ PlainSq \o t \in Seq(SqeType) /\ Len(PlainSq \o t) = Len(PlainSq) + Len(t)
        /\ \A i \in 1 .. (Len(PlainSq) + Len(t)) :
             (PlainSq \o t)[i] = IF i <= Len(PlainSq) THEN PlainSq[i] ELSE t[i - Len(PlainSq)]
    BY <1>1, ConcatIs
  <2>. QED BY <2>1, <2>2
<1>5. PlainSq' = [i \in 1 .. (Len(sq) + Len(s)) |-> Plain(sq'[i])]
  BY <1>3 DEF PlainSq
<1>6. ASSUME NEW i \in 1 .. (Len(sq) + Len(s))
      PROVE  Plain(sq'[i]) = IF i <= Len(sq) THEN PlainSq[i] ELSE t[i - Len(sq)]
  <2>1. CASE i <= Len(sq)
    BY <1>1, <1>3, <2>1
  <2>2. CASE ~(i <= Len(sq))
    <3>1. i - Len(sq) \in DOMAIN s
      BY <1>1, <1>2, <2>2
    <3>. QED BY <1>3, <2>2, <3>1
  <2>. QED BY <2>1, <2>2
<1>7. \A i \in 1 .. (Len(sq) + Len(s)) : PlainSq'[i] = (PlainSq \o t)[i]
  BY <1>4, <1>5, <1>6
<1>8. PlainSq' \in Seq(SqeType) /\ Len(PlainSq') = Len(sq) + Len(s)
  <2>1. \A i \in 1 .. (Len(sq) + Len(s)) : (PlainSq \o t)[i] \in SqeType
    BY <1>4
  <2>2. PlainSq' \in [1 .. (Len(sq) + Len(s)) -> SqeType]
    BY <1>5, <1>7, <2>1
  <2>3. Len(sq) + Len(s) \in Nat
    BY <1>1, <1>2
  <2>. QED BY <2>2, <2>3, ASequence
<1>. QED BY <1>4, <1>7, <1>8, SameSequence

LEMMA PlainTaken ==
  ASSUME CoInv, NEW op \in inflight
  PROVE  /\ Plain(op) \in PlainInflight
         /\ inflight' = inflight \ {op} => PlainInflight' = PlainInflight \ {Plain(op)}
<1>1. \A e \in inflight : Plain(e) = Plain(op) => e = op
  BY PlainApart DEF Operations
<1>. QED BY <1>1 DEF PlainInflight

LEMMA PlainSeen ==
  ASSUME CoInv, NEW q \in cq
  PROVE  /\ PlainCqe(q) \in PlainCq
         /\ cq' = cq \ {q} => PlainCq' = PlainCq \ {PlainCqe(q)}
<1>1. \A p \in cq : PlainCqe(p) = PlainCqe(q) => p = q
  BY PlainCqeApart
<1>. QED BY <1>1 DEF PlainCq

LEMMA PlainPost ==
  ASSUME CoInv, NEW op \in SqeType, NEW r, NEW out, Post(op, r, out)
  PROVE  PlainCq' = PlainCq \union {Cqe(Plain(op), r, out)}
<1>1. PlainCqe(Cqe(op, r, out)) = Cqe(Plain(op), r, out)
  BY DEF PlainCqe, Cqe
<1>2. cq' = cq \union {Cqe(op, r, out)}
  BY DEF Post
<1>. HIDE DEF Cqe, PlainCqe
<1>. QED BY <1>1, <1>2 DEF PlainCq

(* A completion.                                                           *)
LEMMA PlainComplete ==
  ASSUME CoInv, NEW op, NEW r, NEW out, Complete(op, r, out), sq' = sq
  PROVE  /\ op \in SqeType /\ Plain(op) \in PlainInflight
         /\ Callbacks!Complete(Plain(op), r, out) /\ PlainSq' = PlainSq
<1>1. op \in inflight /\ inflight' = inflight \ {op} /\ Post(op, r, out)
  BY DEF Complete
<1>2. op \in SqeType
  BY <1>1 DEF CoInv, LendInv, TypeOK, RingTypeOK
<1>3. /\ Plain(op) \in PlainInflight /\ PlainInflight' = PlainInflight \ {Plain(op)}
      /\ PlainCq' = PlainCq \union {Cqe(Plain(op), r, out)}
  BY <1>1, <1>2, PlainTaken, PlainPost
<1>. QED BY <1>2, <1>3 DEF PlainSq, Callbacks!Complete, Callbacks!Post, Callbacks!Cqe, Cqe


(* The answer to a CQE: what the coroutines fill in is, to the callbacks,  *)
(* what they fill in.                                                      *)
Shuts(q) == IF q.op.type = "READ" /\ q.res # "ok" THEN shut \union {q.op.fd} ELSE shut

LEMMA PlainAnswer ==
  ASSUME CoInv, NEW q \in cq, NEW s \in Seq(SqeType), NEW t \in Seq(SqeType),
         DOMAIN t = DOMAIN s, Len(t) = Len(s), \A j \in DOMAIN s : t[j] = Plain(s[j]),
         \/ ~Room(Len(s)) /\ Exit("nosqe")
         \/ Room(Len(s)) /\ Answered(q, s) /\ shut' = Shuts(q)
  PROVE  Callbacks!Answer(PlainCqe(q), t)
<1>q. q \in CqeType /\ q.op \in SqeType
  BY DEF CoInv, LendInv, TypeOK, RingTypeOK, CqeType
<1>r. Callbacks!Room(Len(t)) <=> Room(Len(s))
  BY PlainRing DEF Callbacks!Room, Room
<1>1. CASE ~Room(Len(s)) /\ Exit("nosqe")
  <2>1. Callbacks!Exit("nosqe")
    BY <1>1 DEF Exit, Callbacks!Exit, ringVars, Callbacks!ringVars, PlainSq, PlainInflight,
                PlainCq, dataVars, Callbacks!dataVars
  <2>. QED BY <1>1, <1>r, <2>1 DEF Callbacks!Answer
<1>2. CASE Room(Len(s)) /\ Answered(q, s) /\ shut' = Shuts(q)
  <2>1. PlainCq' = PlainCq \ {PlainCqe(q)}
    BY <1>2, PlainSeen DEF Answered
  <2>2. PlainSq' = PlainSq \o t
    BY <1>2, PlainConcat DEF Answered
  <2>3. /\ UNCHANGED <<group, open, backlog, proc, loop, dataVars>>
        /\ PlainInflight' = PlainInflight
    BY <1>2 DEF Answered, PlainInflight
  <2>4. shut' = IF PlainCqe(q).op.type = "READ" /\ PlainCqe(q).res # "ok"
                THEN shut \union {PlainCqe(q).op.fd} ELSE shut
    <3>1. PlainCqe(q).op = Plain(q.op) /\ PlainCqe(q).res = q.res
      BY <1>q, PlainCqeFields
    <3>2. /\ Plain(q.op).type = q.op.type
          /\ q.op.type # "PROV_BUF" => Plain(q.op).fd = q.op.fd
      BY <1>q, PlainFields
    <3>. QED BY <1>2, <3>1, <3>2 DEF Shuts
  <2>. QED BY <1>2, <1>r, <2>1, <2>2, <2>3, <2>4
           DEF Callbacks!Answer, Callbacks!dataVars, dataVars
<1>. QED BY <1>1, <1>2

LEMMA PlainReaping ==
  ASSUME CoInv, NEW q \in cq, NEW type, Reaping(q, type)
  PROVE  /\ Callbacks!Reaping(PlainCqe(q), type) /\ PlainCqe(q) \in PlainCq
         /\ PlainCqe(q).op.type = type /\ PlainCqe(q).op.conn = q.op.conn
         /\ type # "PROV_BUF" => PlainCqe(q).op.fd = q.op.fd
         /\ type # "READ" => PlainCqe(q).op.bid = q.op.bid
         /\ PlainCqe(q).res = q.res /\ PlainCqe(q).out = q.out
<1>q. q \in CqeType /\ q.op \in SqeType
  BY DEF CoInv, LendInv, TypeOK, RingTypeOK, CqeType
<1>1. /\ PlainCqe(q).op = Plain(q.op) /\ PlainCqe(q).res = q.res /\ PlainCqe(q).out = q.out
      /\ PlainCqe(q) \in PlainCq
  BY <1>q, PlainCqeFields, PlainSeen
<1>2. /\ Plain(q.op).type = q.op.type /\ Plain(q.op).conn = q.op.conn
      /\ q.op.type # "PROV_BUF" => Plain(q.op).fd = q.op.fd
      /\ q.op.type # "READ" => Plain(q.op).bid = q.op.bid
  BY <1>q, PlainFields
<1>. QED BY <1>1, <1>2 DEF Reaping, Callbacks!Reaping


LEMMA PlainExit ==
  ASSUME NEW reason, Exit(reason)
  PROVE  Callbacks!Exit(reason)
BY DEF Exit, Callbacks!Exit, ringVars, Callbacks!ringVars, PlainSq, PlainInflight,
       PlainCq, dataVars, Callbacks!dataVars

LEMMA PlainGivesUp ==
  ASSUME CoInv, NEW q \in cq, NEW type, NEW n, GivesUp(q, type, n), NEW t, Len(t) = n
  PROVE  Callbacks!Answer(PlainCqe(q), t)
<1>1. ~Room(n) /\ Callbacks!Exit("nosqe")
  BY PlainExit DEF GivesUp, Ends
<1>2. Len(PlainSq) = Len(sq)
  BY PlainRing
<1>. QED BY <1>1, <1>2 DEF Room, Callbacks!Room, Callbacks!Answer

(* What the kernel and the loop do without a coroutine.                    *)
LEMMA PlainKernel ==
  ASSUME CoInv, KernelStep, \A c \in Client : ~SendFails(c)
  PROVE  Callbacks!Next
<1>. DEFINE Same == UNCHANGED <<group, open, backlog, proc, loop, shut, bufs, delivered, echoed>>
<1>1. CASE KernelConsumes
  <2>1. /\ proc = "up" /\ loop = "enter" /\ UNCHANGED <<echoVars, dataVars>>
        /\ ConsumeProvide \/ ConsumeProvideFails \/ ConsumeRequest
        /\ sq # <<>> /\ sq' = Tail(sq)
    BY <1>1 DEF KernelConsumes, ConsumeProvide, ConsumeProvideFails, ConsumeRequest
  <2>2. /\ PlainSq # <<>> /\ Head(PlainSq) = Plain(Head(sq)) /\ PlainSq' = Tail(PlainSq)
    BY <2>1, PlainTail
  <2>3. Head(sq) \in SqeType
    BY <2>1, TailFacts DEF CoInv, LendInv, TypeOK
  <2>4. /\ Plain(Head(sq)).type = Head(sq).type
        /\ Head(sq).type # "READ" => Plain(Head(sq)).bid = Head(sq).bid
    BY <2>3, PlainFields
  <2>5. CASE ConsumeProvide
    <3>1. /\ Head(sq).type = "PROV_BUF" /\ group' = group \union {Head(sq).bid}
          /\ Post(Head(sq), "ok", None) /\ UNCHANGED <<inflight, open, backlog>>
      BY <2>5 DEF ConsumeProvide
    <3>2. /\ PlainCq' = PlainCq \union {Cqe(Plain(Head(sq)), "ok", None)}
          /\ PlainInflight' = PlainInflight
      BY <2>3, <3>1, PlainPost DEF PlainInflight
    <3>3. Callbacks!ConsumeProvide
      BY <2>2, <2>4, <3>1, <3>2 DEF Callbacks!ConsumeProvide, Callbacks!Post, Callbacks!Cqe, Cqe
    <3>. QED BY <2>1, <3>3 DEF Callbacks!Next, Callbacks!KernelConsumes, Callbacks!echoVars,
                               Callbacks!dataVars, echoVars, dataVars
  <2>6. CASE ConsumeProvideFails
    <3>1. /\ Head(sq).type = "PROV_BUF" /\ "provide" \in Faults
          /\ Post(Head(sq), "err", None) /\ UNCHANGED <<inflight, group, open, backlog>>
      BY <2>6 DEF ConsumeProvideFails
    <3>2. /\ PlainCq' = PlainCq \union {Cqe(Plain(Head(sq)), "err", None)}
          /\ PlainInflight' = PlainInflight
      BY <2>3, <3>1, PlainPost DEF PlainInflight
    <3>3. Callbacks!ConsumeProvideFails
      BY <2>2, <2>4, <3>1, <3>2
         DEF Callbacks!ConsumeProvideFails, Callbacks!Post, Callbacks!Cqe, Cqe
    <3>. QED BY <2>1, <3>3 DEF Callbacks!Next, Callbacks!KernelConsumes, Callbacks!echoVars,
                               Callbacks!dataVars, echoVars, dataVars
  <2>7. CASE ConsumeRequest
    <3>1. /\ Head(sq).type # "PROV_BUF" /\ inflight' = inflight \union {Head(sq)}
          /\ UNCHANGED <<cq, group, open, backlog>>
      BY <2>7 DEF ConsumeRequest
    <3>2. /\ PlainInflight' = PlainInflight \union {Plain(Head(sq))} /\ PlainCq' = PlainCq
      BY <3>1 DEF PlainInflight, PlainCq
    <3>3. Callbacks!ConsumeRequest
      BY <2>2, <2>4, <3>1, <3>2 DEF Callbacks!ConsumeRequest
    <3>. QED BY <2>1, <3>3 DEF Callbacks!Next, Callbacks!KernelConsumes, Callbacks!echoVars,
                               Callbacks!dataVars, echoVars, dataVars
  <2>. QED BY <2>1, <2>5, <2>6, <2>7
<1>2. CASE AcceptFailed
  <2>1. PICK op : /\ op.type = "ACCEPT" /\ Complete(op, "err", None) /\ proc = "up"
                  /\ "accept" \in Faults \/ \A f \in Fd : open[f] # None
                  /\ UNCHANGED <<sq, group, open, backlog, echoVars, dataVars>>
    BY <1>2 DEF AcceptFailed, FailAccept
  <2>2. /\ op \in SqeType /\ Plain(op) \in PlainInflight
        /\ Callbacks!Complete(Plain(op), "err", None) /\ PlainSq' = PlainSq
    BY <2>1, PlainComplete
  <2>3. Plain(op).type = "ACCEPT"
    BY <2>1, <2>2, PlainFields
  <2>4. Callbacks!AcceptFailed
    BY <2>1, <2>2, <2>3 DEF Callbacks!AcceptFailed, Callbacks!FailAccept, Callbacks!echoVars,
                            Callbacks!dataVars, echoVars, dataVars
  <2>. QED BY <2>4 DEF Callbacks!Next
<1>3. ASSUME NEW c \in Client, Accepted(c) PROVE Callbacks!Accepted(c)
  <2>1. PICK op \in inflight, f \in Fd :
          /\ op.type = "ACCEPT" /\ c \in backlog /\ open[f] = None /\ proc = "up"
          /\ Complete(op, "ok", f)
          /\ open' = [open EXCEPT ![f] = c] /\ backlog' = backlog \ {c}
          /\ UNCHANGED <<sq, group, echoVars, dataVars>>
    BY <1>3 DEF Accepted, CompleteAccept
  <2>2. /\ op \in SqeType /\ Plain(op) \in PlainInflight
        /\ Callbacks!Complete(Plain(op), "ok", f) /\ PlainSq' = PlainSq
    BY <2>1, PlainComplete
  <2>3. Plain(op).type = "ACCEPT"
    BY <2>1, <2>2, PlainFields
  <2>4. Callbacks!CompleteAccept(c, f)
    BY <2>1, <2>2, <2>3 DEF Callbacks!CompleteAccept
  <2>. QED BY <2>1, <2>4 DEF Callbacks!Accepted, Callbacks!echoVars, Callbacks!dataVars,
                             echoVars, dataVars
<1>4. ASSUME NEW c \in Client, NEW b \in Bid, NEW r, CompleteRecv(c, b, r)
      PROVE  Callbacks!CompleteRecv(c, b, r)
  <2>1. PICK op : /\ op.type = "READ" /\ op.conn = c /\ b \in group /\ r \in RecvResults
                  /\ Complete(op, r, b) /\ group' = group \ {b}
                  /\ UNCHANGED <<sq, open, backlog>>
    BY <1>4 DEF CompleteRecv
  <2>2. /\ op \in SqeType /\ Plain(op) \in PlainInflight
        /\ Callbacks!Complete(Plain(op), r, b) /\ PlainSq' = PlainSq
    BY <2>1, PlainComplete
  <2>3. Plain(op).type = "READ" /\ Plain(op).conn = c
    BY <2>1, <2>2, PlainFields
  <2>. QED BY <2>1, <2>2, <2>3 DEF Callbacks!CompleteRecv, Callbacks!RecvResults, RecvResults
<1>5. ASSUME NEW c \in Client, Received(c) PROVE Callbacks!Received(c)
  BY <1>4, <1>5 DEF Received, Callbacks!Received, Callbacks!echoVars, echoVars
<1>6. ASSUME NEW c \in Client, ReceiveFailed(c) PROVE Callbacks!ReceiveFailed(c)
  <2>1. CASE StarveRecv(c)
    <3>1. PICK op : /\ op.type = "READ" /\ op.conn = c /\ group = {}
                    /\ Complete(op, "nobufs", None)
                    /\ UNCHANGED <<sq, group, open, backlog>>
      BY <2>1 DEF StarveRecv
    <3>2. /\ op \in SqeType /\ Plain(op) \in PlainInflight
          /\ Callbacks!Complete(Plain(op), "nobufs", None) /\ PlainSq' = PlainSq
      BY <3>1, PlainComplete
    <3>3. Plain(op).type = "READ" /\ Plain(op).conn = c
      BY <3>1, <3>2, PlainFields
    <3>4. Callbacks!StarveRecv(c)
      BY <3>1, <3>2, <3>3 DEF Callbacks!StarveRecv
    <3>. QED BY <1>6, <3>4 DEF ReceiveFailed, Callbacks!ReceiveFailed, Callbacks!echoVars,
                               Callbacks!dataVars, echoVars, dataVars
  <2>2. CASE ~StarveRecv(c)
    BY <1>4, <1>6, <2>2 DEF ReceiveFailed, Callbacks!ReceiveFailed, Callbacks!echoVars,
                            Callbacks!dataVars, echoVars, dataVars, Callbacks!RecvResults,
                            RecvResults
  <2>. QED BY <2>1, <2>2
<1>7. ASSUME NEW c \in Client, Sent(c) PROVE Callbacks!Sent(c)
  <2>1. PICK b \in Bid, r \in SendResults :
          /\ proc = "up" /\ CompleteSend(c, b, r)
          /\ echoed' = [echoed EXCEPT ![c] = Append(@, [msg |-> bufs[b], whole |-> r = "ok"])]
          /\ UNCHANGED <<echoVars, bufs, delivered>>
    BY <1>7 DEF Sent
  <2>2. PICK op : /\ op.type = "WRITE" /\ op.conn = c /\ op.bid = b
                  /\ Complete(op, r, None) /\ UNCHANGED <<sq, group, open, backlog>>
    BY <2>1 DEF CompleteSend
  <2>3. /\ op \in SqeType /\ Plain(op) \in PlainInflight
        /\ Callbacks!Complete(Plain(op), r, None) /\ PlainSq' = PlainSq
    BY <2>2, PlainComplete
  <2>4. Plain(op) = op
    BY <2>2, <2>3, PlainFields
  <2>5. Callbacks!CompleteSend(c, b, r)
    BY <2>1, <2>2, <2>3, <2>4 DEF Callbacks!CompleteSend, Callbacks!SendResults, SendResults
  <2>. QED BY <2>1, <2>5 DEF Callbacks!Sent, Callbacks!echoVars, echoVars,
                             Callbacks!SendResults, SendResults
<1>. QED BY <1>1, <1>2, <1>3, <1>5, <1>6, <1>7 DEF KernelStep, Callbacks!Next


(* What the callbacks fill in, with the fields that a Plain SQE has.       *)
LEMMA PlainFilled ==
  ASSUME NEW c \in Client, NEW f \in Fd, NEW b \in Bid
  PROVE  /\ Plain(Sqe("READ", f, None, c)) = Sqe("READ", f, None, c)
         /\ Plain(Sqe("READ", f, b, c)) = Sqe("READ", f, None, c)
         /\ Plain(Sqe("WRITE", f, b, c)) = Sqe("WRITE", f, b, c)
         /\ Plain(Sqe("PROV_BUF", f, b, c)) = Sqe("PROV_BUF", None, b, c)
BY DEF Plain, Sqe

LEMMA PlainAccept == Plain(add_accept) = add_accept
BY DEF Plain, add_accept, Sqe

LEMMA PlainAcceptFailed ==
  ASSUME CoInv, CoAcceptFailed
  PROVE  Callbacks!HandleAccept
<1>0. PICK q \in cq :
        Reaping(q, "ACCEPT") /\ q.res = "err" /\ Answer(q, <<add_accept>>)
  BY DEF CoAcceptFailed, Reaping
<1>1. /\ Callbacks!Reaping(PlainCqe(q), "ACCEPT") /\ PlainCqe(q) \in PlainCq
      /\ PlainCqe(q).res = "err"
  BY <1>0, PlainReaping
<1>a. PICK a \in SqeType : a = add_accept /\ a.type = "ACCEPT" /\ Plain(a) = a
  <2>1. add_accept \in SqeType /\ add_accept.type = "ACCEPT"
    BY DEF add_accept, Sqe, SqeType
  <2>. QED BY <2>1, PlainAccept
<1>. DEFINE s == <<a>>
<1>2. s \in Seq(SqeType) /\ DOMAIN s = {1} /\ s[1] = a /\ Len(s) = 1 /\ s = <<add_accept>>
  BY <1>a
<1>. HIDE DEF s
<1>3. \/ ~Room(1) /\ Exit("nosqe")
      \/ Room(1) /\ Answered(q, s) /\ shut' = Shuts(q)
  <2>1. CASE Room(1)
    <3>1. shut' = shut /\ Shuts(q) = shut /\ shut \subseteq Fd
      BY <1>0, <1>2, <2>1 DEF Answer, Shuts, Reaping, CoInv, LendInv, TypeOK
    <3>. QED BY <1>0, <1>2, <2>1, <3>1 DEF Answer, Answered
  <2>. QED BY <1>0, <1>2, <2>1 DEF Answer
<1>4. Callbacks!Answer(PlainCqe(q), s)
  BY <1>2, <1>3, <1>a, PlainAnswer
<1>5. \A d : Callbacks!AfterAccept(d, PlainCqe(q)) = s
  BY <1>1, <1>2 DEF Callbacks!AfterAccept, Callbacks!add_accept, Callbacks!Sqe, add_accept, Sqe
<1>. QED BY <1>1, <1>4, <1>5 DEF Callbacks!HandleAccept

LEMMA PlainStarts ==
  ASSUME CoInv, NEW q \in cq, q.res = "ok",
         \/ GivesUp(q, "ACCEPT", 2)
         \/ \E c \in Client, f \in Fd, s \in Seq(SqeType) : Starts(q, c, f, s)
  PROVE  Callbacks!HandleAccept
<1>0. /\ Callbacks!Reaping(PlainCqe(q), "ACCEPT") /\ PlainCqe(q) \in PlainCq
      /\ PlainCqe(q).res = "ok" /\ PlainCqe(q).out = q.out
  BY PlainReaping DEF GivesUp, Starts
<1>1. CASE GivesUp(q, "ACCEPT", 2)
  <2>. DEFINE t == Callbacks!AfterAccept(open[q.out], PlainCqe(q))
  <2>1. Len(t) = 2
    BY <1>0 DEF Callbacks!AfterAccept
  <2>2. Callbacks!Answer(PlainCqe(q), t)
    BY <1>1, <2>1, PlainGivesUp
  <2>. QED BY <1>0, <2>2 DEF Callbacks!HandleAccept
<1>2. ASSUME NEW c \in Client, NEW f \in Fd, NEW s \in Seq(SqeType), Starts(q, c, f, s)
      PROVE  Callbacks!HandleAccept
  <2>1. /\ q.op.type = "ACCEPT" /\ q.out = f /\ open[f] = c /\ Room(2) /\ Answered(q, s)
        /\ shut' = shut /\ s = <<Sqe("READ", f, None, c), add_accept>>
    BY <1>2 DEF Starts, Reaping
  <2>2. /\ Len(s) = 2 /\ DOMAIN s = {1, 2}
        /\ s[1] = Sqe("READ", f, None, c) /\ s[2] = add_accept
    BY <2>1
  <2>3. \A j \in DOMAIN s : s[j] = Plain(s[j])
    <3>1. Plain(s[1]) = s[1]
      <4>1. PICK b : b = Sqe("READ", f, None, c)
        OBVIOUS
      <4>2. Plain(b) = b
        BY <4>1 DEF Plain, Sqe
      <4>. QED BY <2>2, <4>1, <4>2
    <3>. QED BY <2>2, <3>1, PlainAccept
  <2>4. shut' = Shuts(q)
    BY <2>1 DEF Shuts
  <2>5. Callbacks!Answer(PlainCqe(q), s)
    BY <2>1, <2>2, <2>3, <2>4, PlainAnswer
  <2>6. Callbacks!AfterAccept(open[PlainCqe(q).out], PlainCqe(q)) = s
    BY <1>0, <2>1 DEF Callbacks!AfterAccept, Callbacks!add_accept, Callbacks!add_socket_read,
                      Callbacks!Sqe, add_accept, Sqe
  <2>. QED BY <1>0, <2>5, <2>6 DEF Callbacks!HandleAccept
<1>. QED BY <1>1, <1>2


(* The read that is echoed or ends the connection.  One that failed is not *)
(* the callbacks': they end the connection there.                          *)
LEMMA PlainRead ==
  ASSUME CoInv, NEW c \in Client, CoRead(c)
  PROVE  Callbacks!HandleRead(c) \/ GetsOverError(c)
<1>1. ASSUME NEW q \in cq, q.op.conn = c, GivesUp(q, "READ", 1)
      PROVE  Callbacks!HandleRead(c)
  <2>. DEFINE t == Callbacks!AfterRead(c, PlainCqe(q))
  <2>1. Len(t) = 1
    BY DEF Callbacks!AfterRead
  <2>2. Callbacks!Answer(PlainCqe(q), t)
    BY <1>1, <2>1, PlainGivesUp
  <2>3. /\ Callbacks!Reaping(PlainCqe(q), "READ") /\ PlainCqe(q) \in PlainCq
        /\ PlainCqe(q).op.conn = c
    BY <1>1, PlainReaping DEF GivesUp
  <2>. QED BY <2>2, <2>3 DEF Callbacks!HandleRead
<1>2. ASSUME NEW q \in cq, NEW f \in Fd, NEW b \in Bid, NEW s \in Seq(SqeType),
             Echoes(q, c, f, b, s), q.res = "ok"
      PROVE  Callbacks!HandleRead(c)
  <2>1. /\ Reaping(q, "READ") /\ q.op.type = "READ" /\ q.op.conn = c /\ q.op.fd = f /\ q.out = b
        /\ Room(1) /\ Answered(q, s) /\ shut' = shut /\ s = <<Sqe("WRITE", f, b, c)>>
    BY <1>2 DEF Echoes, Transfer, Reaping
  <2>2. /\ Callbacks!Reaping(PlainCqe(q), "READ") /\ PlainCqe(q) \in PlainCq
        /\ PlainCqe(q).op.conn = c /\ PlainCqe(q).op.fd = f
        /\ PlainCqe(q).res = "ok" /\ PlainCqe(q).out = b
    BY <1>2, <2>1, PlainReaping
  <2>3. /\ Len(s) = 1 /\ DOMAIN s = {1} /\ s[1] = Sqe("WRITE", f, b, c)
    BY <2>1
  <2>4. \A j \in DOMAIN s : s[j] = Plain(s[j])
    BY <2>3, PlainFilled
  <2>5. shut' = Shuts(q)
    BY <1>2, <2>1 DEF Shuts
  <2>6. Callbacks!Answer(PlainCqe(q), s)
    BY <2>1, <2>3, <2>4, <2>5, PlainAnswer
  <2>7. Callbacks!AfterRead(c, PlainCqe(q)) = s
    BY <2>1, <2>2 DEF Callbacks!AfterRead, Callbacks!add_socket_write, Callbacks!Sqe, Sqe
  <2>. QED BY <2>2, <2>6, <2>7 DEF Callbacks!HandleRead
<1>3. ASSUME NEW q \in cq, NEW f \in Fd, NEW b \in Bid, NEW s \in Seq(SqeType),
             Echoes(q, c, f, b, s), q.res = "err"
      PROVE  GetsOverError(c)
  <2>1. res' = [res EXCEPT ![c] = "err"] /\ c \in DOMAIN res
    BY <1>3 DEF Echoes, CoInv, CoroutineTypeOK
  <2>. QED BY <2>1 DEF GetsOverError
<1>4. ASSUME NEW q \in cq, NEW f \in Fd, NEW b \in Bid, NEW s \in Seq(SqeType),
             Finishes(q, c, f, b, s)
      PROVE  Callbacks!HandleRead(c)
  <2>1. /\ Reaping(q, "READ") /\ q.op.type = "READ" /\ q.op.conn = c /\ q.op.fd = f /\ q.out = b
        /\ q.res = "eof"
        /\ Room(1) /\ Answered(q, s) /\ shut' = shut \union {f}
        /\ s = <<Sqe("PROV_BUF", f, b, c)>>
    BY <1>4 DEF Finishes, Transfer, Reaping
  <2>2. /\ Callbacks!Reaping(PlainCqe(q), "READ") /\ PlainCqe(q) \in PlainCq
        /\ PlainCqe(q).op.conn = c /\ PlainCqe(q).res = "eof" /\ PlainCqe(q).out = b
    BY <2>1, PlainReaping
  <2>3. /\ Len(s) = 1 /\ DOMAIN s = {1} /\ s[1] = Sqe("PROV_BUF", f, b, c)
    BY <2>1
  <2>t. PICK t \in Seq(SqeType) :
          /\ t = <<Sqe("PROV_BUF", None, b, c)>> /\ Len(t) = 1 /\ DOMAIN t = {1}
          /\ t[1] = Plain(s[1])
    <3>1. Sqe("PROV_BUF", None, b, c) \in SqeType
      BY DEF Sqe, SqeType
    <3>2. Plain(s[1]) = Sqe("PROV_BUF", None, b, c)
      BY <2>3, PlainFilled
    <3>. DEFINE t0 == <<Sqe("PROV_BUF", None, b, c)>>
    <3>3. t0 \in Seq(SqeType)
      BY <3>1
    <3>4. Len(t0) = 1 /\ DOMAIN t0 = {1} /\ t0[1] = Sqe("PROV_BUF", None, b, c)
      OBVIOUS
    <3>. QED BY <3>2, <3>3, <3>4
  <2>5. shut' = Shuts(q)
    BY <2>1 DEF Shuts
  <2>6. Callbacks!Answer(PlainCqe(q), t)
    BY <2>1, <2>3, <2>t, <2>5, PlainAnswer
  <2>7. Callbacks!AfterRead(c, PlainCqe(q)) = t
    BY <2>2, <2>t DEF Callbacks!AfterRead, Callbacks!add_provide_buf, Callbacks!Sqe, Sqe
  <2>. QED BY <2>2, <2>6, <2>7 DEF Callbacks!HandleRead
<1>. QED BY <1>1, <1>2, <1>3, <1>4, CoReadIs DEF Echoes

LEMMA PlainWrite ==
  ASSUME CoInv, NEW c \in Client, CoWrite(c)
  PROVE  Callbacks!HandleWrite(c)
<1>1. ASSUME NEW q \in cq, q.op.conn = c, GivesUp(q, "WRITE", 2)
      PROVE  Callbacks!HandleWrite(c)
  <2>. DEFINE t == Callbacks!AfterWrite(c, PlainCqe(q))
  <2>1. Len(t) = 2
    BY DEF Callbacks!AfterWrite
  <2>2. Callbacks!Answer(PlainCqe(q), t)
    BY <1>1, <2>1, PlainGivesUp
  <2>3. /\ Callbacks!Reaping(PlainCqe(q), "WRITE") /\ PlainCqe(q) \in PlainCq
        /\ PlainCqe(q).op.conn = c
    BY <1>1, PlainReaping DEF GivesUp
  <2>. QED BY <2>2, <2>3 DEF Callbacks!HandleWrite
<1>2. ASSUME NEW q \in cq, NEW f \in Fd, NEW b \in Bid, NEW s \in Seq(SqeType),
             ReadsOn(q, c, f, b, s)
      PROVE  Callbacks!HandleWrite(c)
  <2>1. /\ Reaping(q, "WRITE") /\ q.op.type = "WRITE" /\ q.op.conn = c /\ q.op.fd = f
        /\ q.op.bid = b
        /\ Room(2) /\ Answered(q, s) /\ shut' = shut
        /\ s = <<Sqe("PROV_BUF", f, b, c), Sqe("READ", f, b, c)>>
    BY <1>2 DEF ReadsOn, Transfer, Reaping
  <2>2. /\ Callbacks!Reaping(PlainCqe(q), "WRITE") /\ PlainCqe(q) \in PlainCq
        /\ PlainCqe(q).op.conn = c /\ PlainCqe(q).op.fd = f /\ PlainCqe(q).op.bid = b
    BY <2>1, PlainReaping
  <2>3. /\ Len(s) = 2 /\ DOMAIN s = {1, 2}
        /\ s[1] = Sqe("PROV_BUF", f, b, c) /\ s[2] = Sqe("READ", f, b, c)
    BY <2>1
  <2>t. PICK t \in Seq(SqeType) :
          /\ t = <<Sqe("PROV_BUF", None, b, c), Sqe("READ", f, None, c)>>
          /\ Len(t) = 2 /\ DOMAIN t = {1, 2} /\ t[1] = Plain(s[1]) /\ t[2] = Plain(s[2])
    <3>1. Sqe("PROV_BUF", None, b, c) \in SqeType /\ Sqe("READ", f, None, c) \in SqeType
      BY DEF Sqe, SqeType
    <3>2. /\ Plain(s[1]) = Sqe("PROV_BUF", None, b, c)
          /\ Plain(s[2]) = Sqe("READ", f, None, c)
      BY <2>3, PlainFilled
    <3>. DEFINE t0 == <<Sqe("PROV_BUF", None, b, c), Sqe("READ", f, None, c)>>
    <3>3. t0 \in Seq(SqeType)
      BY <3>1
    <3>4. /\ Len(t0) = 2 /\ DOMAIN t0 = {1, 2}
          /\ t0[1] = Sqe("PROV_BUF", None, b, c) /\ t0[2] = Sqe("READ", f, None, c)
      OBVIOUS
    <3>. QED BY <3>2, <3>3, <3>4
  <2>5. shut' = Shuts(q)
    BY <2>1 DEF Shuts
  <2>6. Callbacks!Answer(PlainCqe(q), t)
    <3>1. \A j \in DOMAIN s : t[j] = Plain(s[j])
      BY <2>3, <2>t
    <3>2. DOMAIN t = DOMAIN s /\ Len(t) = Len(s)
      BY <2>3, <2>t
    <3>3. Room(Len(s)) /\ Answered(q, s)
      BY <2>1, <2>3
    <3>. QED BY <2>5, <3>1, <3>2, <3>3, PlainAnswer
  <2>7. Callbacks!AfterWrite(c, PlainCqe(q)) = t
    BY <2>2, <2>t DEF Callbacks!AfterWrite, Callbacks!add_provide_buf,
                      Callbacks!add_socket_read, Callbacks!Sqe, Sqe
  <2>. QED BY <2>2, <2>6, <2>7 DEF Callbacks!HandleWrite
<1>. QED BY <1>1, <1>2, CoWriteIs

LEMMA PlainUnresumed ==
  ASSUME CoInv, Unresumed
  PROVE  Callbacks!Next \/ \E c \in Client : GetsOverError(c)
<1>1. CASE Enter
  <2>1. Callbacks!Enter
    BY <1>1, PlainRing DEF Enter, Callbacks!Enter, ringVars, Callbacks!ringVars, PlainSq,
       PlainInflight, PlainCq, dataVars, Callbacks!dataVars
  <2>. QED BY <2>1 DEF Callbacks!Next
<1>2. CASE Return
  <2>1. Callbacks!Return
    BY <1>2, PlainRing DEF Return, Callbacks!Return, ringVars, Callbacks!ringVars, PlainSq,
       PlainInflight, PlainCq, dataVars, Callbacks!dataVars
  <2>. QED BY <2>1 DEF Callbacks!Next
<1>3. ASSUME NEW c \in Client, SendFails(c) PROVE GetsOverError(c)
  BY <1>3 DEF GetsOverError, SendFails, Broken, Unresumed, coVars
<1>4. CASE KernelStep
  BY <1>3, <1>4, PlainKernel
<1>5. CASE OutOfBuffers
  <2>1. PICK q \in cq : proc = "up" /\ loop = "reap" /\ q.res = "nobufs" /\ Exit("enobufs")
    BY <1>5 DEF OutOfBuffers
  <2>2. PlainCqe(q) \in PlainCq /\ PlainCqe(q).res = "nobufs"
    BY <2>1, PlainSeen, PlainCqeFields DEF CoInv, LendInv, TypeOK, RingTypeOK
  <2>. QED BY <2>1, <2>2, PlainExit DEF Callbacks!Next, Callbacks!OutOfBuffers
<1>6. CASE HandleProvBuf
  <2>1. PICK q \in cq :
          /\ Reaping(q, "PROV_BUF")
          /\ IF q.res = "err" THEN Exit("eprovide") ELSE Answer(q, <<>>)
    BY <1>6 DEF HandleProvBuf, Reaping
  <2>2. /\ Callbacks!Reaping(PlainCqe(q), "PROV_BUF") /\ PlainCqe(q) \in PlainCq
        /\ PlainCqe(q).res = q.res
    BY <2>1, PlainReaping
  <2>3. CASE q.res = "err"
    BY <2>1, <2>2, <2>3, PlainExit DEF Callbacks!Next, Callbacks!HandleProvBuf
  <2>4. CASE q.res # "err"
    <3>. DEFINE s == <<>>
    <3>1. s \in Seq(SqeType) /\ Len(s) = 0 /\ DOMAIN s = {} /\ s = <<>>
      OBVIOUS
    <3>. HIDE DEF s
    <3>2. Answer(q, s)
      BY <2>1, <2>4, <3>1
    <3>3. \/ ~Room(Len(s)) /\ Exit("nosqe")
          \/ Room(Len(s)) /\ Answered(q, s) /\ shut' = Shuts(q)
      <4>1. q.op.type = "PROV_BUF" /\ shut \subseteq Fd
        BY <2>1 DEF Reaping, CoInv, LendInv, TypeOK
      <4>. QED BY <3>1, <3>2, <4>1 DEF Answer, Answered, Shuts
    <3>4. Callbacks!Answer(PlainCqe(q), s)
      BY <3>1, <3>3, PlainAnswer
    <3>. QED BY <2>2, <2>4, <3>1, <3>4 DEF Callbacks!Next, Callbacks!HandleProvBuf
  <2>. QED BY <2>3, <2>4
<1>. QED BY <1>1, <1>2, <1>4, <1>5, <1>6 DEF Unresumed, KernelStep

(* Every step of the coroutine server is one of the callback server, with  *)
(* the same SQEs in the same order, but those by which it gets over a read *)
(* that failed.                                                            *)
THEOREM SameAsCallbacksHolds == CoSpec => SameAsCallbacks
<1>1. CoInit => Callbacks!Init
  <2>. SUFFICES ASSUME CoInit PROVE Callbacks!Init
    OBVIOUS
  <2>1. sq = <<add_accept>> /\ inflight = {} /\ cq = {}
    BY DEF CoInit, Init
  <2>2. PlainSq = <<add_accept>>
    <3>1. PICK a : a = add_accept /\ Plain(a) = a /\ sq = <<a>>
      BY <2>1, PlainAccept
    <3>. QED BY <3>1 DEF PlainSq
  <2>3. PlainInflight = {} /\ PlainCq = {}
    BY <2>1 DEF PlainInflight, PlainCq
  <2>. QED BY <2>2, <2>3 DEF CoInit, Init, Callbacks!Init, Callbacks!add_accept, add_accept,
                             Callbacks!Sqe, Sqe
<1>2. CoInv /\ [CoNext]_allVars =>
        [Callbacks!Next \/ \E c \in Client : GetsOverError(c)]_(Callbacks!vars)
  <2>. SUFFICES ASSUME CoInv, [CoNext]_allVars
                PROVE  [Callbacks!Next \/ \E c \in Client : GetsOverError(c)]_(Callbacks!vars)
    OBVIOUS
  <2>1. CASE UNCHANGED allVars
    BY <2>1 DEF allVars, vars, ringVars, echoVars, dataVars, Callbacks!vars,
       Callbacks!ringVars, Callbacks!echoVars, Callbacks!dataVars, PlainSq, PlainInflight,
       PlainCq
  <2>2. CASE CoAccept
    <3>1. Callbacks!HandleAccept
      BY <2>2, CoAcceptIs, PlainStarts DEF Starts
    <3>. QED BY <3>1 DEF Callbacks!Next
  <2>3. CASE CoAcceptFailed
    BY <2>3, PlainAcceptFailed DEF Callbacks!Next
  <2>4. ASSUME NEW c \in Client, CoRead(c) \/ CoWrite(c)
        PROVE  Callbacks!Next \/ GetsOverError(c)
    BY <2>4, PlainRead, PlainWrite DEF Callbacks!Next
  <2>. QED BY <2>1, <2>2, <2>3, <2>4, PlainUnresumed DEF CoNext
<1>. QED BY <1>1, <1>2, CoInvariance, PTL DEF CoSpec, SameAsCallbacks


--------------------------------------------------------------------------------
(* The limits: they are the callback server's, since a coroutine gives up  *)
(* where the callback would have, and nothing else fills the queue or      *)
(* starves a read.                                                         *)
LEMMA GivingUpIsHandled ==
  ASSUME CoInv, NEW q \in cq,
         \/ q.res = "ok" /\ GivesUp(q, "ACCEPT", 2)
         \/ \E c \in Client : q.op.conn = c /\ (GivesUp(q, "READ", 1) \/ GivesUp(q, "WRITE", 2))
  PROVE  Next
<1>1. ASSUME NEW s, ~Room(Len(s)), Exit("nosqe") PROVE Answer(q, s)
  BY <1>1 DEF Answer
<1>2. CASE q.res = "ok" /\ GivesUp(q, "ACCEPT", 2)
  <2>. DEFINE s == AfterAccept(open[q.out], q)
  <2>1. Len(s) = 2
    BY <1>2 DEF AfterAccept
  <2>. HIDE DEF s
  <2>2. Answer(q, s)
    BY <1>1, <1>2, <2>1 DEF GivesUp, Ends
  <2>. QED BY <1>2, <2>2 DEF s, GivesUp, HandleAccept, Next
<1>3. ASSUME NEW c \in Client, q.op.conn = c, GivesUp(q, "READ", 1) PROVE Next
  <2>. DEFINE s == AfterRead(c, q)
  <2>1. Len(s) = 1
    BY DEF AfterRead
  <2>. HIDE DEF s
  <2>2. Answer(q, s)
    BY <1>1, <1>3, <2>1 DEF GivesUp, Ends
  <2>. QED BY <1>3, <2>2 DEF s, GivesUp, HandleRead, Next
<1>4. ASSUME NEW c \in Client, q.op.conn = c, GivesUp(q, "WRITE", 2) PROVE Next
  <2>. DEFINE s == AfterWrite(c, q)
  <2>1. Len(s) = 2
    BY DEF AfterWrite
  <2>. HIDE DEF s
  <2>2. Answer(q, s)
    BY <1>1, <1>4, <2>1 DEF GivesUp, Ends
  <2>. QED BY <1>4, <2>2 DEF s, GivesUp, HandleWrite, Next
<1>. QED BY <1>2, <1>3, <1>4

(* Whatever the coroutine server does, either the callback server does it  *)
(* too, or the process goes on and no receive starves.                     *)
GoesOn ==
  /\ proc' = proc
  /\ \A q \in cq : q.op.type = "PROV_BUF" => q \in cq'
  /\ \A q \in cq' : q.res = "nobufs" => q \in cq

LEMMA SameOrGoesOn ==
  ASSUME CoInv, [CoNext]_allVars
  PROVE  [Next]_vars \/ GoesOn
<1>1. CASE UNCHANGED allVars
  BY <1>1 DEF allVars
<1>2. CASE Unresumed
  <2>1. ASSUME NEW c \in Client, SendFails(c) PROVE GoesOn
    <3>1. PICK op : Complete(op, "err", None) /\ UNCHANGED echoVars
      BY <2>1 DEF SendFails
    <3>2. PICK r : cq' = cq \union {r} /\ r.res = "err"
      BY <3>1, Posted DEF Complete
    <3>. QED BY <3>1, <3>2 DEF GoesOn, echoVars
  <2>. QED BY <1>2, <2>1 DEF Unresumed, Next
<1>3. CASE CoAcceptFailed
  <2>1. PICK q \in cq : /\ Reaping(q, "ACCEPT") /\ q.res = "err"
                        /\ Answer(q, <<add_accept>>)
    BY <1>3 DEF CoAcceptFailed, Reaping
  <2>2. \A d : AfterAccept(d, q) = <<add_accept>>
    BY <2>1 DEF AfterAccept
  <2>3. Answer(q, AfterAccept(IF q.res = "ok" THEN open[q.out] ELSE None, q))
    BY <2>1, <2>2
  <2>. QED BY <2>1, <2>3 DEF HandleAccept, Next
<1>4. ASSUME NEW q, NEW s, Answered(q, s), q.op.type # "PROV_BUF" PROVE GoesOn
  BY <1>4 DEF Answered, GoesOn
<1>5. CASE CoAccept
  BY <1>4, <1>5, CoAcceptIs, GivingUpIsHandled DEF Starts, Reaping
<1>6. ASSUME NEW c \in Client, CoRead(c) PROVE [Next]_vars \/ GoesOn
  <2>1. ASSUME NEW q \in cq, q.op.conn = c, GivesUp(q, "READ", 1) PROVE Next
    BY <2>1, GivingUpIsHandled
  <2>2. ASSUME NEW q, NEW f, NEW b, NEW s, Echoes(q, c, f, b, s) \/ Finishes(q, c, f, b, s)
        PROVE  GoesOn
    BY <1>4, <2>2 DEF Echoes, Finishes, Transfer, Reaping
  <2>. QED BY <1>6, <2>1, <2>2, CoReadIs
<1>7. ASSUME NEW c \in Client, CoWrite(c) PROVE [Next]_vars \/ GoesOn
  BY <1>4, <1>7, CoWriteIs, GivingUpIsHandled DEF ReadsOn, Transfer, Reaping
<1>. QED BY <1>1, <1>2, <1>3, <1>5, <1>6, <1>7 DEF CoNext

LEMMA CoLimits ==
  ASSUME CoInv, SqNeverFull, StarvedInv, [CoNext]_allVars
  PROVE  SqNeverFull' /\ StarvedInv'
<1>1. CASE GoesOn
  BY <1>1 DEF GoesOn, SqNeverFull, StarvedInv, NoBufferExhaustion, BufferLost
<1>2. CASE [Next]_vars
  BY <1>2, RoomStep, StarvedStep DEF CoInv
<1>. QED BY <1>1, <1>2, SameOrGoesOn

(* Two SQEs for each descriptor and one more suffice the coroutine server, *)
(* as they do the callback server.                                         *)
THEOREM CoSqNeverFullHolds == CoSpec => []SqNeverFull
<1>1. CoInit => SqNeverFull /\ StarvedInv
  BY DEF CoInit, Init, SqNeverFull, StarvedInv, NoBufferExhaustion
<1>2. CoInv /\ SqNeverFull /\ StarvedInv /\ [CoNext]_allVars => SqNeverFull' /\ StarvedInv'
  BY CoLimits
<1>. QED BY <1>1, <1>2, CoInvariance, PTL DEF CoSpec

(* And with as many buffers as descriptors none of its reads ends for lack *)
(* of a buffer, unless one was lost to a provide that failed.              *)
THEOREM CoNoBufferExhaustionHolds == CoSpec => []NoBufferExhaustion
<1>1. CoInit => SqNeverFull /\ StarvedInv
  BY DEF CoInit, Init, SqNeverFull, StarvedInv, NoBufferExhaustion
<1>2. CoInv /\ SqNeverFull /\ StarvedInv /\ [CoNext]_allVars => SqNeverFull' /\ StarvedInv'
  BY CoLimits
<1>3. StarvedInv => NoBufferExhaustion
  BY DEF StarvedInv
<1>. QED BY <1>1, <1>2, <1>3, CoInvariance, PTL DEF CoSpec

================================================================================
