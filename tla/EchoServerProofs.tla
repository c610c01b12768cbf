---------------------------- MODULE EchoServerProofs ----------------------------
(***************************************************************************)
(* Proofs about EchoServer, for any numbers of clients, descriptors,       *)
(* buffers, SQEs and messages and any set of faults.                       *)
(***************************************************************************)
EXTENDS EchoServerInv, RingProofs

--------------------------------------------------------------------------------
LEMMA InitCoreInv == Init => CoreInv
<1>. SUFFICES ASSUME Init PROVE CoreInv
  OBVIOUS
<1>. USE RingAssumption, EchoAssumption DEF Init, add_accept, Sqe
<1>0. DOMAIN sq = {1} /\ sq[1] = add_accept /\ None \notin Client
  OBVIOUS
<1>1. TypeOK
  <2>1. add_accept \in SqeType
    BY DEF SqeType
  <2>2. sq \in Seq(SqeType)
    BY <2>1
  <2>. QED BY <2>2 DEF TypeOK, RingTypeOK
<1>2. ShapeInv /\ ProvideInv
  BY <1>0 DEF ShapeInv, Shaped, ProvideInv
<1>3. AcceptInv
  BY <1>0 DEF AcceptInv, One, Some, AtMostOne, Accepts, SqeType
<1>4. DescriptorInv
  BY <1>0 DEF DescriptorInv
<1>5. WakeupInv
  BY <1>0 DEF WakeupInv, Some, AtMostOne, Wakeups, Transfers
<1>6. BufferInv
  BY <1>0 DEF BufferInv, InSomeHand, HandsApart, Selected, Providing, Failed, Some,
              AtMostOne, Writes
<1>7. EchoInv
  BY <1>0 DEF EchoInv, EchoesInOrder
<1>. QED BY <1>1, <1>2, <1>3, <1>4, <1>5, <1>6, <1>7 DEF CoreInv, LendInv

(* Steps that only turn the loop or end the process.                       *)
LEMMA RingStill ==
  ASSUME LendInv, UNCHANGED <<ringVars, shut, dataVars>>,
         proc' \in {"up"} \union Ended, loop' \in {"reap", "enter"}
  PROVE  LendInv' /\ (EchoInv => EchoInv')
<1>. USE DEF LendInv, ringVars, dataVars
<1>1. TypeOK'
  BY DEF TypeOK, RingTypeOK
<1>2. ShapeInv' /\ DescriptorInv'
  BY DEF ShapeInv, Shaped, DescriptorInv
<1>3. WakeupInv' /\ AcceptInv'
  BY DEF WakeupInv, Fresh, AcceptInv, One, Some, AtMostOne
<1>4. ProvideInv'
  BY DEF ProvideInv
<1>5. BufferInv'
  BY DEF BufferInv, InSomeHand, HandsApart, Providing, Some, AtMostOne
<1>6. ASSUME EchoInv PROVE EchoInv'
  BY <1>6 DEF EchoInv, Held, Level, EchoesInOrder
<1>. QED BY <1>1, <1>2, <1>3, <1>4, <1>5, <1>6

--------------------------------------------------------------------------------
(* The kernel consumes the submission queue.                               *)
LEMMA ConsumeRequestStep ==
  ASSUME LendInv, ConsumeRequest, UNCHANGED <<echoVars, dataVars>>
  PROVE  LendInv' /\ (EchoInv => EchoInv')
<1>. USE DEF LendInv, ConsumeRequest, echoVars, dataVars
<1>. RingTypeOK
  BY DEF TypeOK
<1>t. /\ Len(sq) \in Nat \ {0} /\ DOMAIN sq = 1 .. Len(sq)
      /\ Head(sq) = sq[1] /\ 1 \in DOMAIN sq /\ Head(sq) \in SqeType
      /\ Tail(sq) \in Seq(SqeType)
      /\ DOMAIN Tail(sq) = 1 .. (Len(sq) - 1)
      /\ \A i \in DOMAIN Tail(sq) : i + 1 \in DOMAIN sq /\ Tail(sq)[i] = sq[i + 1]
      /\ \A j \in DOMAIN sq : j = 1 \/ (j - 1 \in DOMAIN Tail(sq) /\ Tail(sq)[j - 1] = sq[j])
  BY TailFacts
<1>e. ASSUME NEW E PROVE (AtMostOne(E) => AtMostOne(E)') /\ (Some(E)' <=> Some(E))
  BY ConsumeCounts
<1>1. TypeOK'
  BY <1>t DEF TypeOK, RingTypeOK
<1>2. ShapeInv' /\ DescriptorInv'
  BY <1>t DEF ShapeInv, Shaped, DescriptorInv
<1>3. AcceptInv'
  BY <1>e DEF AcceptInv, One
<1>4. WakeupInv'
  <2>1. \A c : Fresh(c)' <=> Fresh(c)
    BY DEF Fresh
  <2>2. \A i \in DOMAIN sq' : \E j \in DOMAIN sq : sq'[i] = sq[j]
    BY <1>t
  <2>. QED BY <1>e, <2>1, <2>2 DEF WakeupInv
<1>5. ProvideInv'
  <2>. SUFFICES ASSUME NEW i \in DOMAIN sq', sq'[i].type = "PROV_BUF"
                PROVE  /\ \A e \in inflight' : e \in Transfers => e.conn # sq'[i].conn
                       /\ \A q \in cq' : q.op \in Transfers => q.op.conn # sq'[i].conn
                       /\ \A j \in DOMAIN sq' :
                            sq'[j].type # "ACCEPT" /\ sq'[j].conn = sq'[i].conn =>
                              j = i \/ (j > i /\ sq'[j].type = "READ")
    BY DEF ProvideInv
  <2>1. i + 1 \in DOMAIN sq /\ sq'[i] = sq[i + 1] /\ i \in Nat \ {0}
    BY <1>t
  <2>2. Head(sq) \in Transfers => Head(sq).conn # sq'[i].conn
    BY <1>t, <2>1 DEF ProvideInv, Transfers
  <2>3. ASSUME NEW j \in DOMAIN sq', sq'[j].type # "ACCEPT", sq'[j].conn = sq'[i].conn
        PROVE  j = i \/ (j > i /\ sq'[j].type = "READ")
    <3>1. j + 1 \in DOMAIN sq /\ sq'[j] = sq[j + 1] /\ j \in Nat
      BY <1>t
    <3>2. j + 1 = i + 1 \/ (j + 1 > i + 1 /\ sq[j + 1].type = "READ")
      BY <2>1, <2>3, <3>1 DEF ProvideInv
    <3>. QED BY <2>1, <3>1, <3>2
  <2>. QED BY <2>1, <2>2, <2>3 DEF ProvideInv
<1>6. BufferInv'
  <2>. SUFFICES ASSUME NEW b \in Bid PROVE InSomeHand(b)' /\ HandsApart(b)'
    BY DEF BufferInv
  <2>1. InSomeHand(b) /\ HandsApart(b)
    BY DEF BufferInv
  <2>e. (AtMostOne(Writes(b)) => AtMostOne(Writes(b))') /\ (Some(Writes(b))' <=> Some(Writes(b)))
    BY <1>e
  <2>2. InSomeHand(b)'
    BY <1>t, <2>1, <2>e DEF InSomeHand, Providing
  <2>3. HandsApart(b)'
    BY <1>t, <2>1, <2>e DEF HandsApart, Providing
  <2>. QED BY <2>2, <2>3
<1>7. ASSUME EchoInv PROVE EchoInv'
  <2>. USE <1>7
  <2>1. \A i \in DOMAIN sq' : \E j \in DOMAIN sq : sq'[i] = sq[j]
    BY <1>t
  <2>2. \A e \in inflight' : e \in inflight \/ \E j \in DOMAIN sq : e = sq[j]
    BY <1>t
  <2>3. (\A c, b : Held(c, b)' <=> Held(c, b)) /\ \A c : Level(c)' <=> Level(c)
    BY DEF Held, Level
  <2>4. EchoesInOrder'
    BY DEF EchoInv, EchoesInOrder
  <2>. HIDE DEF ConsumeRequest
  <2>5. cq' = cq
    BY DEF ConsumeRequest
  <2>. QED BY <2>1, <2>2, <2>3, <2>4, <2>5 DEF EchoInv
<1>. QED BY <1>1, <1>2, <1>3, <1>4, <1>5, <1>6, <1>7

(* A buffer is provided, or that fails: the head of the queue becomes a    *)
(* completion.                                                             *)
LEMMA ConsumeProvideStep ==
  ASSUME LendInv, ConsumeProvide \/ ConsumeProvideFails, UNCHANGED <<echoVars, dataVars>>
  PROVE  LendInv' /\ (EchoInv => EchoInv')
<1>. USE DEF LendInv, echoVars, dataVars
<1>. RingTypeOK
  BY DEF TypeOK
<1>0. /\ sq # <<>> /\ Head(sq).type = "PROV_BUF" /\ sq' = Tail(sq)
      /\ UNCHANGED <<inflight, open, backlog>>
  BY DEF ConsumeProvide, ConsumeProvideFails
<1>t. /\ Len(sq) \in Nat \ {0} /\ DOMAIN sq = 1 .. Len(sq)
      /\ Head(sq) = sq[1] /\ 1 \in DOMAIN sq /\ Head(sq) \in SqeType
      /\ Tail(sq) \in Seq(SqeType)
      /\ DOMAIN Tail(sq) = 1 .. (Len(sq) - 1)
      /\ \A i \in DOMAIN Tail(sq) : i + 1 \in DOMAIN sq /\ Tail(sq)[i] = sq[i + 1]
      /\ \A j \in DOMAIN sq : j = 1 \/ (j - 1 \in DOMAIN Tail(sq) /\ Tail(sq)[j - 1] = sq[j])
  BY <1>0, TailFacts
<1>h. Head(sq).bid \in Bid /\ Head(sq).conn \in Client /\ None \notin Bid /\ None \notin Fd
  BY <1>0, <1>t, RingAssumption DEF ShapeInv, Shaped
<1>r. PICK r : /\ cq' = cq \union {r} /\ r.op = Head(sq) /\ r \in CqeType
               /\ \/ r.res = "ok" /\ group' = group \union {Head(sq).bid}
                  \/ r.res = "err" /\ group' = group
  <2>1. CASE ConsumeProvide
    <3>. DEFINE r == [op |-> Head(sq), res |-> "ok", out |-> None]
    <3>1. /\ cq' = cq \union {r} /\ r.op = Head(sq) /\ r \in CqeType
          /\ r.res = "ok" /\ group' = group \union {Head(sq).bid}
      BY <1>t, <2>1 DEF ConsumeProvide, Post, Cqe, CqeType
    <3>. QED BY <3>1
  <2>2. CASE ConsumeProvideFails
    <3>. DEFINE r == [op |-> Head(sq), res |-> "err", out |-> None]
    <3>1. /\ cq' = cq \union {r} /\ r.op = Head(sq) /\ r \in CqeType
          /\ r.res = "err" /\ group' = group
      BY <1>t, <2>2 DEF ConsumeProvideFails, Post, Cqe, CqeType
    <3>. QED BY <3>1
  <2>. QED BY <2>1, <2>2
<1>e. ASSUME NEW E, Head(sq) \notin E
      PROVE (AtMostOne(E) => AtMostOne(E)') /\ (Some(E)' <=> Some(E))
  BY <1>0, <1>e, <1>r, ProvideCounts
<1>i. \A i \in DOMAIN sq' : \E j \in DOMAIN sq : sq'[i] = sq[j]
  BY <1>0, <1>t
<1>1. TypeOK'
  BY <1>0, <1>t, <1>h, <1>r DEF TypeOK, RingTypeOK
<1>2. ShapeInv' /\ DescriptorInv'
  BY <1>0, <1>t, <1>r DEF ShapeInv, Shaped, DescriptorInv
<1>3. AcceptInv'
  BY <1>0, <1>e DEF AcceptInv, One, Accepts
<1>4. WakeupInv'
  <2>1. \A c : Fresh(c)' <=> Fresh(c)
    BY <1>0, <1>r DEF Fresh
  <2>2. \A c : Head(sq) \notin Wakeups(c)
    BY <1>0 DEF Wakeups, Transfers
  <2>. QED BY <1>e, <1>i, <2>1, <2>2 DEF WakeupInv
<1>5. ProvideInv'
  <2>. SUFFICES ASSUME NEW i \in DOMAIN sq', sq'[i].type = "PROV_BUF"
                PROVE  /\ \A e \in inflight' : e \in Transfers => e.conn # sq'[i].conn
                       /\ \A q \in cq' : q.op \in Transfers => q.op.conn # sq'[i].conn
                       /\ \A j \in DOMAIN sq' :
                            sq'[j].type # "ACCEPT" /\ sq'[j].conn = sq'[i].conn =>
                              j = i \/ (j > i /\ sq'[j].type = "READ")
    BY DEF ProvideInv
  <2>1. i + 1 \in DOMAIN sq /\ sq'[i] = sq[i + 1] /\ i \in Nat \ {0}
    BY <1>0, <1>t
  <2>2. Head(sq) \notin Transfers
    BY <1>0 DEF Transfers
  <2>3. ASSUME NEW j \in DOMAIN sq', sq'[j].type # "ACCEPT", sq'[j].conn = sq'[i].conn
        PROVE  j = i \/ (j > i /\ sq'[j].type = "READ")
    <3>1. j + 1 \in DOMAIN sq /\ sq'[j] = sq[j + 1] /\ j \in Nat
      BY <1>0, <1>t
    <3>2. j + 1 = i + 1 \/ (j + 1 > i + 1 /\ sq[j + 1].type = "READ")
      BY <2>1, <2>3, <3>1 DEF ProvideInv
    <3>. QED BY <2>1, <3>1, <3>2
  <2>4. /\ \A e \in inflight : e \in Transfers => e.conn # sq[i + 1].conn
        /\ \A q \in cq : q.op \in Transfers => q.op.conn # sq[i + 1].conn
    BY <2>1 DEF ProvideInv
  <2>. QED BY <1>0, <1>r, <2>1, <2>2, <2>3, <2>4
<1>6. BufferInv'
  <2>. SUFFICES ASSUME NEW b \in Bid PROVE InSomeHand(b)' /\ HandsApart(b)'
    BY DEF BufferInv
  <2>1. InSomeHand(b) /\ HandsApart(b)
    BY DEF BufferInv
  <2>2. Head(sq).bid = b <=> Providing(1, b)
    BY <1>0, <1>t, <1>h DEF Providing
  <2>3. \A q \in cq' : Selected(q, b) => q \in cq
    BY <1>0, <1>r DEF Selected
  <2>4. \A q \in cq' : Failed(q, b) => q \in cq \/ (q = r /\ Head(sq).bid = b /\ r.res = "err")
    BY <1>r DEF Failed
  <2>e. (AtMostOne(Writes(b)) => AtMostOne(Writes(b))') /\ (Some(Writes(b))' <=> Some(Writes(b)))
    BY <1>0, <1>e DEF Writes
  <2>5. InSomeHand(b)'
    <3>1. ASSUME NEW j \in DOMAIN sq, Providing(j, b), j # 1 PROVE InSomeHand(b)'
      BY <1>0, <1>t, <3>1 DEF InSomeHand, Providing
    <3>2. ASSUME Providing(1, b) PROVE InSomeHand(b)'
      BY <1>0, <1>r, <1>h, <2>2, <3>2 DEF InSomeHand, Failed
    <3>. QED BY <1>r, <2>1, <2>e, <3>1, <3>2 DEF InSomeHand
  <2>6. HandsApart(b)'
    <3>1. \A i \in DOMAIN sq' :
             i + 1 \in DOMAIN sq /\ i + 1 # 1 /\ i \in Nat
               /\ (Providing(i, b)' <=> Providing(i + 1, b))
      BY <1>0, <1>t DEF Providing
    <3>2. Providing(1, b) =>
             /\ b \notin group /\ ~Some(Writes(b))
             /\ \A q \in cq : ~Selected(q, b) /\ ~Failed(q, b)
             /\ \A i \in DOMAIN sq : Providing(i, b) => i = 1
      BY <1>t, <2>1 DEF HandsApart
    <3>3. Failed(r, b) => r.res = "err"
      BY DEF Failed
    <3>. QED BY <1>r, <1>h, <2>1, <2>2, <2>3, <2>4, <2>e, <3>1, <3>2, <3>3
         DEF HandsApart
  <2>. QED BY <2>5, <2>6
<1>7. ASSUME EchoInv PROVE EchoInv'
  BY <1>7, <1>0, <1>i, <1>r DEF EchoInv, Held, Level, EchoesInOrder
<1>. QED BY <1>1, <1>2, <1>3, <1>4, <1>5, <1>6, <1>7

--------------------------------------------------------------------------------
(* The kernel completes what is in flight: the parts of the invariant that *)
(* are about the ring and the buffers.                                     *)
LEMMA CompletionRing ==
  ASSUME LendInv, NEW op \in inflight, NEW r \in CqeType, r.op = op,
         sq' = sq, inflight' = inflight \ {op}, cq' = cq \union {r},
         \/ group' = group /\ (op.type # "READ" \/ r.out \notin Bid)
         \/ op.type = "READ" /\ r.out \in group /\ group' = group \ {r.out}
  PROVE  /\ AcceptInv' /\ ProvideInv' /\ BufferInv'
         /\ \A c \in Client : /\ AtMostOne(Wakeups(c))'
                              /\ Some(Wakeups(c))' <=> Some(Wakeups(c))
<1>. USE DEF LendInv
<1>e. ASSUME NEW E PROVE (AtMostOne(E) => AtMostOne(E)') /\ (Some(E)' <=> Some(E))
  BY CompleteCounts
<1>1. AcceptInv'
  BY <1>e DEF AcceptInv, One
<1>2. ProvideInv'
  BY DEF ProvideInv
<1>3. ASSUME NEW c \in Client
      PROVE AtMostOne(Wakeups(c))' /\ (Some(Wakeups(c))' <=> Some(Wakeups(c)))
  BY <1>e DEF WakeupInv
<1>4. ASSUME NEW b \in Bid PROVE InSomeHand(b)' /\ HandsApart(b)'
  <2>1. InSomeHand(b) /\ HandsApart(b)
    BY DEF BufferInv
  <2>2. \A i \in DOMAIN sq' : i \in DOMAIN sq /\ (Providing(i, b)' <=> Providing(i, b))
    BY DEF Providing
  <2>3. op.type # "PROV_BUF" /\ \A q \in cq' : Failed(q, b) => q \in cq
    BY DEF Failed, ShapeInv
  <2>e. (AtMostOne(Writes(b)) => AtMostOne(Writes(b))') /\ (Some(Writes(b))' <=> Some(Writes(b)))
    BY <1>e
  <2>4. CASE Selected(r, b)
    <3>1. b \in group /\ b \notin group' /\ op.type = "READ"
      BY <2>4 DEF Selected
    <3>2. \A q \in cq' : Selected(q, b) => q = r
      BY <2>1, <3>1 DEF HandsApart
    <3>3. \A q \in cq' : ~Failed(q, b)
      BY <2>1, <2>3, <3>1 DEF HandsApart
    <3>4. InSomeHand(b)'
      BY <2>4 DEF InSomeHand
    <3>5. HandsApart(b)'
      BY <2>1, <2>2, <2>e, <3>1, <3>2, <3>3 DEF HandsApart
    <3>. QED BY <3>4, <3>5
  <2>5. CASE ~Selected(r, b)
    <3>1. \A q \in cq' : Selected(q, b) => q \in cq
      BY <2>5
    <3>2. b \in group' <=> b \in group
      BY <2>5 DEF Selected
    <3>3. InSomeHand(b)'
      BY <2>1, <2>2, <2>e, <3>2 DEF InSomeHand
    <3>4. HandsApart(b)'
      BY <2>1, <2>2, <2>3, <2>e, <3>1, <3>2 DEF HandsApart
    <3>. QED BY <3>3, <3>4
  <2>. QED BY <2>4, <2>5
<1>5. BufferInv'
  BY <1>4 DEF BufferInv
<1>. QED BY <1>1, <1>2, <1>3, <1>5

(* An accept that failed, a read that starved, or that failed and selected *)
(* a buffer.                                                               *)
LEMMA FailedCompletion ==
  ASSUME LendInv, NEW op \in inflight, NEW r \in CqeType, r.op = op,
         sq' = sq, inflight' = inflight \ {op}, cq' = cq \union {r},
         \/ op.type = "ACCEPT" /\ r.res = "err" /\ group' = group
         \/ op.type = "READ" /\ r.res = "nobufs" /\ r.out = None /\ group' = group
         \/ /\ op.type = "READ" /\ r.res \in {"eof", "err"}
            /\ r.out \in group /\ group' = group \ {r.out},
         UNCHANGED <<open, backlog, echoVars, dataVars>>
  PROVE  LendInv' /\ (EchoInv => EchoInv')
<1>. USE DEF LendInv, echoVars, dataVars
<1>h. None \notin Bid /\ group \subseteq Bid
  BY RingAssumption DEF TypeOK, RingTypeOK
<1>1. /\ AcceptInv' /\ ProvideInv' /\ BufferInv'
      /\ \A c \in Client : /\ AtMostOne(Wakeups(c))'
                           /\ Some(Wakeups(c))' <=> Some(Wakeups(c))
  BY <1>h, CompletionRing
<1>2. TypeOK'
  BY DEF TypeOK, RingTypeOK
<1>3. ShapeInv' /\ DescriptorInv'
  BY <1>h DEF ShapeInv, Shaped, DescriptorInv
<1>4. WakeupInv'
  <2>1. \A c : Fresh(c)' <=> Fresh(c)
    BY DEF Fresh
  <2>. QED BY <1>1, <2>1 DEF WakeupInv
<1>5. ASSUME EchoInv PROVE EchoInv'
  BY <1>5 DEF EchoInv, Held, Level, EchoesInOrder
<1>. QED BY <1>1, <1>2, <1>3, <1>4, <1>5

LEMMA AcceptFailedStep ==
  ASSUME LendInv, AcceptFailed
  PROVE  LendInv' /\ (EchoInv => EchoInv')
<1>1. PICK op \in inflight :
        /\ op.type = "ACCEPT" /\ Complete(op, "err", None)
        /\ UNCHANGED <<sq, group, open, backlog, echoVars, dataVars>>
  BY DEF AcceptFailed, FailAccept
<1>. DEFINE r == [op |-> op, res |-> "err", out |-> None]
<1>2. r \in CqeType /\ r.op = op /\ r.res = "err" /\ cq' = cq \union {r}
  BY <1>1 DEF LendInv, TypeOK, RingTypeOK, CqeType, Complete, Post, Cqe
<1>. HIDE DEF r
<1>. QED BY <1>1, <1>2, FailedCompletion DEF Complete

LEMMA ReceiveFailedStep ==
  ASSUME LendInv, NEW c \in Client, ReceiveFailed(c)
  PROVE  LendInv' /\ (EchoInv => EchoInv')
<1>1. PICK op \in inflight, res \in {"nobufs", "eof", "err"}, out \in Bid \union {None} :
        /\ op.type = "READ" /\ Complete(op, res, out)
        /\ \/ res = "nobufs" /\ out = None /\ group' = group
           \/ res # "nobufs" /\ out \in group /\ group' = group \ {out}
        /\ UNCHANGED <<sq, open, backlog, echoVars, dataVars>>
  <2>1. CASE StarveRecv(c)
    BY <2>1 DEF ReceiveFailed, StarveRecv
  <2>2. ASSUME NEW b \in Bid, NEW res \in RecvResults \ {"ok"}, CompleteRecv(c, b, res)
        PROVE  \E op \in inflight :
                 /\ op.type = "READ" /\ Complete(op, res, b)
                 /\ b \in group /\ group' = group \ {b}
                 /\ UNCHANGED <<sq, open, backlog>>
    BY <2>2 DEF CompleteRecv
  <2>3. RecvResults \ {"ok"} \subseteq {"eof", "err"}
    BY DEF RecvResults
  <2>. QED BY <2>1, <2>2, <2>3 DEF ReceiveFailed
<1>. DEFINE r == [op |-> op, res |-> res, out |-> out]
<1>2. r \in CqeType /\ r.op = op /\ r.res = res /\ r.out = out /\ cq' = cq \union {r}
  BY <1>1 DEF LendInv, TypeOK, RingTypeOK, CqeType, Complete, Post, Cqe
<1>. HIDE DEF r
<1>. QED BY <1>1, <1>2, FailedCompletion DEF Complete

(* An accept takes the descriptor and the connection out of the backlog,   *)
(* which stays fresh until the completion is seen.                         *)
LEMMA AcceptedStep ==
  ASSUME LendInv, NEW c \in Client, Accepted(c)
  PROVE  LendInv' /\ (EchoInv => EchoInv')
<1>. USE DEF LendInv, echoVars, dataVars
<1>0. PICK f \in Fd, op \in inflight :
        /\ op.type = "ACCEPT" /\ c \in backlog /\ open[f] = None
        /\ Complete(op, "ok", f)
        /\ open' = [open EXCEPT ![f] = c]
        /\ backlog' = backlog \ {c}
        /\ UNCHANGED <<sq, group, echoVars, dataVars>>
  BY DEF Accepted, CompleteAccept
<1>. DEFINE s == [op |-> op, res |-> "ok", out |-> f]
<1>s. s \in CqeType /\ s.op = op /\ s.res = "ok" /\ s.out = f /\ cq' = cq \union {s}
  BY <1>0 DEF TypeOK, RingTypeOK, CqeType, Complete, Post, Cqe
<1>. HIDE DEF s
<1>r. PICK r : r \in CqeType /\ r.op = op /\ r.res = "ok" /\ r.out = f /\ cq' = cq \union {r}
  BY <1>s
<1>h. None \notin Client /\ open \in [Fd -> Client \union {None}]
  BY RingAssumption DEF TypeOK, RingTypeOK
<1>g. open'[f] = c /\ \A g \in Fd \ {f} : open'[g] = open[g]
  BY <1>0, <1>h
<1>o. \A g \in Fd : open[g] # c
  BY <1>0 DEF DescriptorInv
<1>1. /\ AcceptInv' /\ ProvideInv' /\ BufferInv'
      /\ \A d \in Client : /\ AtMostOne(Wakeups(d))'
                           /\ Some(Wakeups(d))' <=> Some(Wakeups(d))
  BY <1>0, <1>r, CompletionRing DEF Complete
<1>2. TypeOK'
  BY <1>0, <1>r, <1>h DEF TypeOK, RingTypeOK, Complete
<1>3. ShapeInv'
  <2>1. ASSUME NEW e, Shaped(e) PROVE Shaped(e)'
    BY <1>0, <1>g, <1>h, <2>1 DEF Shaped
  <2>. QED BY <1>0, <1>r, <1>g, <1>h, <2>1 DEF ShapeInv, Complete
<1>4. DescriptorInv'
  BY <1>0, <1>g, <1>o DEF DescriptorInv
<1>5. WakeupInv'
  <2>1. ASSUME NEW d \in Client, Fresh(d)' PROVE Fresh(d)
    <3>1. CASE d = c
      BY <1>0, <3>1 DEF Fresh
    <3>2. CASE d # c
      BY <1>0, <1>r, <1>g, <1>h, <2>1, <3>2 DEF Fresh, ShapeInv
    <3>. QED BY <3>1, <3>2
  <2>. QED BY <1>0, <1>1, <2>1 DEF WakeupInv
<1>6. ASSUME EchoInv PROVE EchoInv'
  BY <1>6, <1>0, <1>r DEF EchoInv, Held, Level, EchoesInOrder, Complete
<1>. QED BY <1>1, <1>2, <1>3, <1>4, <1>5, <1>6

(* A message arrives in a buffer of the group, which is nobody else's.     *)
LEMMA ReceivedStep ==
  ASSUME LendInv, NEW c \in Client, Received(c)
  PROVE  LendInv' /\ (EchoInv => EchoInv')
<1>. USE DEF LendInv, echoVars
<1>0. PICK b \in Bid, op \in inflight :
        /\ op.type = "READ" /\ op.conn = c /\ b \in group
        /\ Complete(op, "ok", b)
        /\ group' = group \ {b}
        /\ bufs' = [bufs EXCEPT ![b] = <<c, delivered[c] + 1>>]
        /\ delivered[c] < Messages
        /\ delivered' = [delivered EXCEPT ![c] = @ + 1]
        /\ UNCHANGED <<sq, open, backlog, echoVars, echoed>>
  BY DEF Received, CompleteRecv
<1>. DEFINE s == [op |-> op, res |-> "ok", out |-> b]
<1>s. s \in CqeType /\ s.op = op /\ s.res = "ok" /\ s.out = b /\ cq' = cq \union {s}
  BY <1>0 DEF TypeOK, RingTypeOK, CqeType, Complete, Post, Cqe
<1>. HIDE DEF s
<1>r. PICK r : r \in CqeType /\ r.op = op /\ r.res = "ok" /\ r.out = b /\ cq' = cq \union {r}
  BY <1>s
<1>t. /\ delivered \in [Client -> 0 .. Messages] /\ bufs \in [Bid -> Message \union {None}]
      /\ echoed \in [Client -> Seq([msg : Message \union {None}, whole : BOOLEAN])]
      /\ Messages \in Nat /\ op \in SqeType
  BY EchoAssumption DEF TypeOK, RingTypeOK
<1>g. /\ bufs'[b] = <<c, delivered[c] + 1>> /\ \A d \in Bid \ {b} : bufs'[d] = bufs[d]
      /\ delivered'[c] = delivered[c] + 1
      /\ \A d \in Client \ {c} : delivered'[d] = delivered[d]
  BY <1>0, <1>t
<1>w. op \in Wakeups(c)
  BY <1>0, <1>t DEF Wakeups, Transfers
<1>n. /\ \A i \in DOMAIN sq : sq[i] \notin Wakeups(c)
      /\ \A e \in inflight' : e \notin Wakeups(c)
      /\ \A q \in cq : q.op \notin Wakeups(c)
  BY <1>0, <1>w DEF WakeupInv, AtMostOne, Complete
<1>1. /\ AcceptInv' /\ ProvideInv' /\ BufferInv'
      /\ \A d \in Client : /\ AtMostOne(Wakeups(d))'
                           /\ Some(Wakeups(d))' <=> Some(Wakeups(d))
  BY <1>0, <1>r, CompletionRing DEF Complete
<1>2. TypeOK'
  <2>1. /\ delivered' \in [Client -> 0 .. Messages]
        /\ bufs' \in [Bid -> Message \union {None}]
    BY <1>0, <1>t DEF Message
  <2>. QED BY <1>0, <1>r, <2>1 DEF TypeOK, RingTypeOK, Complete
<1>3. ShapeInv' /\ DescriptorInv'
  BY <1>0, <1>r DEF ShapeInv, Shaped, DescriptorInv, Complete
<1>5. WakeupInv'
  <2>1. ASSUME NEW d \in Client PROVE Fresh(d)' <=> Fresh(d)
    BY <1>0, <1>r DEF Fresh
  <2>2. ~Fresh(c)
    BY <1>0, <1>w DEF WakeupInv, Some
  <2>. QED BY <1>0, <1>1, <1>g, <2>1, <2>2 DEF WakeupInv
<1>6. ASSUME EchoInv PROVE EchoInv'
  <2>. USE <1>6
  <2>l. Level(c)
    BY <1>0 DEF EchoInv
  <2>1. HandsApart(b)
    BY <1>0 DEF BufferInv
  <2>2. ASSUME NEW d, NEW x \in Bid, d \in Client \ {c}, x # b, Held(d, x) PROVE Held(d, x)'
    BY <1>0, <1>g, <2>2 DEF Held
  <2>3. ASSUME NEW d, d \in Client \ {c}, Level(d) PROVE Level(d)'
    BY <1>0, <1>g, <2>3 DEF Level
  <2>4. Held(c, b)'
    BY <1>0, <1>g, <1>t, <2>l DEF Held, Level
  <2>5. /\ \A i \in DOMAIN sq : sq[i].type = "WRITE" => sq[i].bid # b
        /\ \A e \in inflight : e.type = "WRITE" => e.bid # b
        /\ \A q \in cq : q.op.type = "READ" => q.out # b
    <3>1. /\ \A i \in DOMAIN sq : sq[i] \notin Writes(b)
          /\ \A e \in inflight : e \notin Writes(b)
          /\ \A q \in cq : ~Selected(q, b)
      BY <1>0, <2>1 DEF HandsApart, Some
    <3>2. (\A i \in DOMAIN sq : sq[i] \in SqeType) /\ \A e \in inflight : e \in SqeType
      BY DEF TypeOK, RingTypeOK
    <3>. QED BY <3>1, <3>2 DEF Writes, Selected
  <2>6. /\ \A i \in DOMAIN sq : sq[i].type \in {"READ", "WRITE"} => sq[i].conn \in Client \ {c}
        /\ \A e \in inflight' : e.type \in {"READ", "WRITE"} => e.conn \in Client \ {c}
        /\ \A q \in cq : q.op.type \in {"READ", "WRITE"} => q.op.conn \in Client \ {c}
    <3>1. /\ \A i \in DOMAIN sq : sq[i] \in SqeType
          /\ \A e \in inflight' : e \in SqeType /\ e \in inflight
          /\ \A q \in cq : q.op \in SqeType
      BY <1>0 DEF TypeOK, RingTypeOK, CqeType, Complete
    <3>. QED BY <1>n, <3>1 DEF Wakeups, Transfers, ShapeInv, Shaped
  <2>7. EchoesInOrder'
    <3>1. \A d \in Client : Len(echoed[d]) \in Nat
      BY <1>t
    <3>. QED BY <1>0, <1>g, <1>t, <3>1 DEF EchoInv, EchoesInOrder
  <2>8. \A i \in DOMAIN sq : /\ sq[i].type = "WRITE" => Held(sq[i].conn, sq[i].bid)'
                             /\ sq[i].type = "READ" => Level(sq[i].conn)'
    BY <1>0, <2>2, <2>3, <2>5, <2>6 DEF EchoInv, ShapeInv, Shaped
  <2>9. \A e \in inflight' : /\ e.type = "WRITE" => Held(e.conn, e.bid)'
                             /\ e.type = "READ" => Level(e.conn)'
    BY <1>0, <2>2, <2>3, <2>5, <2>6 DEF EchoInv, ShapeInv, Shaped, Complete
  <2>10. \A q \in cq : /\ q.op.type = "READ" /\ q.res = "ok" => Held(q.op.conn, q.out)'
                       /\ q.op.type = "WRITE" => Level(q.op.conn)'
    BY <2>2, <2>3, <2>5, <2>6 DEF EchoInv, ShapeInv
  <2>. QED BY <1>0, <1>r, <2>4, <2>7, <2>8, <2>9, <2>10 DEF EchoInv
<1>. QED BY <1>1, <1>2, <1>3, <1>5, <1>6

(* The message that was held is sent: it is the next one.                  *)
LEMMA SentStep ==
  ASSUME LendInv, NEW c \in Client, Sent(c)
  PROVE  LendInv' /\ (EchoInv => EchoInv')
<1>. USE DEF LendInv, echoVars
<1>0. PICK b \in Bid, res \in SendResults, op \in inflight :
        /\ op.type = "WRITE" /\ op.conn = c /\ op.bid = b
        /\ Complete(op, res, None)
        /\ echoed' = [echoed EXCEPT
                        ![c] = Append(@, [msg |-> bufs[b], whole |-> res = "ok"])]
        /\ UNCHANGED <<sq, group, open, backlog, echoVars, bufs, delivered>>
  BY DEF Sent, CompleteSend
<1>. DEFINE s == [op |-> op, res |-> res, out |-> None]
<1>s. s \in CqeType /\ s.op = op /\ s.out = None /\ cq' = cq \union {s}
  BY <1>0 DEF TypeOK, RingTypeOK, CqeType, Complete, Post, Cqe, SendResults
<1>. HIDE DEF s
<1>r. PICK r : r \in CqeType /\ r.op = op /\ r.out = None /\ cq' = cq \union {r}
  BY <1>s
<1>t. /\ delivered \in [Client -> 0 .. Messages] /\ bufs \in [Bid -> Message \union {None}]
      /\ echoed \in [Client -> Seq([msg : Message \union {None}, whole : BOOLEAN])]
      /\ Messages \in Nat /\ op \in SqeType
  BY EchoAssumption DEF TypeOK, RingTypeOK
<1>w. op \in Wakeups(c)
  BY <1>0, <1>t DEF Wakeups, Transfers
<1>m. PICK m : /\ m \in [msg : Message \union {None}, whole : BOOLEAN]
               /\ m.msg = bufs[b] /\ echoed'[c] = Append(echoed[c], m)
  <2>. DEFINE m == [msg |-> bufs[b], whole |-> res = "ok"]
  <2>1. m \in [msg : Message \union {None}, whole : BOOLEAN] /\ m.msg = bufs[b]
    BY <1>t
  <2>2. echoed'[c] = Append(echoed[c], m)
    BY <1>0, <1>t
  <2>. QED BY <2>1, <2>2
<1>g. /\ \A d \in Client \ {c} : echoed'[d] = echoed[d]
      /\ Len(echoed[c]) \in Nat /\ Len(echoed'[c]) = Len(echoed[c]) + 1
      /\ \A i \in DOMAIN echoed'[c] : i \in DOMAIN echoed[c] \/ i = Len(echoed[c]) + 1
      /\ \A i \in DOMAIN echoed[c] : echoed'[c][i] = echoed[c][i]
      /\ echoed'[c][Len(echoed[c]) + 1] = m
      /\ echoed' \in [Client -> Seq([msg : Message \union {None}, whole : BOOLEAN])]
  <2>1. echoed[c] \in Seq([msg : Message \union {None}, whole : BOOLEAN])
    BY <1>t
  <2>2. /\ Len(echoed[c]) \in Nat /\ Len(echoed'[c]) = Len(echoed[c]) + 1
        /\ \A i \in DOMAIN echoed'[c] : i \in DOMAIN echoed[c] \/ i = Len(echoed[c]) + 1
        /\ \A i \in DOMAIN echoed[c] : echoed'[c][i] = echoed[c][i]
        /\ echoed'[c][Len(echoed[c]) + 1] = m
        /\ echoed'[c] \in Seq([msg : Message \union {None}, whole : BOOLEAN])
    BY <1>m, <2>1
  <2>. QED BY <1>0, <1>t, <2>2
<1>n. /\ \A i \in DOMAIN sq : sq[i] \notin Wakeups(c)
      /\ \A e \in inflight' : e \notin Wakeups(c)
      /\ \A q \in cq : q.op \notin Wakeups(c)
  BY <1>0, <1>w DEF WakeupInv, AtMostOne, Complete
<1>1. /\ AcceptInv' /\ ProvideInv' /\ BufferInv'
      /\ \A d \in Client : /\ AtMostOne(Wakeups(d))'
                           /\ Some(Wakeups(d))' <=> Some(Wakeups(d))
  BY <1>0, <1>r, CompletionRing DEF Complete
<1>2. TypeOK'
  BY <1>0, <1>r, <1>g DEF TypeOK, RingTypeOK, Complete
<1>3. ShapeInv' /\ DescriptorInv'
  BY <1>0, <1>r DEF ShapeInv, Shaped, DescriptorInv, Complete
<1>5. WakeupInv'
  <2>1. ASSUME NEW d \in Client PROVE Fresh(d)' <=> Fresh(d)
    BY <1>0, <1>r DEF Fresh
  <2>2. ~Fresh(c)
    BY <1>0, <1>w DEF WakeupInv, Some
  <2>. QED BY <1>0, <1>1, <1>g, <2>1, <2>2 DEF WakeupInv
<1>6. ASSUME EchoInv PROVE EchoInv'
  <2>. USE <1>6
  <2>h. Held(c, b)
    BY <1>0 DEF EchoInv
  <2>2. ASSUME NEW d, NEW x, d \in Client \ {c} PROVE Held(d, x)' <=> Held(d, x)
    BY <1>0, <1>g, <2>2 DEF Held
  <2>3. ASSUME NEW d, d \in Client \ {c} PROVE Level(d)' <=> Level(d)
    BY <1>0, <1>g, <2>3 DEF Level
  <2>4. Level(c)'
    BY <1>0, <1>g, <1>t, <2>h DEF Held, Level
  <2>6. /\ \A i \in DOMAIN sq : sq[i].type \in {"READ", "WRITE"} => sq[i].conn \in Client \ {c}
        /\ \A e \in inflight' : e.type \in {"READ", "WRITE"} => e.conn \in Client \ {c}
        /\ \A q \in cq : q.op.type \in {"READ", "WRITE"} => q.op.conn \in Client \ {c}
    <3>1. /\ \A i \in DOMAIN sq : sq[i] \in SqeType
          /\ \A e \in inflight' : e \in SqeType /\ e \in inflight
          /\ \A q \in cq : q.op \in SqeType
      BY <1>0 DEF TypeOK, RingTypeOK, CqeType, Complete
    <3>. QED BY <1>n, <3>1 DEF Wakeups, Transfers, ShapeInv, Shaped
  <2>7. EchoesInOrder'
    <3>1. Len(echoed'[c]) = delivered[c]
      BY <1>0, <2>4 DEF Level
    <3>2. \A i \in DOMAIN echoed'[c] : echoed'[c][i].msg = <<c, i>>
      BY <1>g, <1>m, <2>h, <3>1 DEF Held, EchoInv, EchoesInOrder
    <3>3. Len(echoed'[c]) <= delivered[c]
      BY <1>g, <3>1
    <3>. QED BY <1>0, <1>g, <3>2, <3>3 DEF EchoInv, EchoesInOrder
  <2>8. \A i \in DOMAIN sq : /\ sq[i].type = "WRITE" => Held(sq[i].conn, sq[i].bid)'
                             /\ sq[i].type = "READ" => Level(sq[i].conn)'
    BY <1>0, <2>2, <2>3, <2>6 DEF EchoInv
  <2>9. \A e \in inflight' : /\ e.type = "WRITE" => Held(e.conn, e.bid)'
                             /\ e.type = "READ" => Level(e.conn)'
    BY <1>0, <2>2, <2>3, <2>6 DEF EchoInv, Complete
  <2>10. \A q \in cq : /\ q.op.type = "READ" /\ q.res = "ok" => Held(q.op.conn, q.out)'
                       /\ q.op.type = "WRITE" => Level(q.op.conn)'
    BY <2>2, <2>3, <2>6 DEF EchoInv
  <2>. QED BY <1>0, <1>r, <2>4, <2>7, <2>8, <2>9, <2>10 DEF EchoInv
<1>. QED BY <1>1, <1>2, <1>3, <1>5, <1>6

--------------------------------------------------------------------------------
(* Handling a CQE: q is seen and the SQEs s are filled in.                 *)
Answered(q, s) ==
  /\ q \in cq /\ s \in Seq(SqeType) /\ cq' = cq \ {q} /\ sq' = sq \o s
  /\ UNCHANGED <<inflight, group, open, backlog, proc, loop, dataVars>>
  /\ shut' \subseteq Fd

LEMMA AnswerFacts ==
  ASSUME LendInv, NEW q, NEW s, Answered(q, s)
  PROVE  /\ Handled(q, Len(s)) /\ Len(s) \in Nat /\ Len(sq) \in Nat
         /\ \A i \in DOMAIN sq : i \in Nat /\ i <= Len(sq) /\ i \in DOMAIN sq' /\ sq'[i] = sq[i]
         /\ \A i \in DOMAIN sq' : \/ i \in DOMAIN sq
                                  \/ /\ i \in Nat /\ i > Len(sq) /\ i - Len(sq) \in DOMAIN s
                                     /\ sq'[i] = s[i - Len(sq)]
         /\ \A j \in DOMAIN s : /\ j \in Nat /\ j > 0 /\ Len(sq) + j \in DOMAIN sq'
                                /\ Len(sq) + j \in New(Len(s))
                                /\ sq'[Len(sq) + j] = s[j] /\ s[j] \in SqeType
         /\ \A k \in New(Len(s)) : k - Len(sq) \in DOMAIN s /\ sq'[k] = s[k - Len(sq)]
         /\ TypeOK' /\ DescriptorInv'
<1>. USE DEF LendInv
<1>1. RingTypeOK /\ s \in Seq(SqeType) /\ sq' = sq \o s
  BY DEF Answered, TypeOK
<1>2. /\ sq' \in Seq(SqeType) /\ Len(sq) \in Nat /\ Len(s) \in Nat
      /\ DOMAIN sq = 1 .. Len(sq) /\ DOMAIN sq' = 1 .. (Len(sq) + Len(s))
      /\ \A i \in DOMAIN sq : sq'[i] = sq[i]
      /\ \A k \in New(Len(s)) : k - Len(sq) \in DOMAIN s /\ sq'[k] = s[k - Len(sq)]
      /\ \A j \in DOMAIN s : Len(sq) + j \in New(Len(s)) /\ sq'[Len(sq) + j] = s[j]
  BY <1>1, ConcatFacts
<1>3. DOMAIN s = 1 .. Len(s) /\ \A j \in DOMAIN s : s[j] \in SqeType
  BY <1>1
<1>4. Handled(q, Len(s))
  BY <1>2 DEF Handled, Answered
<1>5. \A i \in DOMAIN sq' : \/ i \in DOMAIN sq
                            \/ /\ i \in Nat /\ i > Len(sq) /\ i - Len(sq) \in DOMAIN s
                               /\ sq'[i] = s[i - Len(sq)]
  BY <1>2 DEF New
<1>6. TypeOK'
  BY <1>2 DEF TypeOK, RingTypeOK, Answered, dataVars
<1>7. DescriptorInv'
  BY DEF DescriptorInv, Answered
<1>8. \A j \in DOMAIN s : /\ j \in Nat /\ j > 0 /\ Len(sq) + j \in DOMAIN sq'
                          /\ Len(sq) + j \in New(Len(s))
                          /\ sq'[Len(sq) + j] = s[j] /\ s[j] \in SqeType
  BY <1>2, <1>3
<1>9. \A i \in DOMAIN sq : i \in Nat /\ i <= Len(sq) /\ i \in DOMAIN sq' /\ sq'[i] = sq[i]
  BY <1>2
<1>. QED BY <1>2, <1>4, <1>5, <1>6, <1>7, <1>8, <1>9

(* What becomes of the number of operations of a kind.                     *)
LEMMA AnswerCounts ==
  ASSUME LendInv, NEW q, NEW s, Answered(q, s), NEW E
  PROVE  /\ q.op \notin E /\ (\A j \in DOMAIN s : s[j] \notin E) =>
              (AtMostOne(E) => AtMostOne(E)') /\ (Some(E)' <=> Some(E))
         /\ q.op \in E /\ AtMostOne(E) /\ (\A j \in DOMAIN s : s[j] \notin E) => ~Some(E)'
         /\ \A k \in DOMAIN s :
              /\ ~Some(E) \/ (q.op \in E /\ AtMostOne(E))
              /\ s[k] \in E /\ \A j \in DOMAIN s : s[j] \in E => j = k
              => One(E)'
         /\ ~Some(E)' => AtMostOne(E)'
<1>1. RingTypeOK /\ q \in cq
  BY DEF LendInv, TypeOK, Answered
<1>2. q.op \in E /\ AtMostOne(E) => One(E)
  BY <1>1 DEF One, Some
<1>3. /\ Handled(q, Len(s)) /\ Len(s) \in Nat /\ Len(sq) \in Nat
      /\ \A j \in DOMAIN s : j \in Nat /\ Len(sq) + j \in New(Len(s)) /\ sq'[Len(sq) + j] = s[j]
      /\ \A k \in New(Len(s)) : k - Len(sq) \in DOMAIN s /\ sq'[k] = s[k - Len(sq)]
  BY AnswerFacts
<1>4. ASSUME q.op \notin E, \A j \in DOMAIN s : s[j] \notin E
      PROVE  (AtMostOne(E) => AtMostOne(E)') /\ (Some(E)' <=> Some(E))
  <2>1. \A k \in New(Len(s)) : sq'[k] \notin E
    BY <1>3, <1>4
  <2>. QED BY <1>1, <1>3, <1>4, <2>1, HandledCounts
<1>5. ASSUME q.op \in E, AtMostOne(E), \A j \in DOMAIN s : s[j] \notin E
      PROVE  ~Some(E)'
  <2>1. \A k \in New(Len(s)) : sq'[k] \notin E
    BY <1>3, <1>5
  <2>. QED BY <1>1, <1>2, <1>3, <1>5, <2>1, LastSeen
<1>6. ASSUME NEW k \in DOMAIN s, ~Some(E) \/ (q.op \in E /\ AtMostOne(E)),
             s[k] \in E, \A j \in DOMAIN s : s[j] \in E => j = k
      PROVE  One(E)'
  <2>1. /\ Len(sq) + k \in New(Len(s)) /\ sq'[Len(sq) + k] \in E
        /\ \A j \in New(Len(s)) : sq'[j] \in E => j = Len(sq) + k
    <3>1. \A j \in New(Len(s)) : j \in Nat
      BY <1>3 DEF New
    <3>. QED BY <1>3, <1>6, <3>1
  <2>. QED BY <1>1, <1>2, <1>3, <1>6, <2>1, OneFilledIn
<1>7. ~Some(E)' => AtMostOne(E)'
  BY DEF Some, AtMostOne
<1>. QED BY <1>4, <1>5, <1>6, <1>7

(* The parts of the invariant that speak of each operation on its own.     *)
LEMMA AnswerShapes ==
  ASSUME LendInv, NEW q, NEW s, Answered(q, s), \A j \in DOMAIN s : Shaped(s[j])
  PROVE  ShapeInv'
<1>1. \A i \in DOMAIN sq' : \/ \E k \in DOMAIN sq : sq'[i] = sq[k]
                            \/ \E k \in DOMAIN s : sq'[i] = s[k]
  BY AnswerFacts
<1>2. inflight' = inflight /\ cq' \subseteq cq /\ open' = open
  BY DEF Answered
<1>3. \A e : Shaped(e)' <=> Shaped(e)
  BY <1>2 DEF Shaped
<1>. QED BY <1>1, <1>2, <1>3 DEF LendInv, ShapeInv

LEMMA AnswerEchoes ==
  ASSUME LendInv, EchoInv, NEW q, NEW s, Answered(q, s),
         \A j \in DOMAIN s : /\ s[j].type = "WRITE" => Held(s[j].conn, s[j].bid)
                             /\ s[j].type = "READ" => Level(s[j].conn)
  PROVE  EchoInv'
<1>1. \A i \in DOMAIN sq' : \/ \E k \in DOMAIN sq : sq'[i] = sq[k]
                            \/ \E k \in DOMAIN s : sq'[i] = s[k]
  BY AnswerFacts
<1>2. inflight' = inflight /\ cq' \subseteq cq /\ UNCHANGED dataVars
  BY DEF Answered
<1>3. /\ \A c, b : Held(c, b)' <=> Held(c, b)
      /\ \A c : Level(c)' <=> Level(c)
  BY <1>2 DEF Held, Level, dataVars
<1>4. EchoesInOrder'
  BY <1>2 DEF EchoInv, EchoesInOrder, dataVars
<1>. QED BY <1>1, <1>2, <1>3, <1>4 DEF EchoInv

(* A buffer is given back, or a write filled in, only where the transfer   *)
(* of this connection was just seen.                                       *)
LEMMA AnswerProvides ==
  ASSUME LendInv, NEW q, NEW s, Answered(q, s),
         \A j \in DOMAIN s : s[j].type \in {"WRITE", "PROV_BUF"} =>
           s[j].conn \in Client /\ q.op \in Wakeups(s[j].conn),
         \A j, k \in DOMAIN s : s[j].type = "PROV_BUF" /\ s[k].type # "ACCEPT" =>
           k = j \/ (k > j /\ s[k].type = "READ")
  PROVE  ProvideInv'
<1>. USE DEF LendInv
<1>. SUFFICES ASSUME NEW i \in DOMAIN sq', sq'[i].type = "PROV_BUF"
              PROVE  /\ \A e \in inflight' : e \in Transfers => e.conn # sq'[i].conn
                     /\ \A p \in cq' : p.op \in Transfers => p.op.conn # sq'[i].conn
                     /\ \A j \in DOMAIN sq' :
                          sq'[j].type # "ACCEPT" /\ sq'[j].conn = sq'[i].conn =>
                            j = i \/ (j > i /\ sq'[j].type = "READ")
  BY DEF ProvideInv
<1>1. /\ Len(sq) \in Nat
      /\ \A j \in DOMAIN sq : j \in Nat /\ j <= Len(sq) /\ sq'[j] = sq[j]
      /\ \A j \in DOMAIN sq' : \/ j \in DOMAIN sq
                               \/ /\ j \in Nat /\ j > Len(sq) /\ j - Len(sq) \in DOMAIN s
                                  /\ sq'[j] = s[j - Len(sq)]
      /\ \A j \in DOMAIN s : j \in Nat
  BY AnswerFacts
<1>2. /\ inflight' = inflight /\ cq' = cq \ {q} /\ q \in cq
      /\ \A j \in DOMAIN sq : sq[j] \in SqeType
  BY DEF Answered, TypeOK, RingTypeOK
<1>3. ASSUME NEW c \in Client, q.op \in Wakeups(c)
      PROVE  /\ \A j \in DOMAIN sq : sq[j].type = "ACCEPT" \/ sq[j].conn # c
             /\ \A e \in inflight : e \in Transfers => e.conn # c
             /\ \A p \in cq' : p.op \in Transfers => p.op.conn # c
  <2>1. AtMostOne(Wakeups(c))
    BY DEF WakeupInv
  <2>2. \A j \in DOMAIN sq : sq[j].type = "PROV_BUF" => sq[j].conn # c
    BY <1>2, <1>3 DEF ProvideInv, Wakeups
  <2>3. \A j \in DOMAIN sq : sq[j] \notin Wakeups(c)
    BY <1>2, <1>3, <2>1 DEF AtMostOne
  <2>4. /\ \A e \in inflight : e \notin Wakeups(c)
        /\ \A p \in cq' : p.op \notin Wakeups(c)
    BY <1>2, <1>3, <2>1 DEF AtMostOne
  <2>. QED BY <1>2, <2>2, <2>3, <2>4 DEF Wakeups, Transfers, SqeType
<1>4. CASE i \in DOMAIN sq
  <2>1. /\ \A e \in inflight : e \in Transfers => e.conn # sq[i].conn
        /\ \A p \in cq : p.op \in Transfers => p.op.conn # sq[i].conn
        /\ \A j \in DOMAIN sq :
             sq[j].type # "ACCEPT" /\ sq[j].conn = sq[i].conn =>
               j = i \/ (j > i /\ sq[j].type = "READ")
    BY <1>1, <1>4 DEF ProvideInv
  <2>2. ASSUME NEW j \in DOMAIN sq', j \notin DOMAIN sq,
               sq'[j].type # "ACCEPT", sq'[j].conn = sq'[i].conn
        PROVE  j > i /\ sq'[j].type = "READ"
    <3>1. /\ j \in Nat /\ j > Len(sq) /\ j - Len(sq) \in DOMAIN s
          /\ sq'[j] = s[j - Len(sq)] /\ sq'[j] \in SqeType
      BY <1>1, <2>2, AnswerFacts
    <3>2. j > i
      BY <1>1, <1>4, <3>1
    <3>3. sq'[j].type \notin {"WRITE", "PROV_BUF"}
      <4>1. ASSUME sq'[j].type \in {"WRITE", "PROV_BUF"} PROVE FALSE
        <5>1. sq'[j].conn \in Client /\ q.op \in Wakeups(sq'[j].conn)
          BY <3>1, <4>1
        <5>2. sq[i].type = "ACCEPT" \/ sq[i].conn # sq'[j].conn
          BY <1>3, <1>4, <5>1
        <5>. QED BY <1>1, <1>4, <2>2, <5>2
      <4>. QED BY <4>1
    <3>. QED BY <2>2, <3>1, <3>2, <3>3 DEF SqeType
  <2>. QED BY <1>1, <1>2, <1>4, <2>1, <2>2
<1>5. CASE i \notin DOMAIN sq
  <2>1. /\ i \in Nat /\ i > Len(sq) /\ i - Len(sq) \in DOMAIN s /\ sq'[i] = s[i - Len(sq)]
    BY <1>1, <1>5
  <2>2. sq'[i].conn \in Client /\ q.op \in Wakeups(sq'[i].conn)
    BY <2>1
  <2>3. ASSUME NEW j \in DOMAIN sq', sq'[j].type # "ACCEPT", sq'[j].conn = sq'[i].conn
        PROVE  j = i \/ (j > i /\ sq'[j].type = "READ")
    <3>1. j \notin DOMAIN sq
      BY <1>1, <1>3, <2>2, <2>3
    <3>2. j \in Nat /\ j - Len(sq) \in DOMAIN s /\ sq'[j] = s[j - Len(sq)]
      BY <1>1, <3>1
    <3>3. j - Len(sq) = i - Len(sq) \/ (j - Len(sq) > i - Len(sq) /\ sq'[j].type = "READ")
      BY <2>1, <2>3, <3>2
    <3>. QED BY <1>1, <2>1, <3>2, <3>3
  <2>. QED BY <1>2, <1>3, <2>2, <2>3
<1>. QED BY <1>4, <1>5

(* The buffer an SQE takes charge of.                                      *)
Charged(e, b) == e.type \in {"WRITE", "PROV_BUF"} /\ e.bid = b

LEMMA BufferStays ==
  ASSUME LendInv, NEW q, NEW s, Answered(q, s), NEW b \in Bid,
         ~Selected(q, b), q.op \notin Writes(b), ~Failed(q, b),
         \A j \in DOMAIN s : ~Charged(s[j], b)
  PROVE  InSomeHand(b)' /\ HandsApart(b)'
<1>. USE DEF LendInv
<1>1. InSomeHand(b) /\ HandsApart(b)
  BY DEF BufferInv
<1>2. /\ \A i \in DOMAIN sq : i \in DOMAIN sq' /\ sq'[i] = sq[i]
      /\ \A i \in DOMAIN sq' : i \in DOMAIN sq \/ \E j \in DOMAIN s : sq'[i] = s[j]
  BY AnswerFacts
<1>3. \A i \in DOMAIN sq' : Providing(i, b)' <=> (i \in DOMAIN sq /\ Providing(i, b))
  BY <1>2 DEF Providing, Charged
<1>4. /\ AtMostOne(Writes(b)) => AtMostOne(Writes(b))'
      /\ Some(Writes(b))' <=> Some(Writes(b))
  <2>1. \A j \in DOMAIN s : s[j] \notin Writes(b)
    BY DEF Writes, Charged
  <2>. QED BY <2>1, AnswerCounts
<1>5. group' = group /\ cq' = cq \ {q}
  BY DEF Answered
<1>6. InSomeHand(b)'
  BY <1>1, <1>2, <1>3, <1>4, <1>5 DEF InSomeHand
<1>7. HandsApart(b)'
  BY <1>1, <1>3, <1>4, <1>5 DEF HandsApart
<1>. QED BY <1>6, <1>7

LEMMA BufferMoves ==
  ASSUME LendInv, NEW q, NEW s, Answered(q, s), NEW b \in Bid,
         Selected(q, b) \/ q.op \in Writes(b),
         NEW k \in DOMAIN s, Charged(s[k], b),
         \A j \in DOMAIN s : Charged(s[j], b) => j = k
  PROVE  InSomeHand(b)' /\ HandsApart(b)'
<1>. USE DEF LendInv
<1>1. HandsApart(b) /\ q \in cq
  BY DEF BufferInv, Answered
<1>2. /\ Len(sq) \in Nat
      /\ \A i \in DOMAIN sq : i \in Nat /\ i <= Len(sq) /\ i \in DOMAIN sq' /\ sq'[i] = sq[i]
      /\ \A i \in DOMAIN sq' : \/ i \in DOMAIN sq
                               \/ /\ i \in Nat /\ i > Len(sq) /\ i - Len(sq) \in DOMAIN s
                                  /\ sq'[i] = s[i - Len(sq)]
      /\ \A j \in DOMAIN s : /\ j \in Nat /\ j > 0 /\ Len(sq) + j \in DOMAIN sq'
                             /\ sq'[Len(sq) + j] = s[j] /\ s[j] \in SqeType
  BY AnswerFacts
<1>3. group' = group /\ cq' = cq \ {q}
  BY DEF Answered
<1>4. /\ b \notin group /\ \A i \in DOMAIN sq : ~Providing(i, b)
      /\ \A r \in cq' : ~Selected(r, b) /\ ~Failed(r, b)
      /\ ~Some(Writes(b)) \/ (q.op \in Writes(b) /\ AtMostOne(Writes(b)))
  <2>1. CASE Selected(q, b)
    BY <1>1, <1>3, <2>1 DEF HandsApart
  <2>2. CASE q.op \in Writes(b)
    <3>1. Some(Writes(b))
      BY <1>1, <2>2 DEF Some
    <3>. QED BY <1>1, <1>3, <2>2, <3>1 DEF HandsApart
  <2>. QED BY <2>1, <2>2
<1>5. CASE s[k].type = "WRITE"
  <2>1. One(Writes(b))'
    <3>1. s[k] \in Writes(b) /\ \A j \in DOMAIN s : s[j] \in Writes(b) => j = k
      BY <1>2, <1>5 DEF Writes, Charged
    <3>. QED BY <1>4, <3>1, AnswerCounts
  <2>2. \A i \in DOMAIN sq' : ~Providing(i, b)'
    BY <1>2, <1>4, <1>5 DEF Providing, Charged
  <2>. QED BY <1>3, <1>4, <2>1, <2>2 DEF InSomeHand, HandsApart, One
<1>6. CASE s[k].type = "PROV_BUF"
  <2>1. ~Some(Writes(b))'
    <3>1. \A j \in DOMAIN s : s[j] \notin Writes(b)
      BY <1>6 DEF Writes, Charged
    <3>2. q.op \in Writes(b) => Some(Writes(b))
      BY <1>1 DEF Some
    <3>. QED BY <1>4, <3>1, <3>2, AnswerCounts
  <2>n. PICK n : n = Len(sq) + k
    OBVIOUS
  <2>2. Providing(n, b)' /\ n \in DOMAIN sq'
    BY <1>2, <1>6, <2>n DEF Providing, Charged
  <2>3. ASSUME NEW i \in DOMAIN sq', Providing(i, b)' PROVE i = n
    <3>1. i \notin DOMAIN sq
      BY <1>2, <1>4, <2>3 DEF Providing
    <3>2. i \in Nat /\ i - Len(sq) \in DOMAIN s /\ Charged(s[i - Len(sq)], b)
      BY <1>2, <2>3, <3>1 DEF Providing, Charged
    <3>. QED BY <1>2, <2>n, <3>2
  <2>4. AtMostOne(Writes(b))'
    BY <2>1, AnswerCounts
  <2>. QED BY <1>3, <1>4, <2>1, <2>2, <2>3, <2>4 DEF InSomeHand, HandsApart
<1>. QED BY <1>5, <1>6 DEF Charged

(* The connections whose transfer is not the one that is seen.             *)
LEMMA OtherWakeups ==
  ASSUME LendInv, NEW q, NEW s, Answered(q, s), NEW c \in Client,
         q.op.type \in {"READ", "WRITE"} => q.op.conn # c,
         \A j \in DOMAIN s : s[j].type # "ACCEPT" => s[j].conn # c
  PROVE  /\ AtMostOne(Wakeups(c))'
         /\ Fresh(c)' => /\ ~Some(Wakeups(c))'
                         /\ \A i \in DOMAIN sq' : sq'[i].type = "PROV_BUF" => sq'[i].conn # c
                         /\ delivered'[c] = 0 /\ echoed'[c] = <<>>
<1>. USE DEF LendInv
<1>1. /\ AtMostOne(Wakeups(c)) => AtMostOne(Wakeups(c))'
      /\ Some(Wakeups(c))' <=> Some(Wakeups(c))
  <2>1. q.op \notin Wakeups(c) /\ \A j \in DOMAIN s : s[j] \notin Wakeups(c)
    BY DEF Wakeups, Transfers
  <2>. QED BY <2>1, AnswerCounts
<1>2. Fresh(c)' => Fresh(c)
  BY DEF Fresh, Answered
<1>3. \A i \in DOMAIN sq' : sq'[i].type = "PROV_BUF" =>
        sq'[i].conn # c \/ \E k \in DOMAIN sq : sq'[i] = sq[k]
  BY AnswerFacts
<1>4. delivered' = delivered /\ echoed' = echoed
  BY DEF Answered, dataVars
<1>. QED BY <1>1, <1>2, <1>3, <1>4 DEF WakeupInv

LEMMA AnswerIs ==
  ASSUME LendInv, NEW q \in cq, NEW s \in Seq(SqeType), Answer(q, s)
  PROVE  Answered(q, s) \/ Exit("nosqe")
<1>1. q.op.type = "READ" => q.op.fd \in Fd
  BY DEF LendInv, ShapeInv, Shaped
<1>2. shut \subseteq Fd
  BY DEF LendInv, TypeOK
<1>. QED BY <1>1, <1>2 DEF Answer, Answered

LEMMA ExitStep ==
  ASSUME LendInv, NEW reason \in Ended, Exit(reason)
  PROVE  LendInv' /\ (EchoInv => EchoInv')
BY RingStill DEF Exit, LendInv, TypeOK

LEMMA NothingAnswered ==
  ASSUME LendInv, NEW q, NEW s, Answered(q, s), DOMAIN s = {},
         q.op.type = "PROV_BUF", q.res # "err"
  PROVE  LendInv'
<1>1. TypeOK' /\ DescriptorInv'
  BY AnswerFacts
<1>2. ShapeInv'
  BY AnswerShapes
<1>3. ProvideInv'
  BY AnswerProvides
<1>4. WakeupInv'
  BY OtherWakeups DEF WakeupInv
<1>5. AcceptInv'
  BY AnswerCounts DEF LendInv, AcceptInv, Accepts, One
<1>6. BufferInv'
  <2>. SUFFICES ASSUME NEW b \in Bid PROVE InSomeHand(b)' /\ HandsApart(b)'
    BY DEF BufferInv
  <2>1. ~Selected(q, b) /\ q.op \notin Writes(b) /\ ~Failed(q, b)
    BY DEF Selected, Failed, Writes
  <2>. QED BY <2>1, BufferStays
<1>. QED BY <1>1, <1>2, <1>3, <1>4, <1>5, <1>6 DEF LendInv

(* The accept is armed again, and a connection that was accepted is asked  *)
(* for its first message.                                                  *)
LEMMA AcceptAnswered ==
  ASSUME LendInv, NEW q, NEW s, Answered(q, s), q.op.type = "ACCEPT",
         \/ DOMAIN s = {1} /\ s[1].type = "ACCEPT"
         \/ /\ DOMAIN s = {1, 2} /\ s[2].type = "ACCEPT" /\ q.res = "ok"
            /\ s[1].type = "READ" /\ s[1].fd = q.out /\ s[1].conn = open[q.out]
  PROVE  LendInv'
<1>. USE DEF LendInv
<1>0. q \in cq /\ \A j \in DOMAIN s : s[j] \in SqeType
  BY AnswerFacts DEF Answered
<1>q. q.op \in Accepts /\ None \notin Client
  BY <1>0, RingAssumption DEF TypeOK, RingTypeOK, CqeType, Accepts
<1>b. ASSUME NEW b \in Bid PROVE ~Selected(q, b) /\ q.op \notin Writes(b) /\ ~Failed(q, b)
  BY DEF Selected, Failed, Writes
<1>o. \A p \in cq \ {q} : p.op.type # "ACCEPT"
  <2>1. \A p \in cq : p.op \in SqeType
    BY DEF TypeOK, RingTypeOK, CqeType
  <2>2. \A p \in cq : p.op \in Accepts => p = q
    BY <1>0, <1>q DEF AcceptInv, One, AtMostOne
  <2>. QED BY <2>1, <2>2 DEF Accepts
<1>f. s[1].type = "READ" =>
        s[1].conn \in Client /\ s[1].fd \in Fd /\ Fresh(s[1].conn) /\ s[1].conn \notin backlog
  BY <1>0 DEF ShapeInv, Fresh, DescriptorInv
<1>1. TypeOK' /\ DescriptorInv'
  BY AnswerFacts
<1>2. ShapeInv'
  <2>1. \A j \in DOMAIN s : Shaped(s[j])
    BY <1>f DEF Shaped
  <2>. QED BY <2>1, AnswerShapes
<1>3. ProvideInv'
  BY AnswerProvides
<1>4. WakeupInv'
  <2>1. CASE s[1].type = "READ"
    <3>. DEFINE c == s[1].conn
    <3>1. ~Fresh(c)'
      BY <1>o, <1>f, <2>1 DEF Fresh, Answered
    <3>2. ~Some(Wakeups(c)) /\ s[1] \in Wakeups(c) /\ s[2] \notin Wakeups(c)
      BY <1>0, <1>f, <2>1 DEF WakeupInv, Wakeups, Transfers
    <3>3. AtMostOne(Wakeups(c))'
      BY <2>1, <3>2, AnswerCounts DEF One
    <3>. QED BY <2>1, <3>1, <3>3, OtherWakeups DEF WakeupInv
  <2>2. CASE s[1].type # "READ"
    BY <2>2, OtherWakeups DEF WakeupInv
  <2>. QED BY <2>1, <2>2
<1>5. AcceptInv'
  <2>1. \E k \in DOMAIN s : s[k] \in Accepts /\ \A j \in DOMAIN s : s[j] \in Accepts => j = k
    BY <1>0 DEF Accepts
  <2>. QED BY <1>q, <2>1, AnswerCounts DEF AcceptInv, One
<1>6. BufferInv'
  BY <1>b, BufferStays DEF BufferInv, Charged
<1>. QED BY <1>1, <1>2, <1>3, <1>4, <1>5, <1>6

(* The transfer of c that is seen, and what follows from it.               *)
LEMMA TransferSeen ==
  ASSUME LendInv, NEW q \in cq, NEW c \in Client, q.op.conn = c,
         q.op.type \in {"READ", "WRITE"}
  PROVE  /\ q.op \in Wakeups(c) /\ AtMostOne(Wakeups(c)) /\ ~Fresh(c)
         /\ q.op.fd \in Fd /\ open[q.op.fd] = c
         /\ q.op.type = "WRITE" => q.op.bid \in Bid
<1>1. q.op \in SqeType
  BY DEF LendInv, TypeOK, RingTypeOK, CqeType
<1>2. q.op \in Wakeups(c)
  BY <1>1 DEF Wakeups, Transfers
<1>. QED BY <1>2 DEF LendInv, WakeupInv, ShapeInv, Shaped, Some

(* The buffer b of the transfer of c that is seen goes to the first SQE    *)
(* that is filled in; a read may follow.                                   *)
LEMMA TransferAnswered ==
  ASSUME LendInv, NEW q, NEW s, Answered(q, s), NEW c \in Client, q.op.conn = c,
         NEW b \in Bid,
         \/ q.op.type = "READ" /\ q.out = b
         \/ q.op.type = "WRITE" /\ q.op.bid = b,
         1 \in DOMAIN s, s[1].conn = c, s[1].bid = b,
         \/ DOMAIN s = {1} /\ s[1].type = "PROV_BUF"
         \/ DOMAIN s = {1} /\ s[1].type = "WRITE" /\ s[1].fd = q.op.fd
         \/ /\ DOMAIN s = {1, 2} /\ s[1].type = "PROV_BUF"
            /\ s[2].type = "READ" /\ s[2].conn = c /\ s[2].fd = q.op.fd
  PROVE  LendInv'
<1>. USE DEF LendInv
<1>0. q \in cq /\ \A j \in DOMAIN s : s[j] \in SqeType
  BY AnswerFacts DEF Answered
<1>q. /\ q.op \in Wakeups(c) /\ AtMostOne(Wakeups(c)) /\ ~Fresh(c)
      /\ q.op.fd \in Fd /\ open[q.op.fd] = c
  BY <1>0, TransferSeen
<1>1. TypeOK' /\ DescriptorInv'
  BY AnswerFacts
<1>2. ShapeInv'
  <2>1. \A j \in DOMAIN s : Shaped(s[j])
    BY <1>q DEF Shaped
  <2>. QED BY <2>1, AnswerShapes
<1>3. ProvideInv'
  <2>1. \A j \in DOMAIN s : s[j].conn = c
    OBVIOUS
  <2>2. \A j, k \in DOMAIN s : s[j].type = "PROV_BUF" /\ s[k].type # "ACCEPT" =>
          k = j \/ (k > j /\ s[k].type = "READ")
    OBVIOUS
  <2>. QED BY <1>q, <2>1, <2>2, AnswerProvides
<1>4. WakeupInv'
  <2>1. AtMostOne(Wakeups(c))'
    <3>1. CASE \E k \in DOMAIN s : s[k] \in Wakeups(c)
      <4>1. \E k \in DOMAIN s : /\ s[k] \in Wakeups(c)
                                /\ \A j \in DOMAIN s : s[j] \in Wakeups(c) => j = k
        BY <3>1 DEF Wakeups, Transfers
      <4>. QED BY <1>q, <4>1, AnswerCounts DEF One
    <3>2. CASE \A k \in DOMAIN s : s[k] \notin Wakeups(c)
      BY <1>q, <3>2, AnswerCounts
    <3>. QED BY <3>1, <3>2
  <2>2. ~Fresh(c)'
    BY <1>q DEF Fresh, Answered
  <2>3. \A j \in DOMAIN s : s[j].conn = c
    OBVIOUS
  <2>. QED BY <2>1, <2>2, <2>3, OtherWakeups DEF WakeupInv
<1>5. AcceptInv'
  <2>1. q.op \notin Accepts /\ \A j \in DOMAIN s : s[j] \notin Accepts
    BY DEF Accepts
  <2>. QED BY <2>1, AnswerCounts DEF AcceptInv, One
<1>6. BufferInv'
  <2>. SUFFICES ASSUME NEW x \in Bid PROVE InSomeHand(x)' /\ HandsApart(x)'
    BY DEF BufferInv
  <2>1. CASE x = b
    <3>1. Selected(q, x) \/ q.op \in Writes(x)
      BY <1>q, <2>1 DEF Selected, Writes, Wakeups, Transfers
    <3>2. Charged(s[1], x) /\ \A j \in DOMAIN s : Charged(s[j], x) => j = 1
      BY <2>1 DEF Charged
    <3>. QED BY <3>1, <3>2, BufferMoves
  <2>2. CASE x # b
    <3>1. /\ ~Selected(q, x) /\ ~Failed(q, x) /\ q.op \notin Writes(x)
          /\ \A j \in DOMAIN s : ~Charged(s[j], x)
      BY <2>2 DEF Selected, Failed, Writes, Charged
    <3>. QED BY <3>1, BufferStays
  <2>. QED BY <2>1, <2>2
<1>. QED BY <1>1, <1>2, <1>3, <1>4, <1>5, <1>6

LEMMA HandleProvBufStep ==
  ASSUME LendInv, HandleProvBuf
  PROVE  LendInv' /\ (EchoInv => EchoInv')
<1>0. PICK q \in cq :
        /\ q.op.type = "PROV_BUF"
        /\ IF q.res = "err" THEN Exit("eprovide") ELSE Answer(q, <<>>)
  BY DEF HandleProvBuf, Reaping
<1>1. CASE Exit("eprovide") \/ Exit("nosqe")
  BY <1>1, ExitStep DEF Ended
<1>2. CASE q.res # "err" /\ ~Exit("nosqe")
  <2>. DEFINE s == <<>>
  <2>1. s \in Seq(SqeType) /\ DOMAIN s = {}
    OBVIOUS
  <2>2. Answered(q, s)
    BY <1>0, <1>2, <2>1, AnswerIs
  <2>. HIDE DEF s
  <2>3. LendInv'
    BY <1>0, <1>2, <2>1, <2>2, NothingAnswered
  <2>. QED BY <2>1, <2>2, <2>3, AnswerEchoes
<1>. QED BY <1>0, <1>1, <1>2

LEMMA HandleAcceptStep ==
  ASSUME LendInv, HandleAccept
  PROVE  LendInv' /\ (EchoInv => EchoInv')
<1>0. PICK q \in cq :
        /\ q.op.type = "ACCEPT"
        /\ Answer(q, AfterAccept(IF q.res = "ok" THEN open[q.out] ELSE None, q))
  BY DEF HandleAccept, Reaping
<1>1. CASE Exit("nosqe")
  BY <1>1, ExitStep DEF Ended
<1>a. PICK a : a = add_accept /\ a \in SqeType /\ a.type = "ACCEPT"
  <2>1. add_accept \in SqeType /\ add_accept.type = "ACCEPT"
    BY DEF add_accept, Sqe, SqeType
  <2>. QED BY <2>1
<1>2. CASE q.res # "ok" /\ ~Exit("nosqe")
  <2>. DEFINE s == <<a>>
  <2>1. s \in Seq(SqeType) /\ DOMAIN s = {1} /\ s[1] = a
    BY <1>a
  <2>2. Answered(q, s)
    BY <1>0, <1>2, <1>a, <2>1, AnswerIs DEF AfterAccept
  <2>. HIDE DEF s
  <2>3. LendInv'
    BY <1>0, <1>a, <2>1, <2>2, AcceptAnswered
  <2>. QED BY <1>a, <2>1, <2>2, <2>3, AnswerEchoes
<1>3. CASE q.res = "ok" /\ ~Exit("nosqe")
  <2>c. PICK c, f : c = open[f] /\ f = q.out
    OBVIOUS
  <2>f. c \in Client /\ f \in Fd /\ Fresh(c)
    BY <1>0, <1>3, <2>c DEF LendInv, ShapeInv, Fresh
  <2>r. PICK r : r = add_socket_read(c, f) /\ r \in SqeType /\ r.type = "READ"
                 /\ r.conn = c /\ r.fd = f
    <3>1. /\ add_socket_read(c, f) \in SqeType /\ add_socket_read(c, f).type = "READ"
          /\ add_socket_read(c, f).conn = c /\ add_socket_read(c, f).fd = f
      BY <2>f DEF add_socket_read, Sqe, SqeType
    <3>. QED BY <3>1
  <2>. DEFINE s == <<r, a>>
  <2>1. s \in Seq(SqeType) /\ DOMAIN s = {1, 2} /\ s[1] = r /\ s[2] = a
    BY <1>a, <2>r
  <2>2. Answered(q, s)
    BY <1>0, <1>3, <1>a, <2>1, <2>c, <2>r, AnswerIs DEF AfterAccept
  <2>. HIDE DEF s
  <2>3. LendInv'
    BY <1>0, <1>3, <1>a, <2>c, <2>r, <2>1, <2>2, AcceptAnswered
  <2>4. Level(c)
    BY <2>f DEF LendInv, WakeupInv, Level
  <2>. QED BY <1>a, <2>r, <2>1, <2>2, <2>3, <2>4, AnswerEchoes
<1>. QED BY <1>1, <1>2, <1>3

(* The message is sent from the buffer it arrived in, or the buffer of a   *)
(* read that failed is given back.                                         *)
LEMMA HandleReadStep ==
  ASSUME LendInv, NEW c \in Client, HandleRead(c)
  PROVE  LendInv' /\ (EchoInv => EchoInv')
<1>0. PICK q \in cq :
        /\ q.op.type = "READ" /\ q.op.conn = c /\ q.res # "nobufs"
        /\ Answer(q, AfterRead(c, q))
  BY DEF HandleRead, Reaping
<1>d. PICK b, f : b = q.out /\ f = q.op.fd
  OBVIOUS
<1>b. b \in Bid /\ f \in Fd
  BY <1>0, <1>d, TransferSeen DEF LendInv, ShapeInv
<1>1. CASE Exit("nosqe")
  BY <1>1, ExitStep DEF Ended
<1>2. CASE ~Exit("nosqe")
  <2>e. /\ add_socket_write(c, f, b) \in SqeType /\ add_socket_write(c, f, b).type = "WRITE"
        /\ add_socket_write(c, f, b).fd = f
        /\ add_socket_write(c, f, b).conn = c /\ add_socket_write(c, f, b).bid = b
        /\ add_provide_buf(c, b) \in SqeType /\ add_provide_buf(c, b).type = "PROV_BUF"
        /\ add_provide_buf(c, b).conn = c /\ add_provide_buf(c, b).bid = b
    BY <1>b DEF add_socket_write, add_provide_buf, Sqe, SqeType
  <2>r. PICK r : /\ r \in SqeType /\ r.conn = c /\ r.bid = b
                 /\ AfterRead(c, q) = <<r>>
                 /\ \/ q.res = "ok" /\ r.type = "WRITE" /\ r.fd = f
                    \/ q.res # "ok" /\ r.type = "PROV_BUF"
    BY <2>e, <1>d DEF AfterRead
  <2>. DEFINE s == <<r>>
  <2>1. s \in Seq(SqeType) /\ DOMAIN s = {1} /\ s[1] = r
    BY <2>r
  <2>2. Answered(q, s)
    BY <1>0, <1>2, <2>1, <2>r, AnswerIs
  <2>. HIDE DEF s
  <2>3. LendInv'
    BY <1>0, <1>d, <1>b, <2>r, <2>1, <2>2, TransferAnswered
  <2>4. EchoInv /\ q.res = "ok" => Held(c, b)
    BY <1>0, <1>d DEF EchoInv
  <2>. QED BY <2>r, <2>1, <2>2, <2>3, <2>4, AnswerEchoes
<1>. QED BY <1>1, <1>2

(* The buffer is given back, and only then the next message asked for.     *)
LEMMA HandleWriteStep ==
  ASSUME LendInv, NEW c \in Client, HandleWrite(c)
  PROVE  LendInv' /\ (EchoInv => EchoInv')
<1>0. PICK q \in cq :
        /\ q.op.type = "WRITE" /\ q.op.conn = c
        /\ Answer(q, AfterWrite(c, q))
  BY DEF HandleWrite, Reaping
<1>d. PICK b, f : b = q.op.bid /\ f = q.op.fd
  OBVIOUS
<1>b. b \in Bid /\ f \in Fd
  BY <1>0, <1>d, TransferSeen
<1>1. CASE Exit("nosqe")
  BY <1>1, ExitStep DEF Ended
<1>2. CASE ~Exit("nosqe")
  <2>e. /\ add_socket_read(c, f) \in SqeType /\ add_socket_read(c, f).type = "READ"
        /\ add_socket_read(c, f).conn = c /\ add_socket_read(c, f).fd = f
        /\ add_provide_buf(c, b) \in SqeType /\ add_provide_buf(c, b).type = "PROV_BUF"
        /\ add_provide_buf(c, b).conn = c /\ add_provide_buf(c, b).bid = b
    BY <1>b DEF add_socket_read, add_provide_buf, Sqe, SqeType
  <2>r. PICK p, r : /\ p \in SqeType /\ p.type = "PROV_BUF" /\ p.conn = c /\ p.bid = b
                    /\ r \in SqeType /\ r.type = "READ" /\ r.conn = c /\ r.fd = f
                    /\ AfterWrite(c, q) = <<p, r>>
    BY <2>e, <1>d DEF AfterWrite
  <2>. DEFINE s == <<p, r>>
  <2>1. s \in Seq(SqeType) /\ DOMAIN s = {1, 2} /\ s[1] = p /\ s[2] = r
    BY <2>r
  <2>2. Answered(q, s)
    BY <1>0, <1>2, <2>1, <2>r, AnswerIs
  <2>. HIDE DEF s
  <2>3. LendInv'
    BY <1>0, <1>d, <1>b, <2>r, <2>1, <2>2, TransferAnswered
  <2>4. EchoInv => Level(c)
    BY <1>0 DEF EchoInv
  <2>. QED BY <2>r, <2>1, <2>2, <2>3, <2>4, AnswerEchoes
<1>. QED BY <1>1, <1>2

LEMMA NextCoreInv == CoreInv /\ [Next]_vars => CoreInv'
<1>. SUFFICES ASSUME LendInv, [Next]_vars PROVE LendInv' /\ (EchoInv => EchoInv')
  BY DEF CoreInv
<1>1. CASE Enter \/ Return
  BY <1>1, RingStill DEF Enter, Return, LendInv, TypeOK
<1>2. CASE KernelConsumes
  BY <1>2, ConsumeProvideStep, ConsumeRequestStep DEF KernelConsumes
<1>3. CASE AcceptFailed
  BY <1>3, AcceptFailedStep
<1>4. CASE OutOfBuffers
  BY <1>4, ExitStep DEF OutOfBuffers, Ended
<1>5. CASE HandleProvBuf
  BY <1>5, HandleProvBufStep
<1>6. CASE HandleAccept
  BY <1>6, HandleAcceptStep
<1>7. ASSUME NEW c \in Client, Accepted(c) \/ Received(c) \/ ReceiveFailed(c) \/ Sent(c)
      PROVE  LendInv' /\ (EchoInv => EchoInv')
  BY <1>7, AcceptedStep, ReceivedStep, ReceiveFailedStep, SentStep
<1>8. ASSUME NEW c \in Client, HandleRead(c) \/ HandleWrite(c)
      PROVE  LendInv' /\ (EchoInv => EchoInv')
  BY <1>8, HandleReadStep, HandleWriteStep
<1>9. CASE UNCHANGED vars
  BY <1>9, RingStill DEF vars, echoVars, LendInv, TypeOK
<1>. QED BY <1>1, <1>2, <1>3, <1>4, <1>5, <1>6, <1>7, <1>8, <1>9 DEF Next

(* The routing, the hands of the buffers and what they hold, in every      *)
(* reachable state.                                                        *)
THEOREM CoreInvariance == Spec => []CoreInv
<1>. QED BY InitCoreInv, NextCoreInv, PTL DEF Spec

(* Every variable keeps its type.                                          *)
THEOREM TypeCorrect == Spec => []TypeOK
<1>1. CoreInv => TypeOK
  BY DEF CoreInv, LendInv
<1>. QED BY <1>1, CoreInvariance, PTL

(* Although buffers pass from connection to connection, each client gets   *)
(* its own messages back, once and in order.                               *)
THEOREM EchoesInOrderHolds == Spec => []EchoesInOrder
<1>1. CoreInv => EchoesInOrder
  BY DEF CoreInv, EchoInv
<1>. QED BY <1>1, CoreInvariance, PTL

--------------------------------------------------------------------------------
(* The refinement of BufferPool: whose hands a buffer is in.               *)
InHands(c, b) == Lent(c, b) \/ Returning(c, b)

LEMMA LentIs ==
  ASSUME NEW c, NEW b
  PROVE  Lent(c, b) <=>
           \/ \E i \in DOMAIN sq : sq[i].type = "WRITE" /\ sq[i].conn = c /\ sq[i].bid = b
           \/ \E e \in inflight : e.type = "WRITE" /\ e.conn = c /\ e.bid = b
           \/ \E q \in cq : q.op.type = "WRITE" /\ q.op.conn = c /\ q.op.bid = b
           \/ \E q \in cq : q.op.type = "READ" /\ q.op.conn = c /\ q.out = b
BY DEF Lent, Operations

LEMMA HandFacts ==
  ASSUME LendInv, NEW b \in Bid
  PROVE  /\ b \in group <=> \A c \in Client : ~InHands(c, b)
         /\ \A c, d \in Client : InHands(c, b) /\ InHands(d, b) => c = d
         /\ \A c, d \in Client : ~(Lent(c, b) /\ Returning(d, b))
<1>. USE DEF LendInv
<1>1. InSomeHand(b) /\ HandsApart(b)
  BY DEF BufferInv
<1>t. /\ \A i \in DOMAIN sq : sq[i] \in SqeType /\ Shaped(sq[i])
      /\ \A e \in inflight : e \in SqeType /\ Shaped(e)
      /\ \A q \in cq : q.op \in SqeType /\ Shaped(q.op)
  BY DEF TypeOK, RingTypeOK, CqeType, ShapeInv
<1>2. \A c \in Client : Lent(c, b) <=>
        \/ \E i \in DOMAIN sq : sq[i] \in Writes(b) /\ sq[i].conn = c
        \/ \E e \in inflight : e \in Writes(b) /\ e.conn = c
        \/ \E q \in cq : (q.op \in Writes(b) \/ Selected(q, b)) /\ q.op.conn = c
  BY <1>t, LentIs DEF Selected, Writes
<1>3. \A c \in Client : Returning(c, b) <=>
        \/ \E i \in DOMAIN sq : Providing(i, b) /\ sq[i].conn = c
        \/ \E q \in cq : Failed(q, b) /\ q.op.conn = c
  BY DEF Returning, Providing, Failed
<1>l. \A c \in Client : Lent(c, b) => Some(Writes(b)) \/ \E q \in cq : Selected(q, b)
  BY <1>2 DEF Some
<1>4. b \in group => \A c \in Client : ~InHands(c, b)
  BY <1>1, <1>l, <1>3 DEF HandsApart, InHands
<1>5. ASSUME b \notin group PROVE \E c \in Client : InHands(c, b)
  <2>1. CASE Some(Writes(b))
    BY <1>t, <1>2, <2>1 DEF Some, Writes, Shaped, InHands
  <2>2. CASE \E q \in cq : Selected(q, b) \/ Failed(q, b)
    BY <1>t, <1>2, <1>3, <2>2 DEF Selected, Failed, Shaped, InHands
  <2>3. CASE \E i \in DOMAIN sq : Providing(i, b)
    BY <1>t, <1>3, <2>3 DEF Providing, Shaped, InHands
  <2>. QED BY <1>1, <1>5, <2>1, <2>2, <2>3 DEF InSomeHand
<1>6. \A c, d \in Client : Lent(c, b) /\ Lent(d, b) => c = d
  <2>1. AtMostOne(Writes(b))
    BY <1>1 DEF HandsApart
  <2>2. ASSUME NEW q \in cq, Selected(q, b), NEW c \in Client, Lent(c, b)
        PROVE  c = q.op.conn
    BY <1>1, <1>2, <2>2 DEF HandsApart, Some
  <2>3. ASSUME \A q \in cq : ~Selected(q, b),
               NEW c \in Client, NEW d \in Client, Lent(c, b), Lent(d, b)
        PROVE  c = d
    BY <1>2, <2>1, <2>3 DEF AtMostOne
  <2>. QED BY <2>2, <2>3
<1>7. \A c, d \in Client : Returning(c, b) /\ Returning(d, b) => c = d
  BY <1>1, <1>3 DEF HandsApart
<1>8. \A c, d \in Client : ~(Lent(c, b) /\ Returning(d, b))
  BY <1>1, <1>l, <1>3 DEF HandsApart
<1>. QED BY <1>4, <1>5, <1>6, <1>7, <1>8 DEF InHands

LEMMA OwnerFacts ==
  ASSUME LendInv, NEW b \in Bid
  PROVE  /\ b \in group => OwnerOf(b) = None
         /\ \A c \in Client : InHands(c, b) => OwnerOf(b) = c
         /\ \A c \in Client : OwnerOf(b) = c => InHands(c, b)
<1>1. b \in group => OwnerOf(b) = None
  BY DEF OwnerOf
<1>2. ASSUME NEW c \in Client, InHands(c, b) PROVE OwnerOf(b) = c
  BY <1>2, HandFacts DEF OwnerOf, InHands
<1>3. ASSUME NEW c \in Client, OwnerOf(b) = c PROVE InHands(c, b)
  BY <1>1, <1>2, <1>3, HandFacts, RingAssumption
<1>. QED BY <1>1, <1>2, <1>3

(* What the owner becomes, from what becomes of the hands.                 *)
LEMMA OwnerStays ==
  ASSUME LendInv, NEW b \in Bid, b \in group' <=> b \in group,
         \A c \in Client : InHands(c, b)' <=> InHands(c, b)
  PROVE  OwnerOf(b)' = OwnerOf(b)
<1>1. CASE b \in group
  BY <1>1 DEF OwnerOf
<1>2. CASE b \notin group
  <2>1. PICK c \in Client : InHands(c, b)
    BY <1>2, HandFacts
  <2>2. OwnerOf(b) = c
    BY <2>1, OwnerFacts
  <2>3. InHands(c, b)' /\ b \notin group'
    BY <1>2, <2>1
  <2>4. \A d \in Client : InHands(d, b)' => d = c
    BY <2>1, HandFacts
  <2>5. OwnerOf(b)' = c
    BY <2>3, <2>4 DEF OwnerOf, InHands
  <2>. QED BY <2>2, <2>5
<1>. QED BY <1>1, <1>2

(* A step that leaves the buffers in the same hands.                       *)
LEMMA SameHands ==
  ASSUME LendInv, group' = group,
         \A b \in Bid, c \in Client :
           /\ Lent(c, b)' <=> Lent(c, b)
           /\ Returning(c, b)' <=> Returning(c, b)
  PROVE  UNCHANGED Lending!vars
<1>1. \A b \in Bid : OwnerOf(b)' = OwnerOf(b)
  BY OwnerStays DEF InHands
<1>. QED BY <1>1 DEF Lending!vars

(* A buffer leaves the group for a connection that has no other.           *)
LEMMA HandsLend ==
  ASSUME LendInv, NEW c \in Client, NEW b \in Bid, b \in group,
         group' = group \ {b}, \A d \in Bid : ~Lent(c, d),
         \A d \in Bid, e \in Client :
           /\ Lent(e, d)' <=> Lent(e, d) \/ (e = c /\ d = b)
           /\ Returning(e, d)' <=> Returning(e, d)
  PROVE  Lending!Lend(c, b)
<1>1. OwnerOf(b) = None
  BY OwnerFacts
<1>2. ASSUME NEW d \in Bid, OwnerOf(d) = c PROVE \E e \in Client : Returning(e, d)
  BY <1>2, OwnerFacts DEF InHands
<1>3. OwnerOf(b)' = c
  <2>1. \A e \in Client : InHands(e, b)' <=> e = c
    BY HandFacts DEF InHands
  <2>. QED BY <2>1 DEF OwnerOf, InHands
<1>4. ASSUME NEW d \in Bid, d # b PROVE OwnerOf(d)' = OwnerOf(d)
  BY <1>4, OwnerStays DEF InHands
<1>. QED BY <1>1, <1>2, <1>3, <1>4 DEF Lending!Lend

(* The borrower of a buffer is done with it.                               *)
LEMMA HandsRelease ==
  ASSUME LendInv, NEW c \in Client, NEW b \in Bid, Lent(c, b), group' = group,
         \A d \in Bid, e \in Client :
           /\ Lent(e, d)' <=> Lent(e, d) /\ ~(e = c /\ d = b)
           /\ Returning(e, d)' <=> Returning(e, d) \/ (e = c /\ d = b)
  PROVE  Lending!Release(b)
<1>1. OwnerOf(b) = c /\ c # None
  BY OwnerFacts, RingAssumption DEF InHands
<1>2. \A e \in Client : ~Returning(e, b)
  BY HandFacts
<1>3. ASSUME NEW d \in Bid PROVE OwnerOf(d)' = OwnerOf(d)
  <2>1. \A e \in Client : InHands(e, d)' <=> InHands(e, d)
    BY DEF InHands
  <2>. QED BY <2>1, OwnerStays
<1>. QED BY <1>1, <1>2, <1>3 DEF Lending!Release

(* A buffer on its way back joins the group.                               *)
LEMMA HandsReturn ==
  ASSUME LendInv, NEW c \in Client, NEW b \in Bid, Returning(c, b),
         group' = group \union {b},
         \A d \in Bid, e \in Client :
           /\ Lent(e, d)' <=> Lent(e, d)
           /\ Returning(e, d)' <=> Returning(e, d) /\ d # b
  PROVE  Lending!Return(b)
<1>1. OwnerOf(b)' = None
  BY DEF OwnerOf
<1>2. ASSUME NEW d \in Bid, d # b PROVE OwnerOf(d)' = OwnerOf(d)
  BY <1>2, OwnerStays DEF InHands
<1>. QED BY <1>1, <1>2 DEF Lending!Return

(* A connection waiting for a message has no buffer.                       *)
LEMMA ReaderHasNone ==
  ASSUME LendInv, NEW op \in inflight, op.type = "READ", NEW c \in Client, op.conn = c,
         NEW b \in Bid
  PROVE  ~Lent(c, b)
<1>1. op \in Wakeups(c) /\ AtMostOne(Wakeups(c))
  BY DEF LendInv, TypeOK, RingTypeOK, WakeupInv, Wakeups, Transfers
<1>2. /\ \A i \in DOMAIN sq : sq[i] \notin Wakeups(c)
      /\ \A e \in inflight : e \in Wakeups(c) => e = op
      /\ \A q \in cq : q.op \notin Wakeups(c)
  BY <1>1 DEF AtMostOne
<1>3. /\ \A i \in DOMAIN sq : sq[i] \in SqeType
      /\ \A e \in inflight : e \in SqeType
      /\ \A q \in cq : q.op \in SqeType
  BY DEF LendInv, TypeOK, RingTypeOK, CqeType
<1>. QED BY <1>2, <1>3, LentIs DEF Wakeups, Transfers

--------------------------------------------------------------------------------
(* Every step of the server is one of the pool, or none.                   *)
LEMMA ConsumeRefines ==
  ASSUME LendInv, KernelConsumes
  PROVE  [Lending!Next]_(Lending!vars)
<1>. USE DEF LendInv
<1>. RingTypeOK /\ sq # <<>>
  BY DEF TypeOK, KernelConsumes, ConsumeProvide, ConsumeProvideFails, ConsumeRequest
<1>s. sq' = Tail(sq)
  BY DEF KernelConsumes, ConsumeProvide, ConsumeProvideFails, ConsumeRequest
<1>t. /\ Head(sq) = sq[1] /\ 1 \in DOMAIN sq
      /\ DOMAIN Tail(sq) = 1 .. (Len(sq) - 1) /\ Len(sq) \in Nat
      /\ \A i \in DOMAIN Tail(sq) : i + 1 \in DOMAIN sq /\ Tail(sq)[i] = sq[i + 1]
      /\ \A j \in DOMAIN sq : j = 1 \/ (j - 1 \in DOMAIN Tail(sq) /\ Tail(sq)[j - 1] = sq[j])
  BY TailFacts
<1>i. /\ \A i \in DOMAIN sq' : \E j \in DOMAIN sq : j # 1 /\ sq'[i] = sq[j]
      /\ \A j \in DOMAIN sq : j = 1 \/ \E i \in DOMAIN sq' : sq'[i] = sq[j]
  <2>1. \A i \in DOMAIN sq' : i + 1 \in DOMAIN sq /\ i + 1 # 1 /\ sq'[i] = sq[i + 1]
    BY <1>s, <1>t
  <2>2. \A j \in DOMAIN sq : j = 1 \/ (j - 1 \in DOMAIN sq' /\ sq'[j - 1] = sq[j])
    BY <1>s, <1>t
  <2>. QED BY <2>1, <2>2
<1>1. CASE ConsumeProvide
  <2>0. PICK b, c : b = Head(sq).bid /\ c = Head(sq).conn
    OBVIOUS
  <2>1. /\ b \in Bid /\ c \in Client /\ Head(sq).type = "PROV_BUF" /\ Providing(1, b)
        /\ inflight' = inflight
    BY <1>t, <1>1, <2>0 DEF ShapeInv, Shaped, ConsumeProvide, Providing
  <2>2. Returning(c, b) /\ group' = group \union {b}
    BY <1>1, <1>t, <2>0, <2>1 DEF Returning, ConsumeProvide
  <2>3. PICK r : cq' = cq \union {r} /\ r.op = Head(sq) /\ r.res = "ok"
    BY <1>1, Posted DEF ConsumeProvide
  <2>4. ASSUME NEW d \in Bid, NEW e \in Client PROVE Lent(e, d)' <=> Lent(e, d)
    BY <1>i, <1>t, <2>1, <2>3, LentIs DEF Lent, Operations
  <2>5. ASSUME NEW d \in Bid, NEW e \in Client
        PROVE Returning(e, d)' <=> Returning(e, d) /\ d # b
    <3>1. HandsApart(b)
      BY <2>1 DEF BufferInv
    <3>2. \A j \in DOMAIN sq : j # 1 => ~Providing(j, b)
      BY <1>t, <2>1, <3>1 DEF HandsApart
    <3>3. \A q \in cq : ~Failed(q, b)
      BY <1>t, <2>1, <3>1 DEF HandsApart
    <3>4. ~Returning(e, b)'
      BY <1>i, <2>3, <3>2, <3>3 DEF Returning, Providing, Failed
    <3>5. Returning(e, d)' => Returning(e, d)
      BY <1>i, <2>3 DEF Returning
    <3>6. Returning(e, d) /\ d # b => Returning(e, d)'
      BY <1>i, <1>t, <2>0, <2>1, <2>3 DEF Returning
    <3>. QED BY <3>4, <3>5, <3>6
  <2>. QED BY <2>1, <2>2, <2>4, <2>5, HandsReturn DEF Lending!Next
<1>2. CASE ConsumeProvideFails
  <2>1. Head(sq).type = "PROV_BUF" /\ group' = group /\ inflight' = inflight
    BY <1>2 DEF ConsumeProvideFails
  <2>2. PICK r : cq' = cq \union {r} /\ r.op = Head(sq) /\ r.res = "err"
    BY <1>2, Posted DEF ConsumeProvideFails
  <2>3. ASSUME NEW d \in Bid, NEW e \in Client PROVE Lent(e, d)' <=> Lent(e, d)
    BY <1>i, <1>t, <2>1, <2>2 DEF Lent, Operations
  <2>4. ASSUME NEW d \in Bid, NEW e \in Client PROVE Returning(e, d)' <=> Returning(e, d)
    BY <1>i, <1>t, <2>1, <2>2 DEF Returning
  <2>. QED BY <2>1, <2>3, <2>4, SameHands
<1>3. CASE ConsumeRequest
  <2>1. /\ cq' = cq /\ group' = group /\ Head(sq).type # "PROV_BUF"
        /\ inflight' = inflight \union {Head(sq)}
    BY <1>3 DEF ConsumeRequest
  <2>2. ASSUME NEW d \in Bid, NEW e \in Client PROVE Lent(e, d)' <=> Lent(e, d)
    BY <1>i, <1>t, <2>1 DEF Lent, Operations
  <2>3. ASSUME NEW d \in Bid, NEW e \in Client PROVE Returning(e, d)' <=> Returning(e, d)
    BY <1>i, <1>t, <2>1 DEF Returning
  <2>. QED BY <2>1, <2>2, <2>3, SameHands
<1>. QED BY <1>1, <1>2, <1>3 DEF KernelConsumes

(* A completion that selects no buffer leaves them where they are.         *)
LEMMA PlainCompletionRefines ==
  ASSUME LendInv, NEW op, NEW res, NEW out, Complete(op, res, out),
         op.type # "READ" \/ out \notin Bid,
         sq' = sq, group' = group
  PROVE  UNCHANGED Lending!vars
<1>1. PICK r : cq' = cq \union {r} /\ r.op = op /\ r.out = out
  BY Posted DEF Complete
<1>2. op.type # "PROV_BUF" /\ op \in inflight /\ inflight' = inflight \ {op}
  BY DEF LendInv, ShapeInv, Complete
<1>3. ASSUME NEW d \in Bid, NEW e \in Client
      PROVE  /\ Lent(e, d)' <=> Lent(e, d)
             /\ Returning(e, d)' <=> Returning(e, d)
  BY <1>1, <1>2 DEF Lent, Operations, Returning
<1>. QED BY <1>3, SameHands

(* A read lends the buffer the kernel selected, when it fails too.         *)
LEMMA CompleteRecvRefines ==
  ASSUME LendInv, NEW c \in Client, NEW b \in Bid, NEW res, CompleteRecv(c, b, res)
  PROVE  Lending!Next
<1>0. PICK op \in inflight :
        /\ op.type = "READ" /\ op.conn = c /\ b \in group
        /\ Complete(op, res, b)
        /\ group' = group \ {b}
        /\ UNCHANGED <<sq, open, backlog>>
  BY DEF CompleteRecv
<1>1. PICK r : cq' = cq \union {r} /\ r.op = op /\ r.out = b
  BY <1>0, Posted DEF Complete
<1>2. \A d \in Bid : ~Lent(c, d)
  BY <1>0, ReaderHasNone
<1>3. ASSUME NEW d \in Bid, NEW e \in Client
      PROVE  /\ Lent(e, d)' <=> Lent(e, d) \/ (e = c /\ d = b)
             /\ Returning(e, d)' <=> Returning(e, d)
  BY <1>0, <1>1 DEF Lent, Operations, Returning, Complete
<1>4. Lending!Lend(c, b)
  BY <1>0, <1>2, <1>3, HandsLend
<1>. QED BY <1>4 DEF Lending!Next

(* The loop leaves every buffer where it is, but passes one from a read to *)
(* the write, or releases it.                                              *)
LEMMA AnswerRefines ==
  ASSUME LendInv, NEW q, NEW s, Answered(q, s), q.op.type \notin {"READ", "WRITE"},
         q.op.type = "PROV_BUF" => q.res # "err",
         \A j \in DOMAIN s : s[j].type \notin {"WRITE", "PROV_BUF"}
  PROVE  UNCHANGED Lending!vars
<1>1. /\ \A i \in DOMAIN sq : i \in DOMAIN sq' /\ sq'[i] = sq[i]
      /\ \A i \in DOMAIN sq' : i \in DOMAIN sq \/ \E j \in DOMAIN s : sq'[i] = s[j]
  BY AnswerFacts
<1>2. cq' = cq \ {q} /\ inflight' = inflight /\ group' = group
  BY DEF Answered
<1>3. ASSUME NEW d \in Bid, NEW e \in Client
      PROVE  /\ Lent(e, d)' <=> Lent(e, d)
             /\ Returning(e, d)' <=> Returning(e, d)
  BY <1>1, <1>2 DEF Lent, Operations, Returning
<1>. QED BY <1>2, <1>3, SameHands

(* The buffer b of the transfer that is seen goes to r, the first SQE that *)
(* is filled in.                                                           *)
LEMMA TransferRefines ==
  ASSUME LendInv, NEW q, NEW s, Answered(q, s), NEW c \in Client, q.op.conn = c,
         NEW b \in Bid,
         \/ q.op.type = "READ" /\ q.out = b
         \/ q.op.type = "WRITE" /\ q.op.bid = b,
         1 \in DOMAIN s, s[1].conn = c, s[1].bid = b, s[1].type \in {"WRITE", "PROV_BUF"},
         \A j \in DOMAIN s : j = 1 \/ s[j].type \notin {"WRITE", "PROV_BUF"}
  PROVE  [Lending!Next]_(Lending!vars)
<1>1. /\ \A i \in DOMAIN sq : i \in DOMAIN sq' /\ sq'[i] = sq[i]
      /\ \A i \in DOMAIN sq' : i \in DOMAIN sq \/ \E j \in DOMAIN s : sq'[i] = s[j]
      /\ \E i \in DOMAIN sq' : sq'[i] = s[1]
  BY AnswerFacts
<1>2. cq' = cq \ {q} /\ q \in cq /\ inflight' = inflight /\ group' = group
  BY DEF Answered
<1>3. Lent(c, b)
  BY <1>2, LentIs
<1>w. q.op \in Wakeups(c) /\ AtMostOne(Wakeups(c))
  BY <1>2, TransferSeen
<1>4. /\ \A i \in DOMAIN sq : sq[i] \notin Wakeups(c)
      /\ \A e \in inflight : e \notin Wakeups(c)
      /\ \A p \in cq' : p.op \notin Wakeups(c)
  BY <1>2, <1>w DEF AtMostOne
<1>5. /\ \A i \in DOMAIN sq : ~(sq[i].type = "WRITE" /\ sq[i].conn = c)
      /\ \A e \in inflight : ~(e.type = "WRITE" /\ e.conn = c)
      /\ \A p \in cq' : ~(p.op.type \in {"READ", "WRITE"} /\ p.op.conn = c)
  <2>1. /\ \A i \in DOMAIN sq : sq[i] \in SqeType
        /\ \A e \in inflight : e \in SqeType
        /\ \A p \in cq' : p.op \in SqeType
    BY <1>2 DEF LendInv, TypeOK, RingTypeOK, CqeType
  <2>. QED BY <1>4, <2>1 DEF Wakeups, Transfers
<1>6. ASSUME NEW d \in Bid, Lent(c, d) PROVE d = b
  BY <1>2, <1>5, <1>6, LentIs
<1>7. CASE s[1].type = "WRITE"
  <2>1. ASSUME NEW d \in Bid, NEW e \in Client
        PROVE  Returning(e, d)' <=> Returning(e, d)
    BY <1>1, <1>2, <1>7 DEF Returning
  <2>2. ASSUME NEW d \in Bid, NEW e \in Client
        PROVE  Lent(e, d)' <=> Lent(e, d)
    <3>1. CASE e = c
      <4>1. Lent(c, b)'
        BY <1>1, <1>7 DEF Lent, Operations
      <4>2. Lent(c, d)' => d = b
        BY <1>1, <1>2, <1>5, <1>7 DEF Lent, Operations
      <4>. QED BY <1>3, <1>6, <3>1, <4>1, <4>2
    <3>2. CASE e # c
      BY <1>1, <1>2, <1>7, <3>2 DEF Lent, Operations
    <3>. QED BY <3>1, <3>2
  <2>. QED BY <1>2, <2>1, <2>2, SameHands
<1>8. CASE s[1].type = "PROV_BUF"
  <2>1. ASSUME NEW d \in Bid, NEW e \in Client
        PROVE  Returning(e, d)' <=> Returning(e, d) \/ (e = c /\ d = b)
    BY <1>1, <1>2, <1>8 DEF Returning
  <2>2. ASSUME NEW d \in Bid, NEW e \in Client
        PROVE  Lent(e, d)' <=> Lent(e, d) /\ ~(e = c /\ d = b)
    <3>1. CASE e = c
      <4>1. ~Lent(c, d)'
        BY <1>1, <1>2, <1>5, <1>8 DEF Lent, Operations
      <4>. QED BY <1>6, <3>1, <4>1
    <3>2. CASE e # c
      BY <1>1, <1>2, <1>8, <3>2 DEF Lent, Operations
    <3>. QED BY <3>1, <3>2
  <2>. QED BY <1>2, <1>3, <2>1, <2>2, HandsRelease DEF Lending!Next
<1>. QED BY <1>7, <1>8

LEMMA ExitRefines ==
  ASSUME LendInv, NEW reason, Exit(reason)
  PROVE  UNCHANGED Lending!vars
BY SameHands DEF Exit, ringVars, Lent, Operations, Returning

LEMMA HandlersRefine ==
  ASSUME LendInv,
         OutOfBuffers \/ HandleProvBuf \/ HandleAccept
           \/ \E c \in Client : HandleRead(c) \/ HandleWrite(c)
  PROVE  [Lending!Next]_(Lending!vars)
<1>0. \A r : Exit(r) => UNCHANGED Lending!vars
  BY ExitRefines
<1>1. CASE OutOfBuffers
  BY <1>0, <1>1 DEF OutOfBuffers
<1>2. ASSUME HandleProvBuf, ~ UNCHANGED Lending!vars PROVE FALSE
  <2>. DEFINE s == <<>>
  <2>1. s \in Seq(SqeType) /\ DOMAIN s = {}
    OBVIOUS
  <2>2. PICK q \in cq : q.op.type = "PROV_BUF" /\ q.res # "err" /\ Answer(q, s)
    BY <1>0, <1>2 DEF HandleProvBuf, Reaping
  <2>. HIDE DEF s
  <2>3. Answered(q, s)
    BY <1>0, <1>2, <2>1, <2>2, AnswerIs
  <2>. QED BY <1>2, <2>1, <2>2, <2>3, AnswerRefines
<1>3. ASSUME HandleAccept, ~ UNCHANGED Lending!vars PROVE FALSE
  <2>1. PICK q \in cq :
          /\ q.op.type = "ACCEPT"
          /\ Answer(q, AfterAccept(IF q.res = "ok" THEN open[q.out] ELSE None, q))
    BY <1>3 DEF HandleAccept, Reaping
  <2>2. PICK c : c = IF q.res = "ok" THEN open[q.out] ELSE None
    OBVIOUS
  <2>3. q.res = "ok" => c \in Client /\ q.out \in Fd
    BY <2>1, <2>2 DEF LendInv, ShapeInv
  <2>4. add_accept \in SqeType /\ add_accept.type = "ACCEPT"
    BY DEF add_accept, Sqe, SqeType
  <2>5. q.res = "ok" => /\ add_socket_read(c, q.out) \in SqeType
                        /\ add_socket_read(c, q.out).type = "READ"
    BY <2>3 DEF add_socket_read, Sqe, SqeType
  <2>6. PICK s \in Seq(SqeType) :
          /\ s = AfterAccept(c, q)
          /\ \A j \in DOMAIN s : s[j].type \notin {"WRITE", "PROV_BUF"}
    <3>1. PICK a, r : a = add_accept /\ r = add_socket_read(c, q.out)
      OBVIOUS
    <3>. DEFINE s == IF q.res = "ok" THEN <<r, a>> ELSE <<a>>
    <3>2. s = AfterAccept(c, q)
      BY <3>1 DEF AfterAccept
    <3>3. CASE q.res = "ok"
      <4>1. s = <<r, a>> /\ s \in Seq(SqeType) /\ DOMAIN s = {1, 2} /\ s[1] = r /\ s[2] = a
        BY <2>4, <2>5, <3>1, <3>3
      <4>2. \A j \in DOMAIN s : s[j].type \notin {"WRITE", "PROV_BUF"}
        BY <2>4, <2>5, <3>1, <3>3, <4>1
      <4>. QED BY <3>2, <4>1, <4>2
    <3>4. CASE q.res # "ok"
      <4>1. s = <<a>> /\ s \in Seq(SqeType) /\ DOMAIN s = {1} /\ s[1] = a
        BY <2>4, <3>1, <3>4
      <4>2. \A j \in DOMAIN s : s[j].type \notin {"WRITE", "PROV_BUF"}
        BY <2>4, <3>1, <4>1
      <4>. QED BY <3>2, <4>1, <4>2
    <3>. QED BY <3>3, <3>4
  <2>7. Answered(q, s)
    BY <1>0, <1>3, <2>1, <2>2, <2>6, AnswerIs
  <2>. QED BY <1>3, <2>1, <2>6, <2>7, AnswerRefines
<1>4. ASSUME NEW c \in Client, HandleRead(c), ~ UNCHANGED Lending!vars
      PROVE  [Lending!Next]_(Lending!vars)
  <2>1. PICK q \in cq :
          /\ q.op.type = "READ" /\ q.op.conn = c /\ q.res # "nobufs"
          /\ Answer(q, AfterRead(c, q))
    BY <1>4 DEF HandleRead, Reaping
  <2>2. PICK b, f : b = q.out /\ f = q.op.fd
    OBVIOUS
  <2>3. b \in Bid /\ f \in Fd
    BY <2>1, <2>2 DEF LendInv, ShapeInv, Shaped
  <2>4. /\ add_socket_write(c, f, b) \in SqeType /\ add_socket_write(c, f, b).type = "WRITE"
        /\ add_socket_write(c, f, b).conn = c /\ add_socket_write(c, f, b).bid = b
        /\ add_provide_buf(c, b) \in SqeType /\ add_provide_buf(c, b).type = "PROV_BUF"
        /\ add_provide_buf(c, b).conn = c /\ add_provide_buf(c, b).bid = b
    BY <2>3 DEF add_socket_write, add_provide_buf, Sqe, SqeType
  <2>5. PICK r \in SqeType : /\ r.conn = c /\ r.bid = b /\ r.type \in {"WRITE", "PROV_BUF"}
                             /\ AfterRead(c, q) = <<r>>
    BY <2>2, <2>4 DEF AfterRead
  <2>. DEFINE s == <<r>>
  <2>6. s \in Seq(SqeType) /\ DOMAIN s = {1} /\ s[1] = r
    BY <2>5
  <2>7. Answered(q, s)
    BY <1>0, <1>4, <2>1, <2>5, <2>6, AnswerIs
  <2>. HIDE DEF s
  <2>. QED BY <2>1, <2>2, <2>3, <2>5, <2>6, <2>7, TransferRefines
<1>5. ASSUME NEW c \in Client, HandleWrite(c), ~ UNCHANGED Lending!vars
      PROVE  [Lending!Next]_(Lending!vars)
  <2>1. PICK q \in cq :
          q.op.type = "WRITE" /\ q.op.conn = c /\ Answer(q, AfterWrite(c, q))
    BY <1>5 DEF HandleWrite, Reaping
  <2>2. PICK b, f : b = q.op.bid /\ f = q.op.fd
    OBVIOUS
  <2>3. b \in Bid /\ f \in Fd
    BY <2>1, <2>2 DEF LendInv, ShapeInv, Shaped
  <2>4. /\ add_socket_read(c, f) \in SqeType /\ add_socket_read(c, f).type = "READ"
        /\ add_provide_buf(c, b) \in SqeType /\ add_provide_buf(c, b).type = "PROV_BUF"
        /\ add_provide_buf(c, b).conn = c /\ add_provide_buf(c, b).bid = b
    BY <2>3 DEF add_socket_read, add_provide_buf, Sqe, SqeType
  <2>5. PICK p \in SqeType, r \in SqeType :
          /\ p.conn = c /\ p.bid = b /\ p.type = "PROV_BUF" /\ r.type = "READ"
          /\ AfterWrite(c, q) = <<p, r>>
    BY <2>2, <2>4 DEF AfterWrite
  <2>. DEFINE s == <<p, r>>
  <2>6. s \in Seq(SqeType) /\ DOMAIN s = {1, 2} /\ s[1] = p /\ s[2] = r
    BY <2>5
  <2>7. Answered(q, s)
    BY <1>0, <1>5, <2>1, <2>5, <2>6, AnswerIs
  <2>. HIDE DEF s
  <2>. QED BY <2>1, <2>2, <2>3, <2>5, <2>6, <2>7, TransferRefines
<1>. QED BY <1>1, <1>2, <1>3, <1>4, <1>5

(* Buffers are lent, released and returned as in the web server, although  *)
(* a connection here borrows again and again and keeps no state but in its *)
(* operations.                                                             *)
THEOREM PoolDisciplineHolds == Spec => PoolDiscipline
<1>1. Init => Lending!Init
  <2>. SUFFICES ASSUME Init PROVE Lending!Init
    OBVIOUS
  <2>1. /\ group = Bid /\ cq = {} /\ DOMAIN sq = {1} /\ sq[1].type = "ACCEPT"
    BY DEF Init, add_accept, Sqe
  <2>. QED BY <2>1 DEF Lending!Init, OwnerOf, Returning
<1>0. CoreInv => LendInv
  BY DEF CoreInv
<1>2. LendInv /\ [Next]_vars => [Lending!Next]_(Lending!vars)
  <2>. SUFFICES ASSUME LendInv, [Next]_vars PROVE [Lending!Next]_(Lending!vars)
    OBVIOUS
  <2>1. CASE Enter \/ Return \/ UNCHANGED vars
    <3>1. UNCHANGED <<sq, inflight, cq, group>>
      BY <2>1 DEF Enter, Return, vars, ringVars
    <3>. QED BY <3>1, SameHands DEF Lent, Operations, Returning
  <2>2. CASE AcceptFailed
    BY <2>2, PlainCompletionRefines DEF AcceptFailed, FailAccept
  <2>3. ASSUME NEW c \in Client, Accepted(c) PROVE UNCHANGED Lending!vars
    <3>1. PICK f, op : /\ op.type = "ACCEPT" /\ Complete(op, "ok", f)
                       /\ UNCHANGED <<sq, group>>
      BY <2>3 DEF Accepted, CompleteAccept
    <3>. QED BY <3>1, PlainCompletionRefines
  <2>4. ASSUME NEW c \in Client, Received(c) PROVE Lending!Next
    BY <2>4, CompleteRecvRefines DEF Received
  <2>5. ASSUME NEW c \in Client, ReceiveFailed(c) PROVE [Lending!Next]_(Lending!vars)
    <3>1. CASE StarveRecv(c)
      BY <3>1, PlainCompletionRefines, RingAssumption DEF StarveRecv
    <3>. QED BY <2>5, <3>1, CompleteRecvRefines DEF ReceiveFailed
  <2>6. ASSUME NEW c \in Client, Sent(c) PROVE UNCHANGED Lending!vars
    <3>1. PICK op, res : /\ op.type = "WRITE" /\ Complete(op, res, None)
                         /\ UNCHANGED <<sq, group>>
      BY <2>6 DEF Sent, CompleteSend
    <3>. QED BY <3>1, PlainCompletionRefines
  <2>. QED BY <2>1, <2>2, <2>3, <2>4, <2>5, <2>6, ConsumeRefines, HandlersRefine DEF Next
<1>. QED BY <1>0, <1>1, <1>2, CoreInvariance, PTL DEF Spec, PoolDiscipline, Lending!Spec

--------------------------------------------------------------------------------
(* The limits: the SQEs of D are of different connections, which have      *)
(* descriptors in T, so they are no more than these.                       *)
LEMMA OnePerDescriptor ==
  ASSUME NEW D \in SUBSET (DOMAIN sq), NEW T, IsFiniteSet(T),
         \A i \in D : \E f \in T : open[f] = sq[i].conn,
         \A i, j \in D : sq[i].conn = sq[j].conn => i = j
  PROVE  IsFiniteSet(D) /\ Cardinality(D) <= Cardinality(T)
<1> DEFINE m == [i \in D |-> CHOOSE f \in T : open[f] = sq[i].conn]
<1>1. \A i \in D : m[i] \in T /\ open[m[i]] = sq[i].conn
  OBVIOUS
<1>2. m \in [D -> T]
  OBVIOUS
<1>3. m \in Injection(D, T)
  BY <1>1, <1>2 DEF Injection, IsInjective
<1>. HIDE DEF m
<1>. QED BY <1>3, FS_Injection

(* The queue holds at most a provide and a transfer for each connection,   *)
(* and an accept.                                                          *)
LEMMA QueueBound ==
  ASSUME LendInv, NEW T \in SUBSET Fd,
         \A i \in DOMAIN sq : sq[i].type # "ACCEPT" => \E f \in T : open[f] = sq[i].conn
  PROVE  /\ Len(sq) \in Nat /\ Cardinality(T) \in Nat
         /\ Len(sq) <= 2 * Cardinality(T) + 1
         /\ (\A i \in DOMAIN sq : sq[i].type # "ACCEPT") => Len(sq) <= 2 * Cardinality(T)
<1>. USE DEF LendInv
<1>. DEFINE P == {i \in DOMAIN sq : sq[i].type = "PROV_BUF"}
            X == {i \in DOMAIN sq : sq[i] \in Transfers}
            U == P \union X
<1>0. /\ RingTypeOK /\ \A i \in DOMAIN sq : sq[i] \in SqeType
      /\ IsFiniteSet(DOMAIN sq) /\ Cardinality(DOMAIN sq) = Len(sq) /\ Len(sq) \in Nat
  BY Indices DEF TypeOK, RingTypeOK
<1>1. IsFiniteSet(T) /\ Cardinality(T) \in Nat
  BY RingAssumption, FS_Subset, FS_CardinalityType
<1>2. IsFiniteSet(P) /\ Cardinality(P) <= Cardinality(T)
  <2>1. \A i, j \in P : sq[i].conn = sq[j].conn => i = j
    BY DEF ProvideInv
  <2>. QED BY <1>1, <2>1, OnePerDescriptor
<1>3. IsFiniteSet(X) /\ Cardinality(X) <= Cardinality(T)
  <2>1. ASSUME NEW i \in X, NEW j \in X, sq[i].conn = sq[j].conn PROVE i = j
    <3>1. PICK c \in Client : sq[i].conn = c
      BY DEF ShapeInv, Shaped, Transfers
    <3>2. sq[i] \in Wakeups(c) /\ sq[j] \in Wakeups(c) /\ AtMostOne(Wakeups(c))
      BY <2>1, <3>1 DEF Wakeups, WakeupInv
    <3>. QED BY <3>2 DEF AtMostOne
  <2>2. \A i \in X : \E f \in T : open[f] = sq[i].conn
    BY DEF Transfers
  <2>. QED BY <1>1, <2>1, <2>2, OnePerDescriptor
<1>4. PICK a : \A i \in DOMAIN sq : sq[i] \in Accepts => i = a
  BY DEF AcceptInv, One, AtMostOne
<1>5. /\ DOMAIN sq \ {a} \subseteq U
      /\ (\A i \in DOMAIN sq : sq[i].type # "ACCEPT") => DOMAIN sq = U
  BY <1>0, <1>4 DEF SqeType, Transfers, Accepts
<1>6. IsFiniteSet(U) /\ Cardinality(U) \in Nat /\ Cardinality(U) <= 2 * Cardinality(T)
  <2>1. /\ IsFiniteSet(U) /\ IsFiniteSet(P \cap X)
        /\ Cardinality(U) = Cardinality(P) + Cardinality(X) - Cardinality(P \cap X)
    BY <1>2, <1>3, FS_Union, FS_Intersection
  <2>2. /\ Cardinality(P) \in Nat /\ Cardinality(X) \in Nat
        /\ Cardinality(P \cap X) \in Nat /\ Cardinality(U) \in Nat
    BY <1>2, <1>3, <2>1, FS_CardinalityType
  <2>. HIDE DEF P, X, U
  <2>. QED BY <1>1, <1>2, <1>3, <2>1, <2>2
<1>. HIDE DEF U
<1>7. Cardinality(DOMAIN sq \ {a}) <= Cardinality(U)
  BY <1>5, <1>6, FS_Subset, Zenon
<1>8. /\ Cardinality(DOMAIN sq \ {a}) \in Nat
      /\ Cardinality(DOMAIN sq) <= Cardinality(DOMAIN sq \ {a}) + 1
  BY <1>0, OneLess, Zenon
<1>9. (\A i \in DOMAIN sq : sq[i].type # "ACCEPT") => Len(sq) = Cardinality(U)
  BY <1>0, <1>5
<1>. QED BY <1>0, <1>1, <1>6, <1>7, <1>8, <1>9

(* What the queue holds names open descriptors, ...                        *)
LEMMA AllOnDescriptors ==
  ASSUME LendInv, NEW i \in DOMAIN sq, sq[i].type # "ACCEPT"
  PROVE  sq[i].conn \in Client /\ \E f \in Fd : open[f] = sq[i].conn
<1>1. sq[i] \in SqeType /\ Shaped(sq[i])
  BY DEF LendInv, TypeOK, RingTypeOK, ShapeInv
<1>. QED BY <1>1 DEF SqeType, Shaped

(* ... but not those of c, when none of it is of c.                        *)
LEMMA QueueWithout ==
  ASSUME LendInv, NEW c \in Client, NEW f \in Fd, open[f] = c,
         \A i \in DOMAIN sq : sq[i].type # "ACCEPT" => sq[i].conn # c
  PROVE  /\ Len(sq) \in Nat /\ Cardinality(Fd) \in Nat
         /\ Len(sq) + 1 <= 2 * Cardinality(Fd)
         /\ (\A i \in DOMAIN sq : sq[i].type # "ACCEPT") => Len(sq) + 2 <= 2 * Cardinality(Fd)
<1>1. \A i \in DOMAIN sq : sq[i].type # "ACCEPT" => \E g \in Fd \ {f} : open[g] = sq[i].conn
  BY AllOnDescriptors
<1>2. /\ Cardinality(Fd) \in Nat
      /\ Cardinality(Fd \ {f}) = Cardinality(Fd) - 1
  BY RingAssumption, FS_RemoveElement, FS_CardinalityType
<1>3. /\ Len(sq) \in Nat /\ Cardinality(Fd \ {f}) \in Nat
      /\ Len(sq) <= 2 * Cardinality(Fd \ {f}) + 1
      /\ (\A i \in DOMAIN sq : sq[i].type # "ACCEPT") => Len(sq) <= 2 * Cardinality(Fd \ {f})
  BY <1>1, QueueBound
<1>. QED BY <1>2, <1>3

(* So there is room for what the handler of a CQE fills in.                *)
LEMMA AnswerHasRoom ==
  ASSUME NEW q, NEW s, Answer(q, s), proc = "up", proc' = "nosqe",
         Len(sq) \in Nat, Len(s) \in Nat,
         Len(sq) + Len(s) <= 2 * Cardinality(Fd) + 1
  PROVE  ~(2 * Cardinality(Fd) + 1 <= ENTRIES)
<1>1. ~Room(Len(s))
  BY DEF Answer
<1>2. Cardinality(Fd) \in Nat
  BY RingAssumption, FS_CardinalityType
<1>. QED BY <1>1, <1>2, EchoAssumption DEF Room

LEMMA NothingOf ==
  ASSUME LendInv, NEW q \in cq, NEW c \in Client, q.op.conn = c,
         q.op.type \in {"READ", "WRITE"}
  PROVE  \A i \in DOMAIN sq : sq[i].type # "ACCEPT" => sq[i].conn # c
<1>. SUFFICES ASSUME NEW i \in DOMAIN sq, sq[i].type # "ACCEPT", sq[i].conn = c
              PROVE  FALSE
  OBVIOUS
<1>1. q.op \in Wakeups(c) /\ AtMostOne(Wakeups(c))
  BY TransferSeen
<1>2. sq[i] \in SqeType /\ sq[i] \notin Wakeups(c)
  BY <1>1 DEF LendInv, TypeOK, RingTypeOK, AtMostOne
<1>3. sq[i].type = "PROV_BUF"
  BY <1>2 DEF SqeType, Wakeups, Transfers
<1>. QED BY <1>1, <1>3 DEF LendInv, ProvideInv, Wakeups

LEMMA RoomStep ==
  ASSUME LendInv, SqNeverFull, [Next]_vars
  PROVE  SqNeverFull'
<1>. SUFFICES ASSUME proc' = "nosqe", proc # "nosqe"
              PROVE  ~(2 * Cardinality(Fd) + 1 <= ENTRIES)
  BY DEF SqNeverFull
<1>1. CASE HandleProvBuf
  <2>1. PICK q \in cq : Answer(q, <<>>) /\ proc = "up"
    BY <1>1 DEF HandleProvBuf, Reaping, Exit
  <2>2. Len(sq) \in Nat /\ Cardinality(Fd) \in Nat /\ Len(sq) <= 2 * Cardinality(Fd) + 1
    BY AllOnDescriptors, QueueBound
  <2>3. Len(<<>>) = 0
    OBVIOUS
  <2>. QED BY <2>1, <2>2, <2>3, AnswerHasRoom
<1>2. CASE HandleAccept
  <2>1. PICK q \in cq :
          /\ q.op.type = "ACCEPT" /\ proc = "up"
          /\ Answer(q, AfterAccept(IF q.res = "ok" THEN open[q.out] ELSE None, q))
    BY <1>2 DEF HandleAccept, Reaping
  <2>2. \A i \in DOMAIN sq : sq[i].type # "ACCEPT"
    <3>1. q.op \in Accepts /\ \A i \in DOMAIN sq : sq[i] \in SqeType
      BY <2>1 DEF LendInv, TypeOK, RingTypeOK, CqeType, Accepts
    <3>. QED BY <3>1 DEF LendInv, AcceptInv, One, AtMostOne, Accepts
  <2>3. CASE q.res # "ok"
    <3>1. Len(sq) \in Nat /\ Cardinality(Fd) \in Nat /\ Len(sq) <= 2 * Cardinality(Fd)
      BY <2>2, AllOnDescriptors, QueueBound
    <3>2. Answer(q, <<add_accept>>) /\ Len(<<add_accept>>) = 1
      BY <2>1, <2>3 DEF AfterAccept
    <3>. DEFINE s == <<add_accept>>
    <3>3. Answer(q, s) /\ Len(s) = 1
      BY <3>2
    <3>. HIDE DEF s
    <3>4. Len(s) \in Nat /\ Len(sq) + Len(s) <= 2 * Cardinality(Fd) + 1
      BY <3>1, <3>3
    <3>5. proc = "up"
      BY <2>1
    <3>. QED BY <3>1, <3>3, <3>4, <3>5, AnswerHasRoom
  <2>4. CASE q.res = "ok"
    <3>. PICK c, f : c = open[f] /\ f = q.out
      OBVIOUS
    <3>1. c \in Client /\ f \in Fd /\ Fresh(c)
      BY <2>1, <2>4 DEF LendInv, ShapeInv, Fresh
    <3>2. \A i \in DOMAIN sq : sq[i].conn # c
      <4>1. ~Some(Wakeups(c)) /\ \A i \in DOMAIN sq : sq[i].type = "PROV_BUF" => sq[i].conn # c
        BY <3>1 DEF LendInv, WakeupInv
      <4>2. \A i \in DOMAIN sq : sq[i] \in SqeType
        BY DEF LendInv, TypeOK, RingTypeOK
      <4>. QED BY <2>2, <4>1, <4>2 DEF Some, Wakeups, Transfers, SqeType
    <3>3. Len(sq) \in Nat /\ Cardinality(Fd) \in Nat /\ Len(sq) + 2 <= 2 * Cardinality(Fd)
      BY <2>2, <3>1, <3>2, QueueWithout
    <3>4. PICK s : Answer(q, s) /\ Len(s) = 2
      BY <2>1, <2>4 DEF AfterAccept
    <3>5. Len(s) \in Nat /\ Len(sq) + Len(s) <= 2 * Cardinality(Fd) + 1
      BY <3>3, <3>4
    <3>6. proc = "up"
      BY <2>1
    <3>. QED BY <3>3, <3>4, <3>5, <3>6, AnswerHasRoom
  <2>. QED BY <2>3, <2>4
<1>3. ASSUME NEW c \in Client, HandleRead(c) \/ HandleWrite(c)
      PROVE  ~(2 * Cardinality(Fd) + 1 <= ENTRIES)
  <2>1. PICK q, s : /\ q \in cq /\ q.op.type \in {"READ", "WRITE"} /\ q.op.conn = c
                    /\ Answer(q, s) /\ Len(s) \in {1, 2} /\ proc = "up"
    BY <1>3 DEF HandleRead, HandleWrite, Reaping, AfterRead, AfterWrite
  <2>2. Len(sq) \in Nat /\ Cardinality(Fd) \in Nat /\ Len(sq) + 1 <= 2 * Cardinality(Fd)
    BY <2>1, TransferSeen, NothingOf, QueueWithout
  <2>0. Len(s) = 1 \/ Len(s) = 2
    BY <2>1
  <2>3. Len(s) \in Nat /\ Len(sq) + Len(s) <= 2 * Cardinality(Fd) + 1
    <3>1. CASE Len(s) = 1
      BY <2>2, <3>1
    <3>2. CASE Len(s) = 2
      BY <2>2, <3>2
    <3>. QED BY <2>0, <3>1, <3>2
  <2>. QED BY <2>1, <2>2, <2>3, AnswerHasRoom
<1>4. CASE UNCHANGED proc
  BY <1>4
<1>5. CASE OutOfBuffers
  BY <1>5 DEF OutOfBuffers, Exit
<1>. QED
  BY <1>1, <1>2, <1>3, <1>4, <1>5
     DEF Next, Enter, Return, KernelConsumes, AcceptFailed, Accepted, Received,
         ReceiveFailed, Sent, vars, echoVars

(* The loop's handlers never find the submission queue full, however many  *)
(* completions one pass handles, when the ring has two SQEs for each       *)
(* descriptor and one more: io_uring_get_sqe, unchecked, returns no NULL.  *)
THEOREM SqNeverFullHolds == Spec => []SqNeverFull
<1>1. Init => SqNeverFull
  BY DEF Init, SqNeverFull
<1>2. CoreInv => LendInv
  BY DEF CoreInv
<1>. QED BY <1>1, <1>2, CoreInvariance, RoomStep, PTL DEF Spec

--------------------------------------------------------------------------------
(* While no buffer is lost, one that is not in the group is used by a      *)
(* connection, which uses no other.                                        *)
UsedBy(c, b) == Lent(c, b) \/ \E i \in DOMAIN sq : Providing(i, b) /\ sq[i].conn = c

LEMMA InUse ==
  ASSUME LendInv, ~BufferLost, NEW b \in Bid, b \notin group
  PROVE  \E c \in Client : UsedBy(c, b)
<1>1. PICK c \in Client : InHands(c, b)
  BY HandFacts
<1>. QED BY <1>1 DEF InHands, Returning, UsedBy, Providing, BufferLost

(* The operation that holds the buffer, or the place in the queue.         *)
LEMMA LentFor ==
  ASSUME LendInv, NEW c \in Client, NEW b \in Bid, Lent(c, b)
  PROVE  \/ \E i \in DOMAIN sq : sq[i] \in Wakeups(c) /\ sq[i].type = "WRITE" /\ sq[i].bid = b
         \/ \E e \in inflight : e \in Wakeups(c) /\ e.bid = b
         \/ \E q \in cq : /\ q.op \in Wakeups(c)
                          /\ \/ q.op.type = "WRITE" /\ q.op.bid = b
                             \/ q.op.type = "READ" /\ q.out = b
<1>1. /\ \A i \in DOMAIN sq : sq[i] \in SqeType
      /\ \A e \in inflight : e \in SqeType
      /\ \A q \in cq : q.op \in SqeType
  BY DEF LendInv, TypeOK, RingTypeOK, CqeType
<1>. QED BY <1>1, LentIs DEF Wakeups, Transfers

LEMMA OneBufferEach ==
  ASSUME LendInv, NEW c \in Client, NEW b \in Bid, NEW d \in Bid,
         UsedBy(c, b), UsedBy(c, d)
  PROVE  b = d
<1>0. AtMostOne(Wakeups(c))
  BY DEF LendInv, WakeupInv
<1>1. CASE Lent(c, b) /\ Lent(c, d)
  BY <1>0, <1>1, LentFor DEF AtMostOne
<1>2. ASSUME NEW x \in Bid, NEW y \in Bid, Lent(c, x),
             NEW i \in DOMAIN sq, Providing(i, y), sq[i].conn = c
      PROVE  FALSE
  BY <1>2, LentFor DEF LendInv, ProvideInv, Providing, Wakeups
<1>3. ASSUME NEW i \in DOMAIN sq, NEW j \in DOMAIN sq, Providing(i, b), Providing(j, d),
             sq[i].conn = c, sq[j].conn = c
      PROVE  b = d
  BY <1>3 DEF LendInv, ProvideInv, Providing
<1>. QED BY <1>1, <1>2, <1>3 DEF UsedBy

(* The connection of a read in flight uses none.                           *)
LEMMA ReaderUsesNone ==
  ASSUME LendInv, NEW op \in inflight, op.type = "READ", NEW c \in Client, op.conn = c,
         NEW b \in Bid
  PROVE  ~UsedBy(c, b)
<1>1. op \in Transfers
  BY DEF LendInv, TypeOK, RingTypeOK, Transfers
<1>. QED BY <1>1, ReaderHasNone DEF UsedBy, LendInv, ProvideInv, Providing

(* A connection that uses a buffer has a descriptor.                       *)
LEMMA UserHasFd ==
  ASSUME LendInv, NEW c \in Client, NEW b \in Bid, UsedBy(c, b)
  PROVE  \E f \in Fd : open[f] = c
<1>1. \A e : Shaped(e) /\ e \in Wakeups(c) => \E f \in Fd : open[f] = c
  BY DEF Shaped, Wakeups, Transfers
<1>2. CASE Lent(c, b)
  BY <1>1, <1>2, LentFor DEF LendInv, ShapeInv
<1>3. CASE \E i \in DOMAIN sq : Providing(i, b) /\ sq[i].conn = c
  BY <1>3 DEF LendInv, ShapeInv, Shaped, Providing
<1>. QED BY <1>2, <1>3 DEF UsedBy

(* A read that starves leaves fewer descriptors to the others than there   *)
(* are buffers, or a buffer was lost.                                      *)
LEMMA Starves ==
  ASSUME LendInv, group = {}, NEW op \in inflight, op.type = "READ",
         Cardinality(Fd) <= Cardinality(Bid)
  PROVE  BufferLost
<1>. SUFFICES ASSUME ~BufferLost PROVE FALSE
  OBVIOUS
<1>. DEFINE On(b, f) == \E c \in Client : UsedBy(c, b) /\ open[f] = c
            m == [b \in Bid |-> CHOOSE f \in Fd : On(b, f)]
            T == Fd \ {op.fd}
<1>0. op.fd \in Fd /\ open[op.fd] \in Client /\ op.conn = open[op.fd]
  BY DEF LendInv, ShapeInv, Shaped
<1>1. \A b \in Bid : \E f \in Fd : On(b, f)
  BY InUse, UserHasFd
<1>2. \A b \in Bid : m[b] \in Fd /\ On(b, m[b])
  BY <1>1
<1>3. \A b \in Bid : ~On(b, op.fd)
  BY <1>0, ReaderUsesNone
<1>4. \A b, d \in Bid, f \in Fd : On(b, f) /\ On(d, f) => b = d
  BY OneBufferEach
<1>5. m \in [Bid -> T]
  <2>1. \A b \in Bid : m[b] \in T
    BY <1>2, <1>3
  <2>. QED BY <2>1
<1>. HIDE DEF m, On
<1>6. m \in Injection(Bid, T)
  <2>1. \A b, d \in Bid : m[b] = m[d] => b = d
    BY <1>2, <1>4
  <2>. QED BY <1>5, <2>1 DEF Injection, IsInjective
<1>7. IsFiniteSet(T) /\ Cardinality(Fd) \in Nat
  BY RingAssumption, FS_RemoveElement, FS_CardinalityType
<1>8. Cardinality(Bid) <= Cardinality(T) /\ Cardinality(Bid) \in Nat
  BY <1>6, <1>7, RingAssumption, FS_Injection, FS_CardinalityType
<1>9. Cardinality(T) = Cardinality(Fd) - 1
  BY <1>0, RingAssumption, FS_RemoveElement
<1>. QED BY <1>7, <1>8, <1>9

(* A buffer that is lost stays lost while only a good CQE is seen.         *)
LEMMA StaysStarved ==
  ASSUME StarvedInv, proc' = "enobufs" => proc = "enobufs" \/ \E q \in cq : q.res = "nobufs",
         \A q \in cq : q.op.type = "PROV_BUF" /\ q.res = "err" => q \in cq',
         \A q \in cq' : q.res = "nobufs" => q \in cq
  PROVE  StarvedInv'
BY DEF StarvedInv, NoBufferExhaustion, BufferLost

LEMMA StarvedStep ==
  ASSUME LendInv, StarvedInv, [Next]_vars
  PROVE  StarvedInv'
<1>1. CASE Enter \/ Return \/ OutOfBuffers \/ UNCHANGED vars
  BY <1>1, StaysStarved
     DEF Enter, Return, OutOfBuffers, Exit, vars, ringVars, echoVars
<1>2. CASE KernelConsumes
  BY <1>2, StaysStarved
     DEF KernelConsumes, ConsumeProvide, ConsumeProvideFails, ConsumeRequest, Post, Cqe, echoVars
<1>3. CASE AcceptFailed
  BY <1>3, StaysStarved DEF AcceptFailed, FailAccept, Complete, Post, Cqe, echoVars
<1>4. CASE HandleProvBuf
  BY <1>4, StaysStarved DEF HandleProvBuf, Reaping, Answer, Exit, ringVars
<1>5. CASE HandleAccept
  BY <1>5, StaysStarved DEF HandleAccept, Reaping, Answer, Exit, ringVars
<1>6. ASSUME NEW c \in Client, Accepted(c) \/ Received(c) \/ Sent(c) PROVE StarvedInv'
  <2>1. CASE Accepted(c)
    BY <2>1, StaysStarved DEF Accepted, CompleteAccept, Complete, Post, Cqe, echoVars
  <2>2. CASE Received(c)
    BY <2>2, StaysStarved DEF Received, CompleteRecv, Complete, Post, Cqe, echoVars
  <2>3. CASE Sent(c)
    BY <2>3, StaysStarved DEF Sent, CompleteSend, SendResults, Complete, Post, Cqe, echoVars
  <2>. QED BY <1>6, <2>1, <2>2, <2>3
<1>7. ASSUME NEW c \in Client, ReceiveFailed(c) PROVE StarvedInv'
  <2>1. CASE StarveRecv(c)
    <3>1. PICK op \in inflight :
            op.type = "READ" /\ group = {} /\ cq' = cq \union {Cqe(op, "nobufs", None)}
      BY <2>1 DEF StarveRecv, Complete, Post
    <3>2. Cardinality(Fd) <= Cardinality(Bid) => BufferLost
      BY <3>1, Starves
    <3>3. BufferLost => BufferLost'
      BY <3>1 DEF BufferLost
    <3>. QED BY <1>7, <3>2, <3>3 DEF StarvedInv, NoBufferExhaustion, ReceiveFailed, echoVars
  <2>2. CASE \E b \in Bid, res \in RecvResults \ {"ok"} : CompleteRecv(c, b, res)
    BY <1>7, <2>2, StaysStarved
       DEF ReceiveFailed, CompleteRecv, RecvResults, Complete, Post, Cqe, echoVars
  <2>. QED BY <1>7, <2>1, <2>2 DEF ReceiveFailed
<1>8. ASSUME NEW c \in Client, HandleRead(c) \/ HandleWrite(c) PROVE StarvedInv'
  BY <1>8, StaysStarved DEF HandleRead, HandleWrite, Reaping, Answer, Exit, ringVars
<1>. QED BY <1>1, <1>2, <1>3, <1>4, <1>5, <1>6, <1>7, <1>8 DEF Next

(* The whole inductive invariant holds in every reachable state, for any   *)
(* number of clients, messages, descriptors, buffers and SQEs and any set  *)
(* of faults.                                                              *)
THEOREM Invariance == Spec => []IInv
<1>1. Init => IInv
  BY InitCoreInv DEF Init, IInv, StarvedInv, NoBufferExhaustion, SqNeverFull
<1>2. IInv /\ [Next]_vars => IInv'
  BY NextCoreInv, StarvedStep, RoomStep DEF IInv, CoreInv
<1>. QED BY <1>1, <1>2, PTL DEF Spec

(* With as many buffers as descriptors no read ends for lack of a buffer,  *)
(* unless one was lost to a provide that failed.                           *)
THEOREM NoBufferExhaustionHolds == Spec => []NoBufferExhaustion
<1>1. IInv => NoBufferExhaustion
  BY DEF IInv, StarvedInv
<1>. QED BY <1>1, Invariance, PTL

================================================================================
