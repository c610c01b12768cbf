--------------------------- MODULE UringServerProofs ---------------------------
EXTENDS UringServerInv, RingProofs

--------------------------------------------------------------------------------
LEMMA InitCoreInv == Init => CoreInv
<1>. SUFFICES ASSUME Init PROVE CoreInv
  OBVIOUS
<1>. USE RingAssumption DEF Init, add_accept_request, Sqe
<1>0. Len(sq) = 1 /\ sq[1] = add_accept_request /\ DOMAIN sq = {1}
  OBVIOUS
<1>1. TypeOK
  <2>1. add_accept_request \in SqeType
    BY DEF SqeType
  <2>2. sq \in Seq(SqeType)
    BY <2>1
  <2>. QED BY <2>2 DEF TypeOK, RingTypeOK, Stages, Blank
<1>2. ShapeInv /\ RouteInv
  BY <1>0 DEF ShapeInv, RouteInv, Shaped, Transfers, SqeType
<1>3. WakeupInv
  BY <1>0 DEF WakeupInv, Some, Wakeups, Transfers
<1>4. AcceptInv
  BY <1>0 DEF AcceptInv, One, Some, AtMostOne, Accepts, SqeType
<1>5. DescriptorInv /\ CoroutineInv
  BY DEF DescriptorInv, DescriptorAgreement, CoroutineInv, Blank
<1>6. BufferInv
  BY <1>0 DEF BufferInv, InSomeHand, HandsApart, Selected, Providing, Failed, Blank
<1>. QED BY <1>1, <1>2, <1>3, <1>4, <1>5, <1>6 DEF CoreInv

(* Steps that only turn the loop or end the process.                       *)
LEMMA RingStill ==
  ASSUME CoreInv, UNCHANGED <<sq, inflight, cq, group, open, backlog,
                           connections, co, promise>>,
         proc' \in ({"up"} \union Ended) \ {"derailed"}, loop' \in {"reap", "enter"}
  PROVE  CoreInv'
<1>. USE DEF CoreInv
<1>1. TypeOK'
  BY DEF TypeOK, RingTypeOK
<1>2. ShapeInv' /\ RouteInv'
  BY DEF ShapeInv, RouteInv, Routed
<1>3. WakeupInv' /\ AcceptInv'
  BY DEF WakeupInv, AcceptInv, One, Some, AtMostOne
<1>4. DescriptorInv' /\ CoroutineInv'
  BY DEF DescriptorInv, DescriptorAgreement, CoroutineInv
<1>5. BufferInv'
  BY DEF BufferInv, InSomeHand, HandsApart, Providing
<1>. QED BY <1>1, <1>2, <1>3, <1>4, <1>5

--------------------------------------------------------------------------------
(* The kernel consumes the submission queue.                               *)

LEMMA ConsumeRequestStep ==
  ASSUME CoreInv, ConsumeRequest, UNCHANGED serverVars
  PROVE  CoreInv'
<1>. USE DEF CoreInv, ConsumeRequest, serverVars
<1>. RingTypeOK
  BY DEF TypeOK
<1>t. /\ Len(sq) \in Nat \ {0} /\ DOMAIN sq = 1 .. Len(sq)
      /\ Head(sq) = sq[1] /\ 1 \in DOMAIN sq /\ Head(sq) \in SqeType
      /\ Tail(sq) \in Seq(SqeType)
      /\ DOMAIN Tail(sq) = 1 .. (Len(sq) - 1)
      /\ \A i \in DOMAIN Tail(sq) : i + 1 \in DOMAIN sq /\ Tail(sq)[i] = sq[i + 1]
      /\ \A j \in DOMAIN sq : j = 1 \/ (j - 1 \in DOMAIN Tail(sq) /\ Tail(sq)[j - 1] = sq[j])
  BY TailFacts
<1>1. TypeOK'
  BY <1>t DEF TypeOK, RingTypeOK
<1>2. ShapeInv'
  BY <1>t DEF ShapeInv, Shaped, SqeType
<1>3. RouteInv'
  BY <1>t DEF RouteInv, Routed
<1>4. WakeupInv'
  BY ConsumeCounts DEF WakeupInv, One
<1>5. AcceptInv'
  BY ConsumeCounts DEF AcceptInv, One
<1>6. DescriptorInv' /\ CoroutineInv'
  BY DEF DescriptorInv, DescriptorAgreement, CoroutineInv
<1>7. BufferInv'
  <2>. SUFFICES ASSUME NEW b \in Bid PROVE InSomeHand(b)' /\ HandsApart(b)'
    BY DEF BufferInv
  <2>1. InSomeHand(b) /\ HandsApart(b)
    BY DEF BufferInv
  <2>2. InSomeHand(b)'
    BY <1>t, <2>1 DEF InSomeHand, Providing
  <2>3. HandsApart(b)'
    BY <1>t, <2>1 DEF HandsApart, Providing
  <2>. QED BY <2>2, <2>3
<1>. QED BY <1>1, <1>2, <1>3, <1>4, <1>5, <1>6, <1>7

LEMMA ConsumeProvideStep ==
  ASSUME CoreInv, ConsumeProvide, UNCHANGED serverVars
  PROVE  CoreInv'
<1>. USE DEF CoreInv, ConsumeProvide, Post, Cqe, serverVars
<1>. RingTypeOK
  BY DEF TypeOK
<1>t. /\ Len(sq) \in Nat \ {0} /\ DOMAIN sq = 1 .. Len(sq)
      /\ Head(sq) = sq[1] /\ 1 \in DOMAIN sq /\ Head(sq) \in SqeType
      /\ Tail(sq) \in Seq(SqeType)
      /\ DOMAIN Tail(sq) = 1 .. (Len(sq) - 1)
      /\ \A i \in DOMAIN Tail(sq) : i + 1 \in DOMAIN sq /\ Tail(sq)[i] = sq[i + 1]
      /\ \A j \in DOMAIN sq : j = 1 \/ (j - 1 \in DOMAIN Tail(sq) /\ Tail(sq)[j - 1] = sq[j])
  BY TailFacts
<1>h. /\ Head(sq).bid \in Bid /\ Head(sq).conn \in Client
      /\ Head(sq).type = "PROV_BUF" /\ None \notin Bid /\ None \notin Fd
  BY <1>t, RingAssumption DEF ShapeInv, Shaped
<1> DEFINE r == [op |-> Head(sq), res |-> "ok", out |-> None]
<1>r. cq' = cq \union {r} /\ r.op = Head(sq) /\ r.res = "ok" /\ r.out = None
  OBVIOUS
<1>e. ASSUME NEW E, Head(sq) \notin E
      PROVE (AtMostOne(E) => AtMostOne(E)') /\ (Some(E)' <=> Some(E))
  BY <1>e, <1>r, ProvideCounts
<1>. HIDE DEF r
<1>1. TypeOK'
  BY <1>t, <1>h DEF TypeOK, RingTypeOK, CqeType, r
<1>2. ShapeInv'
  BY <1>t, <1>h, <1>r DEF ShapeInv, Shaped
<1>3. RouteInv'
  BY <1>t, <1>h, <1>r DEF RouteInv, Routed, Transfers
<1>4. WakeupInv'
  BY <1>h, <1>e DEF WakeupInv, One, Wakeups, Transfers
<1>5. AcceptInv'
  BY <1>h, <1>e DEF AcceptInv, One, Accepts
<1>6. DescriptorInv' /\ CoroutineInv'
  BY <1>h, <1>r DEF DescriptorInv, DescriptorAgreement, CoroutineInv
<1>7. BufferInv'
  <2>. SUFFICES ASSUME NEW b \in Bid PROVE InSomeHand(b)' /\ HandsApart(b)'
    BY DEF BufferInv
  <2>1. InSomeHand(b) /\ HandsApart(b)
    BY DEF BufferInv
  <2>2. Head(sq).bid = b <=> Providing(1, b)
    BY <1>t, <1>h DEF Providing
  <2>3. \A q \in cq' : Selected(q, b) => q \in cq
    BY <1>h, <1>r DEF Selected
  <2>4. \A q \in cq' : Failed(q, b) => q \in cq 
    BY <1>r DEF Failed
  <2>5. InSomeHand(b)'
    <3>1. ASSUME NEW j \in DOMAIN sq, Providing(j, b), j # 1 PROVE InSomeHand(b)'
      BY <1>t, <3>1 DEF InSomeHand, Providing
    <3>2. ASSUME Providing(1, b) PROVE InSomeHand(b)'
      BY <1>r, <1>h, <2>2, <3>2 DEF InSomeHand
    <3>. QED BY <1>r, <2>1, <3>1, <3>2 DEF InSomeHand
  <2>6. HandsApart(b)'
    BY <1>t, <1>r, <1>h, <2>1, <2>2, <2>3, <2>4 DEF HandsApart, Providing
  <2>. QED BY <2>5, <2>6
<1>. QED BY <1>1, <1>2, <1>3, <1>4, <1>5, <1>6, <1>7

LEMMA ConsumeProvideFailsStep ==
  ASSUME CoreInv, ConsumeProvideFails, UNCHANGED serverVars
  PROVE  CoreInv'
<1>. USE DEF CoreInv, ConsumeProvideFails, Post, Cqe, serverVars
<1>. RingTypeOK
  BY DEF TypeOK
<1>t. /\ Len(sq) \in Nat \ {0} /\ DOMAIN sq = 1 .. Len(sq)
      /\ Head(sq) = sq[1] /\ 1 \in DOMAIN sq /\ Head(sq) \in SqeType
      /\ Tail(sq) \in Seq(SqeType)
      /\ DOMAIN Tail(sq) = 1 .. (Len(sq) - 1)
      /\ \A i \in DOMAIN Tail(sq) : i + 1 \in DOMAIN sq /\ Tail(sq)[i] = sq[i + 1]
      /\ \A j \in DOMAIN sq : j = 1 \/ (j - 1 \in DOMAIN Tail(sq) /\ Tail(sq)[j - 1] = sq[j])
  BY TailFacts
<1>h. /\ Head(sq).bid \in Bid /\ Head(sq).conn \in Client
      /\ Head(sq).type = "PROV_BUF" /\ None \notin Bid /\ None \notin Fd
  BY <1>t, RingAssumption DEF ShapeInv, Shaped
<1> DEFINE r == [op |-> Head(sq), res |-> "err", out |-> None]
<1>r. cq' = cq \union {r} /\ r.op = Head(sq) /\ r.res = "err" /\ r.out = None
  OBVIOUS
<1>e. ASSUME NEW E, Head(sq) \notin E
      PROVE (AtMostOne(E) => AtMostOne(E)') /\ (Some(E)' <=> Some(E))
  BY <1>e, <1>r, ProvideCounts
<1>. HIDE DEF r
<1>1. TypeOK'
  BY <1>t, <1>h DEF TypeOK, RingTypeOK, CqeType, r
<1>2. ShapeInv'
  BY <1>t, <1>h, <1>r DEF ShapeInv, Shaped
<1>3. RouteInv'
  BY <1>t, <1>h, <1>r DEF RouteInv, Routed, Transfers
<1>4. WakeupInv'
  BY <1>h, <1>e DEF WakeupInv, One, Wakeups, Transfers
<1>5. AcceptInv'
  BY <1>h, <1>e DEF AcceptInv, One, Accepts
<1>6. DescriptorInv' /\ CoroutineInv'
  BY <1>h, <1>r DEF DescriptorInv, DescriptorAgreement, CoroutineInv
<1>7. BufferInv'
  <2>. SUFFICES ASSUME NEW b \in Bid PROVE InSomeHand(b)' /\ HandsApart(b)'
    BY DEF BufferInv
  <2>1. InSomeHand(b) /\ HandsApart(b)
    BY DEF BufferInv
  <2>2. Head(sq).bid = b <=> Providing(1, b)
    BY <1>t, <1>h DEF Providing
  <2>3. \A q \in cq' : Selected(q, b) => q \in cq
    BY <1>h, <1>r DEF Selected
  <2>4. \A q \in cq' : Failed(q, b) => q \in cq \/ (q = r /\ Head(sq).bid = b)
    BY <1>r DEF Failed
  <2>5. InSomeHand(b)'
    <3>1. ASSUME NEW j \in DOMAIN sq, Providing(j, b), j # 1 PROVE InSomeHand(b)'
      BY <1>t, <3>1 DEF InSomeHand, Providing
    <3>2. ASSUME Providing(1, b) PROVE InSomeHand(b)'
      BY <1>r, <1>h, <2>2, <3>2 DEF InSomeHand, Failed
    <3>. QED BY <1>r, <2>1, <3>1, <3>2 DEF InSomeHand
  <2>6. HandsApart(b)'
    BY <1>t, <1>r, <1>h, <2>1, <2>2, <2>3, <2>4 DEF HandsApart, Providing
  <2>. QED BY <2>5, <2>6
<1>. QED BY <1>1, <1>2, <1>3, <1>4, <1>5, <1>6, <1>7

--------------------------------------------------------------------------------
(* The kernel completes what is in flight.  Completions that do not touch  *)
(* the group, the table or the backlog have the same proof.                *)
LEMMA PlainCompletion ==
  ASSUME CoreInv, NEW op, NEW res, Complete(op, res, None),
         [op |-> op, res |-> res, out |-> None] \in CqeType,
         res = "nobufs" \/ op.type = "WRITE" \/ (op.type = "ACCEPT" /\ res = "err"),
         UNCHANGED <<sq, group, open, backlog>>, UNCHANGED serverVars
  PROVE  CoreInv'
<1>. USE DEF CoreInv, Complete, Post, Cqe, serverVars
<1> DEFINE r == [op |-> op, res |-> res, out |-> None]
<1>r. cq' = cq \union {r} /\ r.op = op /\ r.res = res /\ r.out = None
  OBVIOUS
<1>h. None \notin Bid /\ None \notin Fd /\ op \in inflight
  BY RingAssumption
<1>e. ASSUME NEW E
      PROVE (AtMostOne(E) => AtMostOne(E)') /\ (Some(E)' <=> Some(E))
  BY <1>r, <1>h, CompleteCounts
<1>1. TypeOK'
  BY DEF TypeOK, RingTypeOK
<1>. HIDE DEF r
<1>2. ShapeInv'
  BY <1>h, <1>r DEF ShapeInv, Shaped
<1>3. RouteInv'
  BY <1>h, <1>r DEF RouteInv, Routed
<1>4. WakeupInv' /\ AcceptInv'
  BY <1>e DEF WakeupInv, AcceptInv, One
<1>5. DescriptorInv' /\ CoroutineInv'
  BY <1>h, <1>r DEF DescriptorInv, DescriptorAgreement, CoroutineInv
<1>6. BufferInv'
  <2>. SUFFICES ASSUME NEW b \in Bid PROVE InSomeHand(b)' /\ HandsApart(b)'
    BY DEF BufferInv
  <2>1. InSomeHand(b) /\ HandsApart(b)
    BY DEF BufferInv
  <2>2. \A q \in cq' : Selected(q, b) => q \in cq
    BY <1>h, <1>r DEF Selected
  <2>3. \A q \in cq' : Failed(q, b) => q \in cq
    BY <1>h, <1>r DEF Failed, ShapeInv
  <2>4. InSomeHand(b)'
    BY <1>r, <2>1 DEF InSomeHand, Providing
  <2>5. HandsApart(b)'
    BY <2>1, <2>2, <2>3 DEF HandsApart, Providing
  <2>. QED BY <2>4, <2>5
<1>. QED BY <1>1, <1>2, <1>3, <1>4, <1>5, <1>6

LEMMA CompleteAcceptStep ==
  ASSUME CoreInv, NEW c \in Client, NEW f \in Fd, CompleteAccept(c, f),
         UNCHANGED serverVars
  PROVE  CoreInv'
<1>. USE DEF CoreInv, Complete, Post, Cqe, serverVars
<1>0. PICK op \in inflight :
        /\ op.type = "ACCEPT" /\ c \in backlog /\ open[f] = None
        /\ Complete(op, "ok", f)
        /\ open' = [open EXCEPT ![f] = c]
        /\ backlog' = backlog \ {c}
        /\ UNCHANGED <<sq, group>>
  BY DEF CompleteAccept
<1> DEFINE r == [op |-> op, res |-> "ok", out |-> f]
<1>r. cq' = cq \union {r} /\ r.op = op /\ r.res = "ok" /\ r.out = f
  BY <1>0
<1>h. None \notin Bid /\ None \notin Fd /\ None \notin Client
  BY RingAssumption
<1>t. op \in SqeType /\ open \in [Fd -> Client \union {None}]
      /\ connections \in [Fd -> Client \union {None}]
  BY <1>0 DEF TypeOK, RingTypeOK
<1>e. ASSUME NEW E
      PROVE (AtMostOne(E) => AtMostOne(E)') /\ (Some(E)' <=> Some(E))
  BY <1>0, <1>r, CompleteCounts
<1>f. connections[f] = None
  BY <1>h, <1>0, <1>t DEF DescriptorInv, DescriptorAgreement
<1>g. open'[f] = c /\ \A g \in Fd \ {f} : open'[g] = open[g]
  BY <1>0, <1>t
<1>c. co[c] = "none" /\ \A g \in Fd : open[g] # c
  BY <1>0, <1>t DEF CoroutineInv, DescriptorInv
<1>1. TypeOK'
  BY <1>0, <1>t, <1>r DEF TypeOK, RingTypeOK, CqeType, r
<1>. HIDE DEF r
<1>2. ShapeInv'
  BY <1>0, <1>r DEF ShapeInv, Shaped
<1>3. RouteInv'
  <2>1. ASSUME NEW e, e.fd \in Fd, e.conn \in Client, Routed(e) PROVE Routed(e)'
    BY <1>h, <1>0, <1>f, <1>g, <2>1 DEF Routed
  <2>. QED BY <1>0, <1>r, <2>1 DEF RouteInv, Transfers, ShapeInv, Shaped
<1>4. WakeupInv' /\ AcceptInv'
  BY <1>0, <1>e DEF WakeupInv, AcceptInv, One
<1>5. CoroutineInv'
  BY <1>0 DEF CoroutineInv
<1>6. DescriptorInv'
  <2>1. DescriptorAgreement'
    BY <1>0, <1>r, <1>f, <1>g DEF DescriptorInv, DescriptorAgreement
  <2>2. \A q \in cq' : q.op.type = "ACCEPT" /\ q.res = "ok" =>
          q.out \in Fd /\ open'[q.out] \in Client /\ connections[q.out] = None
    BY <1>r, <1>f, <1>g DEF DescriptorInv
  <2>3. \A d, g \in Fd : open'[d] \in Client /\ open'[d] = open'[g] => d = g
    BY <1>c, <1>g DEF DescriptorInv
  <2>4. \A d \in Fd : open'[d] \in Client =>
          /\ open'[d] \notin backlog'
          /\ connections[d] = open'[d] \/ co[open'[d]] = "none"
    BY <1>0, <1>c, <1>g DEF DescriptorInv
  <2>. QED BY <1>0, <2>1, <2>2, <2>3, <2>4 DEF DescriptorInv
<1>7. BufferInv'
  <2>. SUFFICES ASSUME NEW b \in Bid PROVE InSomeHand(b)' /\ HandsApart(b)'
    BY DEF BufferInv
  <2>1. InSomeHand(b) /\ HandsApart(b)
    BY DEF BufferInv
  <2>2. \A q \in cq' : Selected(q, b) \/ Failed(q, b) => q \in cq
    BY <1>0, <1>r DEF Selected, Failed
  <2>3. InSomeHand(b)'
    BY <1>0, <1>r, <2>1 DEF InSomeHand, Providing
  <2>4. HandsApart(b)'
    BY <1>0, <2>1, <2>2 DEF HandsApart, Providing
  <2>. QED BY <2>3, <2>4
<1>. QED BY <1>1, <1>2, <1>3, <1>4, <1>5, <1>6, <1>7

(* A receive moves the buffer it selects from the group to its CQE.        *)
LEMMA CompleteRecvStep ==
  ASSUME CoreInv, NEW c \in Client, NEW b \in Bid, NEW res \in RecvResults,
         CompleteRecv(c, b, res), UNCHANGED serverVars
  PROVE  CoreInv'
<1>. USE DEF CoreInv, Complete, Post, Cqe, serverVars
<1>0. PICK op \in inflight :
        /\ op.type = "READ" /\ op.conn = c /\ b \in group
        /\ Complete(op, res, b)
        /\ group' = group \ {b}
        /\ UNCHANGED <<sq, open, backlog>>
  BY DEF CompleteRecv
<1> DEFINE r == [op |-> op, res |-> res, out |-> b]
<1>r. cq' = cq \union {r} /\ r.op = op /\ r.res = res /\ r.out = b
  BY <1>0
<1>t. op \in SqeType /\ b \in Bid /\ res \in {"ok", "eof", "err"}
  BY <1>0 DEF TypeOK, RingTypeOK, RecvResults
<1>e. ASSUME NEW E
      PROVE (AtMostOne(E) => AtMostOne(E)') /\ (Some(E)' <=> Some(E))
  BY <1>0, <1>r, CompleteCounts
<1>1. TypeOK'
  BY <1>0, <1>t, <1>r DEF TypeOK, RingTypeOK, CqeType, r
<1>. HIDE DEF r
<1>2. ShapeInv'
  BY <1>0, <1>r, <1>t DEF ShapeInv, Shaped
<1>3. RouteInv'
  BY <1>0, <1>r DEF RouteInv, Routed
<1>4. WakeupInv' /\ AcceptInv'
  BY <1>0, <1>e DEF WakeupInv, AcceptInv, One
<1>5. DescriptorInv' /\ CoroutineInv'
  BY <1>0, <1>r DEF DescriptorInv, DescriptorAgreement, CoroutineInv
<1>6. BufferInv'
  <2>. SUFFICES ASSUME NEW d \in Bid PROVE InSomeHand(d)' /\ HandsApart(d)'
    BY DEF BufferInv
  <2>1. InSomeHand(d) /\ HandsApart(d)
    BY DEF BufferInv
  <2>2. \A q \in cq' : Failed(q, d) => q \in cq
    BY <1>0, <1>r DEF Failed
  <2>3. CASE d # b
    <3>1. \A q \in cq' : Selected(q, d) => q \in cq
      BY <1>r, <2>3 DEF Selected
    <3>2. InSomeHand(d)'
      BY <1>0, <1>r, <2>1, <2>3 DEF InSomeHand, Providing
    <3>3. HandsApart(d)'
      BY <1>0, <2>1, <2>2, <3>1 DEF HandsApart, Providing
    <3>. QED BY <3>2, <3>3
  <2>4. CASE d = b
    <3>1. Selected(r, d) /\ d \in group /\ d \notin group'
      BY <1>0, <1>r, <2>4 DEF Selected
    <3>2. \A q \in cq' : Selected(q, d) => q = r
      BY <1>r, <2>1, <3>1 DEF HandsApart
    <3>3. InSomeHand(d)'
      BY <1>r, <3>1 DEF InSomeHand
    <3>4. HandsApart(d)'
      BY <1>0, <2>1, <2>2, <3>1, <3>2 DEF HandsApart, Providing
    <3>. QED BY <3>3, <3>4
  <2>. QED BY <2>3, <2>4
<1>. QED BY <1>1, <1>2, <1>3, <1>4, <1>5, <1>6

LEMMA KernelCompletesStep ==
  ASSUME CoreInv, KernelCompletes
  PROVE  CoreInv'
<1>1. ASSUME Kernel(FailAccept) PROVE CoreInv'
  <2>1. PICK op \in inflight : op.type = "ACCEPT" /\ Complete(op, "err", None)
                               /\ UNCHANGED <<sq, group, open, backlog>>
    BY <1>1 DEF Kernel, FailAccept
  <2>2. [op |-> op, res |-> "err", out |-> None] \in CqeType
    BY <2>1 DEF CqeType, CoreInv, TypeOK, RingTypeOK
  <2>. QED BY <1>1, <2>1, <2>2, PlainCompletion DEF Kernel
<1>2. ASSUME NEW c \in Client, Kernel(Accepted(c)) PROVE CoreInv'
  BY <1>2, CompleteAcceptStep DEF Kernel, Accepted
<1>3. ASSUME NEW c \in Client, Kernel(Received(c)) PROVE CoreInv'
  <2>1. CASE StarveRecv(c)
    <3>1. PICK op \in inflight : Complete(op, "nobufs", None)
                                 /\ UNCHANGED <<sq, group, open, backlog>>
      BY <2>1 DEF StarveRecv
    <3>2. [op |-> op, res |-> "nobufs", out |-> None] \in CqeType
      BY <3>1 DEF CqeType, CoreInv, TypeOK, RingTypeOK
    <3>. QED BY <1>3, <3>1, <3>2, PlainCompletion DEF Kernel
  <2>. QED BY <1>3, <2>1, CompleteRecvStep DEF Kernel, Received
<1>4. ASSUME NEW c \in Client, Kernel(Sent(c)) PROVE CoreInv'
  <2>1. PICK op \in inflight, res \in SendResults :
          /\ op.type = "WRITE" /\ Complete(op, res, None)
          /\ UNCHANGED <<sq, group, open, backlog>>
    BY <1>4 DEF Kernel, Sent, CompleteSend
  <2>2. [op |-> op, res |-> res, out |-> None] \in CqeType
    BY <2>1 DEF CqeType, SendResults, CoreInv, TypeOK, RingTypeOK
  <2>. QED BY <1>4, <2>1, <2>2, PlainCompletion DEF Kernel
<1>. QED BY <1>1, <1>2, <1>3, <1>4 DEF KernelCompletes

--------------------------------------------------------------------------------
(* The event loop handles a CQE.                                           *)

LEMMA ExitStep ==
  ASSUME CoreInv, NEW reason \in Ended \ {"derailed"}, Exit(reason)
  PROVE  CoreInv'
BY RingStill DEF Exit, ringVars, CoreInv, TypeOK

LEMMA HandleProvBufStep ==
  ASSUME CoreInv, HandleProvBuf
  PROVE  CoreInv'
<1>. USE DEF CoreInv, serverVars
<1>0. PICK q \in cq :
        /\ Reaping(q, "PROV_BUF")
        /\ IF q.res = "err"
           THEN Exit("eprovide")
           ELSE /\ Seen(q)
                /\ UNCHANGED <<sq, inflight, group, open, backlog, serverVars>>
  BY DEF HandleProvBuf
<1>1. CASE q.res = "err"
  BY <1>0, <1>1, ExitStep DEF Ended
<1>2. CASE q.res # "err"
  <2>. USE <1>0, <1>2 DEF Reaping, Seen
  <2>h. RingTypeOK /\ Handled(q, 0) /\ New(0) = {}
    BY DEF TypeOK, RingTypeOK, Handled, New
  <2>e. ASSUME NEW E, q.op \notin E
        PROVE (AtMostOne(E) => AtMostOne(E)') /\ (Some(E)' <=> Some(E))
    BY <2>h, <2>e, HandledCounts
  <2>1. TypeOK' /\ ShapeInv' /\ RouteInv'
    BY DEF TypeOK, RingTypeOK, ShapeInv, RouteInv, Routed
  <2>2. WakeupInv' /\ AcceptInv'
    BY <2>e DEF WakeupInv, AcceptInv, One, Wakeups, Transfers, Accepts
  <2>3. DescriptorInv' /\ CoroutineInv'
    BY DEF DescriptorInv, DescriptorAgreement, CoroutineInv
  <2>4. BufferInv'
    BY DEF BufferInv, InSomeHand, HandsApart, Providing, Selected, Failed
  <2>. QED BY <2>1, <2>2, <2>3, <2>4
<1>. QED BY <1>1, <1>2

LEMMA HandleFailedAcceptStep ==
  ASSUME CoreInv, HandleFailedAccept
  PROVE  CoreInv'
<1>. USE DEF CoreInv, serverVars
<1>0. PICK q \in cq :
        /\ Reaping(q, "ACCEPT") /\ q.res = "err"
        /\ IF ~Room(1) THEN Exit("nosqe")
           ELSE /\ Seen(q)
                /\ sq' = Append(sq, add_accept_request)
                /\ UNCHANGED <<inflight, group, open, backlog, serverVars>>
  BY DEF HandleFailedAccept, Rearm
<1>1. CASE ~Room(1)
  BY <1>0, <1>1, ExitStep DEF Ended
<1>2. CASE Room(1)
  <2>. USE <1>0, <1>2 DEF Reaping, Seen
  <2>. RingTypeOK
    BY DEF TypeOK
  <2>s. add_accept_request \in SqeType /\ add_accept_request.type = "ACCEPT"
    BY DEF add_accept_request, Sqe, SqeType
  <2> DEFINE s == add_accept_request
  <2>a. /\ sq' \in Seq(SqeType) /\ Len(sq) \in Nat /\ DOMAIN sq = 1 .. Len(sq)
        /\ DOMAIN sq' = 1 .. (Len(sq) + 1)
        /\ \A i \in DOMAIN sq : sq'[i] = sq[i]
        /\ sq'[Len(sq) + 1] = s /\ New(1) = {Len(sq) + 1}
    BY <2>s, AppendFacts
  <2>h. Handled(q, 1)
    BY <2>a DEF Handled
  <2>n. \A i \in DOMAIN sq' : i \in DOMAIN sq \/ sq'[i] = s
    BY <2>a
  <2>q. q.op \in Accepts
    BY DEF TypeOK, RingTypeOK, CqeType, Accepts
  <2>1. TypeOK' /\ ShapeInv' /\ RouteInv'
    BY <2>a, <2>n, <2>s
       DEF TypeOK, RingTypeOK, ShapeInv, Shaped, RouteInv, Routed, Transfers
  <2>2. WakeupInv'
    <3>1. ASSUME NEW c \in Client
          PROVE /\ AtMostOne(Wakeups(c)) => AtMostOne(Wakeups(c))'
                /\ Some(Wakeups(c))' <=> Some(Wakeups(c))
      <4>1. q.op \notin Wakeups(c) /\ \A k \in New(1) : sq'[k] \notin Wakeups(c)
        BY <2>a, <2>s DEF Wakeups, Transfers
      <4>. QED BY <2>h, <4>1, HandledCounts
    <3>. QED BY <3>1 DEF WakeupInv, One, Wakeups, Transfers
  <2>3. AcceptInv'
    <3>1. sq'[Len(sq) + 1] \in Accepts /\ Len(sq) + 1 \in New(1)
      BY <2>a, <2>s DEF Accepts
    <3>2. \A j \in New(1) : j = Len(sq) + 1
      BY <2>a
    <3>. QED BY <2>h, <2>q, <3>1, <3>2, OneFilledIn DEF AcceptInv, Accepts
  <2>4. DescriptorInv' /\ CoroutineInv'
    BY DEF DescriptorInv, DescriptorAgreement, CoroutineInv
  <2>5. BufferInv'
    <3>. SUFFICES ASSUME NEW b \in Bid PROVE InSomeHand(b)' /\ HandsApart(b)'
      BY DEF BufferInv
    <3>1. InSomeHand(b) /\ HandsApart(b)
      BY DEF BufferInv
    <3>2. \A i \in DOMAIN sq' : Providing(i, b)' <=> (i \in DOMAIN sq /\ Providing(i, b))
      BY <2>a, <2>n, <2>s DEF Providing
    <3>3. \A r \in cq : Selected(r, b) \/ Failed(r, b) => r \in cq'
      BY DEF Selected, Failed
    <3>4. InSomeHand(b)'
      BY <2>a, <3>1, <3>2, <3>3 DEF InSomeHand
    <3>5. HandsApart(b)'
      BY <3>1, <3>2 DEF HandsApart
    <3>. QED BY <3>4, <3>5
  <2>. QED BY <2>1, <2>2, <2>3, <2>4, <2>5
<1>. QED BY <1>1, <1>2

LEMMA HandleAcceptStep ==
  ASSUME CoreInv, HandleAccept
  PROVE  CoreInv'
<1>. USE DEF CoreInv, serverVars
<1>0. PICK q \in cq, c \in Client :
        /\ Reaping(q, "ACCEPT") /\ q.res = "ok" /\ open[q.out] = c
        /\ IF connections[q.out] # None THEN Exit("derailed")
           ELSE IF ~Room(2) THEN Exit("nosqe")
           ELSE /\ Seen(q)
                /\ connections' = [connections EXCEPT ![q.out] = c]
                /\ co' = [co EXCEPT ![c] = "read"]
                /\ promise' = [promise EXCEPT ![c] = [fd |-> q.out, bid |-> None]]
                /\ sq' = Append(Append(sq, add_read_request(c, q.out)),
                                add_accept_request)
                /\ UNCHANGED <<inflight, group, open, backlog, proc, loop>>
  BY DEF HandleAccept, Rearm, StartRead
<1> DEFINE f == q.out
<1>f. f \in Fd /\ connections[f] = None /\ None \notin Client /\ None \notin Bid
      /\ None \notin Fd
  BY <1>0, RingAssumption DEF DescriptorInv, Reaping
<1>1. CASE ~Room(2)
  BY <1>0, <1>1, <1>f, ExitStep DEF Ended
<1>2. CASE Room(2)
  <2> DEFINE s == add_read_request(c, f)
             u == add_accept_request
  <2>0. /\ cq' = cq \ {q} /\ q.op.type = "ACCEPT"
        /\ connections' = [connections EXCEPT ![f] = c]
        /\ co' = [co EXCEPT ![c] = "read"]
        /\ promise' = [promise EXCEPT ![c] = [fd |-> f, bid |-> None]]
        /\ sq' = Append(Append(sq, s), u)
        /\ UNCHANGED <<inflight, group, open, backlog, proc, loop>>
    BY <1>0, <1>2, <1>f DEF Seen, Reaping
  <2>s. /\ s \in SqeType /\ u \in SqeType /\ u.type = "ACCEPT"
        /\ s.type = "READ" /\ s.conn = c /\ s.fd = f
    BY <1>f DEF add_accept_request, add_read_request, Sqe, SqeType
  <2>t. /\ RingTypeOK /\ co \in [Client -> Stages]
        /\ connections \in [Fd -> Client \union {None}]
        /\ promise \in [Client -> [fd : Fd \union {None}, bid : Bid \union {None}]]
    BY DEF TypeOK
  <2>. HIDE DEF f, s, u
  <2>a. /\ sq' \in Seq(SqeType) /\ Len(sq) \in Nat /\ DOMAIN sq = 1 .. Len(sq)
        /\ DOMAIN sq' = 1 .. (Len(sq) + 2)
        /\ \A i \in DOMAIN sq : sq'[i] = sq[i]
        /\ sq'[Len(sq) + 1] = s /\ sq'[Len(sq) + 2] = u
        /\ New(2) = {Len(sq) + 1, Len(sq) + 2}
    BY <2>0, <2>s, <2>t, TwoAppendFacts
  <2>h. Handled(q, 2)
    BY <2>0, <2>a DEF Handled
  <2>n. \A i \in DOMAIN sq' : i \in DOMAIN sq \/ sq'[i] = s \/ sq'[i] = u
    BY <2>a
  <2>c. /\ \A g \in Fd \ {f} : connections'[g] = connections[g]
        /\ connections'[f] = c
        /\ \A d \in Client \ {c} : co'[d] = co[d] /\ promise'[d] = promise[d]
        /\ co'[c] = "read" /\ promise'[c].fd = f /\ promise'[c].bid = None
    BY <1>f, <2>0, <2>t
  <2>o. co[c] = "none" /\ open[f] = c /\ c \notin backlog /\ promise[c].bid = None
    BY <1>0, <1>f DEF DescriptorInv, CoroutineInv, f
  <2>w. \A g \in Fd : connections[g] # c
    BY <2>o DEF CoroutineInv
  <2>q. q.op \in SqeType /\ q.op \in Accepts
    BY <2>0 DEF TypeOK, RingTypeOK, CqeType, Accepts
  <2>1. TypeOK'
    BY <1>f, <2>0, <2>a, <2>t DEF TypeOK, RingTypeOK, Stages
  <2>2. ShapeInv'
    BY <1>f, <2>0, <2>a, <2>n, <2>s DEF ShapeInv, Shaped
  <2>3. RouteInv'
    <3>1. ASSUME NEW e, e.fd \in Fd, e.conn \in Client, Routed(e) PROVE Routed(e)'
      BY <1>f, <2>0, <2>c, <2>w, <3>1 DEF Routed
    <3>2. Routed(s)'
      BY <2>0, <2>c, <2>s, <2>o DEF Routed
    <3>. QED BY <2>0, <2>a, <2>n, <2>s, <3>1, <3>2
         DEF RouteInv, Transfers, ShapeInv, Shaped
  <2>4. WakeupInv'
    <3>1. ASSUME NEW d \in Client \ {c}
          PROVE /\ AtMostOne(Wakeups(d)) => AtMostOne(Wakeups(d))'
                /\ Some(Wakeups(d))' <=> Some(Wakeups(d))
      <4>1. q.op \notin Wakeups(d) /\ \A k \in New(2) : sq'[k] \notin Wakeups(d)
        BY <2>0, <2>a, <2>s DEF Wakeups, Transfers
      <4>. QED BY <2>h, <2>t, <4>1, HandledCounts
    <3>2. One(Wakeups(c))'
      <4>1. ~Some(Wakeups(c))
        BY <2>o DEF WakeupInv
      <4>2. /\ Len(sq) + 1 \in New(2) /\ sq'[Len(sq) + 1] \in Wakeups(c)
            /\ \A j \in New(2) : sq'[j] \in Wakeups(c) => j = Len(sq) + 1
        BY <2>a, <2>s DEF Wakeups, Transfers
      <4>. QED BY <2>h, <2>t, <4>1, <4>2, OneFilledIn DEF Wakeups, Transfers
    <3>. SUFFICES ASSUME NEW d \in Client
                  PROVE (IF co[d] \in {"read", "write"} THEN One(Wakeups(d))
                         ELSE ~Some(Wakeups(d)))'
      BY DEF WakeupInv
    <3>3. CASE d = c
      BY <2>c, <3>2, <3>3
    <3>4. CASE d # c
      BY <2>c, <3>1, <3>4 DEF WakeupInv, One
    <3>. QED BY <3>3, <3>4
  <2>5. AcceptInv'
    <3>1. /\ Len(sq) + 2 \in New(2) /\ sq'[Len(sq) + 2] \in Accepts
          /\ \A j \in New(2) : sq'[j] \in Accepts => j = Len(sq) + 2
      BY <2>a, <2>s DEF Accepts
    <3>. QED BY <2>h, <2>t, <2>q, <3>1, OneFilledIn DEF AcceptInv, Accepts
  <2>6. DescriptorInv'
    <3>1. \A r \in cq' : r.op.type = "ACCEPT" => FALSE
      BY <2>0, <2>q DEF AcceptInv, One, AtMostOne, Accepts, TypeOK, RingTypeOK, CqeType
    <3>2. DescriptorAgreement'
      <4>1. \A g \in Fd : connections[g] = open[g] \/ g = f
        BY <2>0, <2>q DEF AcceptInv, One, AtMostOne, Accepts, TypeOK, RingTypeOK,
                          CqeType, DescriptorInv, DescriptorAgreement, f
      <4>. QED BY <2>0, <2>c, <2>o, <4>1 DEF DescriptorAgreement
    <3>3. \A g \in Fd : open[g] \in Client =>
            /\ open[g] \notin backlog
            /\ connections'[g] = open[g] \/ co'[open[g]] = "none"
      BY <1>f, <2>c, <2>o DEF DescriptorInv
    <3>. QED BY <2>0, <3>1, <3>2, <3>3 DEF DescriptorInv
  <2>7. CoroutineInv'
    BY <1>f, <2>0, <2>c, <2>o, <2>w DEF CoroutineInv
  <2>8. BufferInv'
    <3>. SUFFICES ASSUME NEW b \in Bid PROVE InSomeHand(b)' /\ HandsApart(b)'
      BY DEF BufferInv
    <3>1. InSomeHand(b) /\ HandsApart(b)
      BY DEF BufferInv
    <3>2. \A i \in DOMAIN sq' : Providing(i, b)' <=> (i \in DOMAIN sq /\ Providing(i, b))
      BY <2>a, <2>n, <2>s DEF Providing
    <3>3. \A r \in cq : Selected(r, b) \/ Failed(r, b) => r \in cq'
      BY <2>0 DEF Selected, Failed
    <3>4. \A d \in Client : promise'[d].bid = b <=> promise[d].bid = b
      BY <1>f, <2>c, <2>o
    <3>5. InSomeHand(b)'
      <4>1. CASE b \in group
        BY <2>0, <4>1 DEF InSomeHand
      <4>2. CASE \E r \in cq : Selected(r, b) \/ Failed(r, b)
        BY <3>3, <4>2 DEF InSomeHand
      <4>3. CASE \E d \in Client : promise[d].bid = b
        BY <3>4, <4>3 DEF InSomeHand
      <4>4. CASE \E i \in DOMAIN sq : Providing(i, b)
        BY <2>a, <3>2, <4>4 DEF InSomeHand
      <4>. QED BY <3>1, <4>1, <4>2, <4>3, <4>4 DEF InSomeHand
    <3>6. HandsApart(b)'
      BY <2>0, <3>1, <3>2, <3>4 DEF HandsApart
    <3>. QED BY <3>5, <3>6
  <2>. QED BY <2>0, <2>1, <2>2, <2>3, <2>4, <2>5, <2>6, <2>7, <2>8
<1>. QED BY <1>1, <1>2

(* The selected buffer passes from the CQE to the coroutine.               *)
LEMMA HandleReadStep ==
  ASSUME CoreInv, NEW c \in Client, HandleRead(c)
  PROVE  CoreInv'
<1>. USE DEF CoreInv, serverVars
<1>0. PICK q \in cq :
        /\ Reaping(q, "READ") /\ q.op.conn = c /\ Answered(q.res)
        /\ IF ~Suspended(q.op, "read") THEN Exit("derailed")
           ELSE IF ~Room(1) THEN Exit("nosqe")
           ELSE /\ Seen(q)
                /\ promise' = [promise EXCEPT ![c].bid = q.out]
                /\ co' = [co EXCEPT ![c] = "write"]
                /\ sq' = Append(sq, add_write_request(c, q.out))
                /\ UNCHANGED <<inflight, group, open, backlog, proc, loop,
                               connections>>
  BY DEF HandleRead, StartWrite
<1>q. q.op \in SqeType /\ q.op \in Wakeups(c) /\ Routed(q.op) /\ q.op.type = "READ"
      /\ q.out \in Bid /\ q.op.fd \in Fd
  BY <1>0 DEF Reaping, TypeOK, RingTypeOK, CqeType, Wakeups, Transfers, RouteInv,
              ShapeInv, Shaped
<1>r. /\ connections[q.op.fd] = c /\ open[q.op.fd] = c /\ promise[c].fd = q.op.fd
      /\ co[c] = "read" /\ promise[c].bid = None /\ None \notin Bid /\ None \notin Client
  BY <1>0, <1>q, RingAssumption DEF Routed, CoroutineInv
<1>1. CASE ~Room(1)
  BY <1>0, <1>1, <1>q, <1>r, ExitStep DEF Ended, Suspended
<1>2. CASE Room(1)
  <2> DEFINE b == q.out
             s == add_write_request(c, b)
  <2>0. /\ cq' = cq \ {q}
        /\ promise' = [promise EXCEPT ![c].bid = b]
        /\ co' = [co EXCEPT ![c] = "write"]
        /\ sq' = Append(sq, s)
        /\ UNCHANGED <<inflight, group, open, backlog, proc, loop, connections>>
    BY <1>0, <1>2, <1>q, <1>r DEF Seen, Suspended
  <2>s. /\ s \in SqeType /\ s.type = "WRITE" /\ s.conn = c /\ s.fd = promise[c].fd
        /\ s.bid = b /\ s.fd \in Fd
    BY <1>q, <1>r DEF add_write_request, Sqe, SqeType
  <2>t. /\ RingTypeOK /\ co \in [Client -> Stages] /\ b \in Bid
        /\ promise \in [Client -> [fd : Fd \union {None}, bid : Bid \union {None}]]
    BY <1>q DEF TypeOK
  <2>. HIDE DEF s
  <2>a. /\ sq' \in Seq(SqeType) /\ Len(sq) \in Nat /\ DOMAIN sq = 1 .. Len(sq)
        /\ DOMAIN sq' = 1 .. (Len(sq) + 1)
        /\ \A i \in DOMAIN sq : sq'[i] = sq[i]
        /\ sq'[Len(sq) + 1] = s /\ New(1) = {Len(sq) + 1}
    BY <2>0, <2>s, <2>t, AppendFacts
  <2>h. Handled(q, 1)
    BY <2>0, <2>a DEF Handled
  <2>n. \A i \in DOMAIN sq' : i \in DOMAIN sq \/ sq'[i] = s
    BY <2>a
  <2>c. /\ \A d \in Client \ {c} : co'[d] = co[d] /\ promise'[d] = promise[d]
        /\ co'[c] = "write" /\ promise'[c].fd = promise[c].fd /\ promise'[c].bid = b
    BY <2>0, <2>t
  <2>w. One(Wakeups(c))
    BY <1>r DEF WakeupInv
  <2>1. TypeOK'
    BY <2>0, <2>a, <2>t DEF TypeOK, RingTypeOK, Stages
  <2>2. ShapeInv'
    BY <2>0, <2>a, <2>n, <2>s DEF ShapeInv, Shaped
  <2>3. RouteInv'
    <3>1. ASSUME NEW e, e.fd \in Fd, e.conn \in Client \ {c}, Routed(e) PROVE Routed(e)'
      BY <2>0, <2>c, <3>1 DEF Routed
    <3>2. ASSUME NEW e, e = s PROVE Routed(e)'
      BY <1>r, <2>0, <2>c, <2>s, <3>2 DEF Routed
    <3>3. /\ \A i \in DOMAIN sq : sq[i] \notin Wakeups(c)
          /\ \A e \in inflight : e \notin Wakeups(c)
          /\ \A r \in cq' : r.op \notin Wakeups(c)
      BY <1>q, <2>0, <2>w DEF One, AtMostOne
    <3>. QED BY <2>0, <2>a, <2>n, <2>s, <3>1, <3>2, <3>3
         DEF RouteInv, Wakeups, Transfers, ShapeInv, Shaped
  <2>4. WakeupInv'
    <3>1. ASSUME NEW d \in Client \ {c}
          PROVE /\ AtMostOne(Wakeups(d)) => AtMostOne(Wakeups(d))'
                /\ Some(Wakeups(d))' <=> Some(Wakeups(d))
      <4>1. q.op \notin Wakeups(d) /\ \A k \in New(1) : sq'[k] \notin Wakeups(d)
        BY <1>q, <2>a, <2>s DEF Wakeups, Transfers
      <4>. QED BY <2>h, <2>t, <4>1, HandledCounts
    <3>2. One(Wakeups(c))'
      <4>1. /\ Len(sq) + 1 \in New(1) /\ sq'[Len(sq) + 1] \in Wakeups(c)
            /\ \A j \in New(1) : sq'[j] \in Wakeups(c) => j = Len(sq) + 1
        BY <2>a, <2>s DEF Wakeups, Transfers
      <4>. QED BY <1>q, <2>h, <2>t, <2>w, <4>1, OneFilledIn DEF Wakeups, Transfers
    <3>. SUFFICES ASSUME NEW d \in Client
                  PROVE (IF co[d] \in {"read", "write"} THEN One(Wakeups(d))
                         ELSE ~Some(Wakeups(d)))'
      BY DEF WakeupInv
    <3>3. CASE d = c
      BY <2>c, <3>2, <3>3
    <3>4. CASE d # c
      BY <2>c, <3>1, <3>4 DEF WakeupInv, One
    <3>. QED BY <3>3, <3>4
  <2>5. AcceptInv'
    <3>1. q.op \notin Accepts /\ \A k \in New(1) : sq'[k] \notin Accepts
      BY <1>q, <2>a, <2>s DEF Accepts
    <3>. QED BY <2>h, <2>t, <3>1, HandledCounts DEF AcceptInv, One, Accepts
  <2>6. DescriptorInv' /\ CoroutineInv'
    <3>1. \A r \in cq : r.op.type = "ACCEPT" => r \in cq'
      BY <1>q, <2>0
    <3>2. DescriptorAgreement'
      BY <2>0, <3>1 DEF DescriptorInv, DescriptorAgreement
    <3>3. DescriptorInv'
      BY <1>r, <2>0, <2>c, <3>2 DEF DescriptorInv
    <3>. QED BY <1>r, <2>0, <2>c, <2>t, <3>3 DEF CoroutineInv
  <2>7. BufferInv'
    <3>. SUFFICES ASSUME NEW x \in Bid PROVE InSomeHand(x)' /\ HandsApart(x)'
      BY DEF BufferInv
    <3>1. InSomeHand(x) /\ HandsApart(x)
      BY DEF BufferInv
    <3>2. \A i \in DOMAIN sq' : Providing(i, x)' <=> (i \in DOMAIN sq /\ Providing(i, x))
      BY <2>a, <2>n, <2>s DEF Providing
    <3>3. \A r \in cq : Failed(r, x) <=> (r \in cq' /\ Failed(r, x))
      BY <1>q, <2>0 DEF Failed
    <3>4. CASE x # b
      <4>1. \A r \in cq : Selected(r, x) => r \in cq'
        BY <2>0, <3>4 DEF Selected
      <4>2. \A d \in Client : promise'[d].bid = x <=> promise[d].bid = x
        BY <1>r, <2>c, <3>4
      <4>3. InSomeHand(x)'
        BY <2>0, <2>a, <3>1, <3>2, <3>3, <4>1, <4>2 DEF InSomeHand
      <4>4. HandsApart(x)'
        BY <2>0, <3>1, <3>2, <4>2 DEF HandsApart
      <4>. QED BY <4>3, <4>4
    <3>5. CASE x = b
      <4>1. Selected(q, x)
        BY <1>q, <3>5 DEF Selected
      <4>2. \A r \in cq' : ~Selected(r, x) /\ ~Failed(r, x)
        BY <2>0, <3>1, <4>1 DEF HandsApart
      <4>3. /\ x \notin group' /\ \A i \in DOMAIN sq' : ~Providing(i, x)'
            /\ \A d \in Client : promise'[d].bid = x <=> d = c
        BY <2>0, <2>c, <3>1, <3>2, <3>5, <4>1 DEF HandsApart
      <4>4. InSomeHand(x)'
        BY <4>3 DEF InSomeHand
      <4>5. HandsApart(x)'
        BY <4>2, <4>3 DEF HandsApart
      <4>. QED BY <4>4, <4>5
    <3>. QED BY <3>4, <3>5
  <2>. QED BY <2>0, <2>1, <2>2, <2>3, <2>4, <2>5, <2>6, <2>7
<1>. QED BY <1>1, <1>2

(* The buffer passes from the coroutine to the request that gives it back, *)
(* and the descriptor is free for another connection.                      *)
LEMMA HandleWriteStep ==
  ASSUME CoreInv, NEW c \in Client, HandleWrite(c)
  PROVE  CoreInv'
<1>. USE DEF CoreInv, serverVars
<1>0. PICK q \in cq :
        /\ Reaping(q, "WRITE") /\ q.op.conn = c
        /\ IF ~Suspended(q.op, "write") THEN Exit("derailed")
           ELSE IF ~Room(1) THEN Exit("nosqe")
           ELSE /\ Seen(q)
                /\ sq' = Append(sq, add_buffer_request(c))
                /\ connections' = [connections EXCEPT ![promise[c].fd] = None]
                /\ open' = [open EXCEPT ![promise[c].fd] = None]
                /\ co' = [co EXCEPT ![c] = "done"]
                /\ promise' = [promise EXCEPT ![c] = Blank]
                /\ UNCHANGED <<inflight, group, backlog, proc, loop>>
  BY DEF HandleWrite, EndWrite, add_close_request
<1>q. q.op \in SqeType /\ q.op \in Wakeups(c) /\ Routed(q.op) /\ q.op.type = "WRITE"
      /\ q.op.fd \in Fd
  BY <1>0 DEF Reaping, TypeOK, RingTypeOK, CqeType, Wakeups, Transfers, RouteInv,
              ShapeInv, Shaped
<1>r. /\ connections[q.op.fd] = c /\ open[q.op.fd] = c /\ promise[c].fd = q.op.fd
      /\ co[c] = "write" /\ promise[c].bid \in Bid
      /\ None \notin Bid /\ None \notin Client
  BY <1>0, <1>q, RingAssumption DEF Routed, CoroutineInv
<1>1. CASE ~Room(1)
  BY <1>0, <1>1, <1>q, <1>r, ExitStep DEF Ended, Suspended
<1>2. CASE Room(1)
  <2>. PICK f, b, s : f = promise[c].fd /\ b = promise[c].bid /\ s = add_buffer_request(c)
    OBVIOUS
  <2>0. /\ cq' = cq \ {q}
        /\ sq' = Append(sq, s)
        /\ connections' = [connections EXCEPT ![f] = None]
        /\ open' = [open EXCEPT ![f] = None]
        /\ co' = [co EXCEPT ![c] = "done"]
        /\ promise' = [promise EXCEPT ![c] = Blank]
        /\ UNCHANGED <<inflight, group, backlog, proc, loop>>
    BY <1>0, <1>2, <1>q, <1>r DEF Seen, Suspended
  <2>s. /\ s \in SqeType /\ s.type = "PROV_BUF" /\ s.conn = c /\ s.bid = b
        /\ f \in Fd /\ b \in Bid
    BY <1>q, <1>r DEF add_buffer_request, Sqe, SqeType
  <2>t. /\ RingTypeOK /\ co \in [Client -> Stages]
        /\ open \in [Fd -> Client \union {None}]
        /\ connections \in [Fd -> Client \union {None}]
        /\ promise \in [Client -> [fd : Fd \union {None}, bid : Bid \union {None}]]
    BY DEF TypeOK, RingTypeOK
  <2>a. /\ sq' \in Seq(SqeType) /\ Len(sq) \in Nat /\ DOMAIN sq = 1 .. Len(sq)
        /\ DOMAIN sq' = 1 .. (Len(sq) + 1)
        /\ \A i \in DOMAIN sq : sq'[i] = sq[i]
        /\ sq'[Len(sq) + 1] = s /\ New(1) = {Len(sq) + 1}
    BY <2>0, <2>s, <2>t, AppendFacts
  <2>h. Handled(q, 1)
    BY <2>0, <2>a DEF Handled
  <2>n. \A i \in DOMAIN sq' : i \in DOMAIN sq \/ sq'[i] = s
    BY <2>a
  <2>c. /\ \A d \in Client \ {c} : co'[d] = co[d] /\ promise'[d] = promise[d]
        /\ co'[c] = "done" /\ promise'[c].fd = None /\ promise'[c].bid = None
        /\ \A g \in Fd \ {f} : connections'[g] = connections[g] /\ open'[g] = open[g]
        /\ connections'[f] = None /\ open'[f] = None
    BY <2>0, <2>s, <2>t DEF Blank
  <2>f. /\ connections[f] = c /\ open[f] = c
        /\ \A g \in Fd : connections[g] = c \/ open[g] = c => g = f
    BY <1>q, <1>r DEF CoroutineInv, DescriptorInv
  <2>w. One(Wakeups(c))
    BY <1>r DEF WakeupInv
  <2>x. /\ \A i \in DOMAIN sq : sq[i] \notin Wakeups(c)
        /\ \A e \in inflight : e \notin Wakeups(c)
        /\ \A r \in cq' : r.op \notin Wakeups(c)
    BY <1>q, <2>0, <2>w DEF One, AtMostOne
  <2>1. TypeOK'
    BY <2>0, <2>a, <2>t DEF TypeOK, RingTypeOK, Stages, Blank
  <2>2. ShapeInv'
    BY <2>0, <2>a, <2>n, <2>s DEF ShapeInv, Shaped
  <2>3. RouteInv'
    <3>1. ASSUME NEW e, e.fd \in Fd, e.conn \in Client \ {c}, Routed(e) PROVE Routed(e)'
      BY <2>c, <2>f, <3>1 DEF Routed
    <3>. QED BY <2>0, <2>a, <2>n, <2>s, <2>x, <3>1
         DEF RouteInv, Wakeups, Transfers, ShapeInv, Shaped
  <2>4. WakeupInv'
    <3>1. ASSUME NEW d \in Client \ {c}
          PROVE /\ AtMostOne(Wakeups(d)) => AtMostOne(Wakeups(d))'
                /\ Some(Wakeups(d))' <=> Some(Wakeups(d))
      <4>1. q.op \notin Wakeups(d) /\ \A k \in New(1) : sq'[k] \notin Wakeups(d)
        BY <1>q, <2>a, <2>s DEF Wakeups, Transfers
      <4>. QED BY <2>h, <2>t, <4>1, HandledCounts
    <3>2. ~Some(Wakeups(c))'
      <4>1. \A k \in New(1) : sq'[k] \notin Wakeups(c)
        BY <2>a, <2>s DEF Wakeups, Transfers
      <4>. QED BY <1>q, <2>h, <2>t, <2>w, <4>1, LastSeen DEF Wakeups, Transfers
    <3>. SUFFICES ASSUME NEW d \in Client
                  PROVE (IF co[d] \in {"read", "write"} THEN One(Wakeups(d))
                         ELSE ~Some(Wakeups(d)))'
      BY DEF WakeupInv
    <3>3. CASE d = c
      BY <2>c, <3>2, <3>3
    <3>4. CASE d # c
      BY <2>c, <3>1, <3>4 DEF WakeupInv, One
    <3>. QED BY <3>3, <3>4
  <2>5. AcceptInv'
    <3>1. q.op \notin Accepts /\ \A k \in New(1) : sq'[k] \notin Accepts
      BY <1>q, <2>a, <2>s DEF Accepts
    <3>. QED BY <2>h, <2>t, <3>1, HandledCounts DEF AcceptInv, One, Accepts
  <2>6. DescriptorInv'
    <3>1. \A r \in cq : r.op.type = "ACCEPT" => r \in cq'
      BY <1>q, <2>0
    <3>2. DescriptorAgreement'
      BY <2>0, <2>c, <3>1 DEF DescriptorInv, DescriptorAgreement
    <3>3. \A r \in cq' : r.op.type = "ACCEPT" /\ r.res = "ok" =>
            r.out \in Fd /\ open'[r.out] \in Client /\ connections'[r.out] = None
      BY <1>r, <2>0, <2>c, <2>f DEF DescriptorInv
    <3>4. \A d, g \in Fd : open'[d] \in Client /\ open'[d] = open'[g] => d = g
      BY <1>r, <2>c DEF DescriptorInv
    <3>5. \A g \in Fd : open'[g] \in Client =>
            /\ open'[g] \notin backlog'
            /\ connections'[g] = open'[g] \/ co'[open'[g]] = "none"
      BY <1>r, <2>0, <2>c, <2>f DEF DescriptorInv
    <3>. QED BY <3>2, <3>3, <3>4, <3>5 DEF DescriptorInv
  <2>7. CoroutineInv'
    BY <1>r, <2>0, <2>c, <2>f DEF CoroutineInv
  <2>8. BufferInv'
    <3>. SUFFICES ASSUME NEW x \in Bid PROVE InSomeHand(x)' /\ HandsApart(x)'
      BY DEF BufferInv
    <3>1. InSomeHand(x) /\ HandsApart(x)
      BY DEF BufferInv
    <3>2. \A i \in DOMAIN sq' :
            Providing(i, x)' <=> (i \in DOMAIN sq /\ Providing(i, x))
                                \/ (i = Len(sq) + 1 /\ x = b)
      BY <2>a, <2>n, <2>s DEF Providing
    <3>3. \A r \in cq : Selected(r, x) \/ Failed(r, x) => r \in cq'
      BY <1>q, <2>0 DEF Selected, Failed
    <3>4. \A d \in Client : promise'[d].bid = x <=> promise[d].bid = x /\ d # c
      BY <1>r, <2>c
    <3>5. CASE x # b
      <4>1. \A d \in Client : promise'[d].bid = x <=> promise[d].bid = x
        BY <3>4, <3>5
      <4>2. ASSUME x \in group PROVE InSomeHand(x)'
        BY <2>0, <4>2 DEF InSomeHand
      <4>3. ASSUME \E r \in cq : Selected(r, x) \/ Failed(r, x) PROVE InSomeHand(x)'
        BY <3>3, <4>3 DEF InSomeHand
      <4>4. ASSUME \E d \in Client : promise[d].bid = x PROVE InSomeHand(x)'
        BY <4>1, <4>4 DEF InSomeHand
      <4>5. ASSUME \E i \in DOMAIN sq : Providing(i, x) PROVE InSomeHand(x)'
        BY <2>a, <3>2, <4>5 DEF InSomeHand
      <4>6. InSomeHand(x)'
        BY <3>1, <4>2, <4>3, <4>4, <4>5 DEF InSomeHand
      <4>7. HandsApart(x)'
        BY <2>0, <3>1, <3>2, <3>5, <4>1 DEF HandsApart
      <4>. QED BY <4>6, <4>7
    <3>6. CASE x = b
      <4>1. /\ x \notin group' /\ \A r \in cq' : ~Selected(r, x) /\ ~Failed(r, x)
            /\ \A d \in Client : promise'[d].bid # x
            /\ \A i \in DOMAIN sq' : Providing(i, x)' <=> i = Len(sq) + 1
        BY <2>0, <3>1, <3>2, <3>4, <3>6 DEF HandsApart
      <4>2. InSomeHand(x)'
        BY <2>a, <4>1 DEF InSomeHand
      <4>3. HandsApart(x)'
        BY <4>1 DEF HandsApart
      <4>. QED BY <4>2, <4>3
    <3>. QED BY <3>5, <3>6
  <2>. QED BY <2>0, <2>1, <2>2, <2>3, <2>4, <2>5, <2>6, <2>7, <2>8
<1>. QED BY <1>1, <1>2

--------------------------------------------------------------------------------
LEMMA NextCoreInv == CoreInv /\ [Next]_vars => CoreInv'
<1>. SUFFICES ASSUME CoreInv, [Next]_vars PROVE CoreInv'
  OBVIOUS
<1>. USE DEF vars, ringVars, serverVars
<1>1. CASE Enter \/ Return
  BY <1>1, RingStill DEF Enter, Return, CoreInv
<1>2. CASE KernelConsumes
  BY <1>2, ConsumeProvideStep, ConsumeProvideFailsStep, ConsumeRequestStep
     DEF KernelConsumes
<1>3. CASE KernelCompletes
  BY <1>3, KernelCompletesStep
<1>4. CASE OutOfBuffers
  BY <1>4, ExitStep DEF OutOfBuffers, Ended
<1>5. CASE HandleProvBuf
  BY <1>5, HandleProvBufStep
<1>6. CASE HandleAccept
  BY <1>6, HandleAcceptStep
<1>7. CASE HandleFailedAccept
  BY <1>7, HandleFailedAcceptStep
<1>8. ASSUME NEW c \in Client, HandleRead(c) PROVE CoreInv'
  BY <1>8, HandleReadStep
<1>9. ASSUME NEW c \in Client, RequestKills(c) PROVE CoreInv'
  BY <1>9, ExitStep DEF RequestKills, Ended
<1>10. ASSUME NEW c \in Client, HandleWrite(c) PROVE CoreInv'
  BY <1>10, HandleWriteStep
<1>11. CASE UNCHANGED vars
  BY <1>11, RingStill DEF CoreInv, TypeOK
<1>. QED
  BY <1>1, <1>2, <1>3, <1>4, <1>5, <1>6, <1>7, <1>8, <1>9, <1>10, <1>11
     DEF Next, HandlesCqe

(* The invariant holds in every reachable state, for any number of         *)
(* clients, descriptors, buffers and SQEs and any set of faults.           *)
THEOREM CoreInvariance == Spec => []CoreInv
<1>1. Init => CoreInv
  BY InitCoreInv
<1>2. CoreInv /\ [Next]_vars => CoreInv'
  BY NextCoreInv
<1>. QED BY <1>1, <1>2, PTL DEF Spec

(* Every variable keeps its type: in particular an operation that is to    *)
(* resume a coroutine always names a descriptor and a buffer the code can  *)
(* index with.                                                             *)
THEOREM TypeCorrect == Spec => []TypeOK
<1>1. CoreInv => TypeOK
  BY DEF CoreInv
<1>. QED BY <1>1, CoreInvariance, PTL

(* Although completions name a descriptor only and descriptors are reused, *)
(* connections.at never misses and never finds another's coroutine.        *)
THEOREM RoutingHolds == Spec => []Routing
<1>1. CoreInv => Routing
  BY DEF CoreInv, RouteInv, Routing, Operations
<1>. QED BY <1>1, CoreInvariance, PTL

(* From the count of operations to the set of their places.                *)
LEMMA OnePlace ==
  ASSUME NEW E
  PROVE  /\ One(E) => ExactlyOne(Places(E))
         /\ ~Some(E) => Places(E) = {}
<1>1. ASSUME One(E) PROVE ExactlyOne(Places(E))
  <2>1. CASE \E i \in DOMAIN sq : sq[i] \in E
    <3>1. PICK i \in DOMAIN sq : sq[i] \in E
      BY <2>1
    <3>2. Places(E) = {<<"sq", i>>}
      BY <1>1, <3>1 DEF Places, One, AtMostOne
    <3>. QED BY <3>2 DEF ExactlyOne
  <2>2. CASE \E e \in inflight : e \in E
    <3>1. PICK e \in inflight : e \in E
      BY <2>2
    <3>2. Places(E) = {<<"inflight", e>>}
      BY <1>1, <3>1 DEF Places, One, AtMostOne
    <3>. QED BY <3>2 DEF ExactlyOne
  <2>3. CASE \E q \in cq : q.op \in E
    <3>1. PICK q \in cq : q.op \in E
      BY <2>3
    <3>2. Places(E) = {<<"cq", q>>}
      BY <1>1, <3>1 DEF Places, One, AtMostOne
    <3>. QED BY <3>2 DEF ExactlyOne
  <2>. QED BY <1>1, <2>1, <2>2, <2>3 DEF One, Some
<1>2. ASSUME ~Some(E) PROVE Places(E) = {}
  BY <1>2 DEF Some, Places
<1>. QED BY <1>1, <1>2

(* No wake-up is lost or doubled, whatever the interleaving.               *)
THEOREM OneWakeupHolds == Spec => []OneWakeup
<1>1. CoreInv => OneWakeup
  BY OnePlace DEF CoreInv, WakeupInv, OneWakeup
<1>. QED BY <1>1, CoreInvariance, PTL

(* The server never stops accepting and never accepts twice at once.       *)
THEOREM AcceptArmedHolds == Spec => []AcceptArmed
<1>1. CoreInv => AcceptArmed
  BY OnePlace DEF CoreInv, AcceptInv, AcceptArmed
<1>. QED BY <1>1, CoreInvariance, PTL

(* No descriptor leaks, and none is closed under a live connection.        *)
THEOREM DescriptorAgreementHolds == Spec => []DescriptorAgreement
<1>1. CoreInv => DescriptorAgreement
  BY DEF CoreInv, DescriptorInv
<1>. QED BY <1>1, CoreInvariance, PTL

(* No provided buffer is ever lost, or used by two connections at once.    *)
THEOREM BufferConservationHolds == Spec => []BufferConservation
<1>1. ASSUME NEW b \in Bid, InSomeHand(b), HandsApart(b)
      PROVE  ExactlyOne(Hands(b))
  <2>. USE <1>1 DEF HandsApart, Selected, Providing, Failed, Hands
  <2>1. CASE b \in group
    <3>1. Hands(b) = {<<"group", b>>}
      BY <2>1
    <3>. QED BY <3>1 DEF ExactlyOne
  <2>2. ASSUME NEW q \in cq, Selected(q, b) PROVE ExactlyOne(Hands(b))
    <3>1. Hands(b) = {<<"selected", q>>}
      BY <2>2
    <3>. QED BY <3>1 DEF ExactlyOne
  <2>3. ASSUME NEW c \in Client, promise[c].bid = b PROVE ExactlyOne(Hands(b))
    <3>1. Hands(b) = {<<"answering", c>>}
      BY <2>3
    <3>. QED BY <3>1 DEF ExactlyOne
  <2>4. ASSUME NEW i \in DOMAIN sq, Providing(i, b) PROVE ExactlyOne(Hands(b))
    <3>1. Hands(b) = {<<"sq", i>>}
      BY <2>4
    <3>. QED BY <3>1 DEF ExactlyOne
  <2>5. ASSUME NEW q \in cq, Failed(q, b) PROVE ExactlyOne(Hands(b))
    <3>1. Hands(b) = {<<"failed", q>>}
      BY <2>5
    <3>. QED BY <3>1 DEF ExactlyOne
  <2>. QED BY <2>1, <2>2, <2>3, <2>4, <2>5 DEF InSomeHand
<1>2. CoreInv => BufferConservation
  BY <1>1 DEF CoreInv, BufferInv, BufferConservation
<1>. QED BY <1>2, CoreInvariance, PTL

--------------------------------------------------------------------------------
(* The refinement of BufferPool: whose hands a buffer is in.               *)
InHands(c, b) == Lent(c, b) \/ Returning(c, b)

LEMMA HandFacts ==
  ASSUME CoreInv, NEW b \in Bid
  PROVE  /\ b \in group <=> \A c \in Client : ~InHands(c, b)
         /\ \A c, d \in Client : InHands(c, b) /\ InHands(d, b) => c = d
         /\ \A c, d \in Client : ~(Lent(c, b) /\ Returning(d, b))
<1>. USE DEF CoreInv
<1>1. InSomeHand(b) /\ HandsApart(b)
  BY DEF BufferInv
<1>2. \A c \in Client : Lent(c, b) <=>
        promise[c].bid = b \/ \E q \in cq : Selected(q, b) /\ q.op.conn = c
  BY DEF Lent, Selected
<1>3. \A c \in Client : Returning(c, b) <=>
        \/ \E i \in DOMAIN sq : Providing(i, b) /\ sq[i].conn = c
        \/ \E q \in cq : Failed(q, b) /\ q.op.conn = c
  BY DEF Returning, Providing, Failed
<1>4. b \in group => \A c \in Client : ~InHands(c, b)
  BY <1>1, <1>2, <1>3 DEF HandsApart, InHands
<1>5. ASSUME b \notin group PROVE \E c \in Client : InHands(c, b)
  <2>1. \A q \in cq : Selected(q, b) \/ Failed(q, b) => q.op.conn \in Client
    BY DEF ShapeInv, Shaped, Selected, Failed
  <2>2. \A i \in DOMAIN sq : Providing(i, b) => sq[i].conn \in Client
    BY DEF ShapeInv, Shaped, Providing
  <2>. QED BY <1>1, <1>2, <1>3, <1>5, <2>1, <2>2 DEF InSomeHand, InHands
<1>6. \A c, d \in Client : Lent(c, b) /\ Lent(d, b) => c = d
  BY <1>1, <1>2 DEF HandsApart
<1>7. \A c, d \in Client : Returning(c, b) /\ Returning(d, b) => c = d
  BY <1>1, <1>3 DEF HandsApart
<1>8. \A c, d \in Client : ~(Lent(c, b) /\ Returning(d, b))
  BY <1>1, <1>2, <1>3 DEF HandsApart
<1>. QED BY <1>4, <1>5, <1>6, <1>7, <1>8 DEF InHands

LEMMA OwnerFacts ==
  ASSUME CoreInv, NEW b \in Bid
  PROVE  /\ b \in group => OwnerOf(b) = None
         /\ \A c \in Client : InHands(c, b) => OwnerOf(b) = c
         /\ \A c \in Client : OwnerOf(b) = c => InHands(c, b)
<1>1. b \in group => OwnerOf(b) = None
  BY DEF OwnerOf
<1>2. ASSUME NEW c \in Client, InHands(c, b) PROVE OwnerOf(b) = c
  BY <1>2, HandFacts DEF OwnerOf, InHands
<1>3. ASSUME NEW c \in Client, OwnerOf(b) = c PROVE InHands(c, b)
  BY <1>1, <1>2, <1>3, HandFacts, RingAssumption
<1>. QED BY <1>1, <1>2, <1>3

(* What the owner becomes, from what becomes of the hands.                 *)
LEMMA OwnerStays ==
  ASSUME CoreInv, NEW b \in Bid, b \in group' <=> b \in group,
         \A c \in Client : InHands(c, b)' <=> InHands(c, b)
  PROVE  OwnerOf(b)' = OwnerOf(b)
<1>1. CASE b \in group
  BY <1>1 DEF OwnerOf
<1>2. CASE b \notin group
  <2>1. PICK c \in Client : InHands(c, b)
    BY <1>2, HandFacts
  <2>2. OwnerOf(b) = c
    BY <2>1, OwnerFacts
  <2>3. InHands(c, b)' /\ b \notin group'
    BY <1>2, <2>1
  <2>4. \A d \in Client : InHands(d, b)' => d = c
    BY <2>1, HandFacts
  <2>5. OwnerOf(b)' = c
    BY <2>3, <2>4 DEF OwnerOf, InHands
  <2>. QED BY <2>2, <2>5
<1>. QED BY <1>1, <1>2

(* A step that leaves the buffers in the same hands.                       *)
LEMMA SameHands ==
  ASSUME CoreInv, group' = group,
         \A b \in Bid, c \in Client :
           /\ Lent(c, b)' <=> Lent(c, b)
           /\ Returning(c, b)' <=> Returning(c, b)
  PROVE  UNCHANGED Lending!vars
<1>1. \A b \in Bid : OwnerOf(b)' = OwnerOf(b)
  BY OwnerStays DEF InHands
<1>. QED BY <1>1 DEF Lending!vars

(* A buffer leaves the group for a connection that has no other.           *)
LEMMA HandsLend ==
  ASSUME CoreInv, NEW c \in Client, NEW b \in Bid, b \in group,
         group' = group \ {b}, \A d \in Bid : ~Lent(c, d),
         \A d \in Bid, e \in Client :
           /\ Lent(e, d)' <=> Lent(e, d) \/ (e = c /\ d = b)
           /\ Returning(e, d)' <=> Returning(e, d)
  PROVE  Lending!Lend(c, b)
<1>1. OwnerOf(b) = None
  BY OwnerFacts
<1>2. ASSUME NEW d \in Bid, OwnerOf(d) = c PROVE \E e \in Client : Returning(e, d)
  BY <1>2, OwnerFacts DEF InHands
<1>3. OwnerOf(b)' = c
  <2>1. \A e \in Client : InHands(e, b)' <=> e = c
    BY HandFacts DEF InHands
  <2>. QED BY <2>1 DEF OwnerOf, InHands
<1>4. ASSUME NEW d \in Bid, d # b PROVE OwnerOf(d)' = OwnerOf(d)
  BY <1>4, OwnerStays DEF InHands
<1>. QED BY <1>1, <1>2, <1>3, <1>4 DEF Lending!Lend

(* The borrower of a buffer is done with it.                               *)
LEMMA HandsRelease ==
  ASSUME CoreInv, NEW c \in Client, NEW b \in Bid, Lent(c, b), group' = group,
         \A d \in Bid, e \in Client :
           /\ Lent(e, d)' <=> Lent(e, d) /\ ~(e = c /\ d = b)
           /\ Returning(e, d)' <=> Returning(e, d) \/ (e = c /\ d = b)
  PROVE  Lending!Release(b)
<1>1. OwnerOf(b) = c /\ c # None
  BY OwnerFacts, RingAssumption DEF InHands
<1>2. \A e \in Client : ~Returning(e, b)
  BY HandFacts
<1>3. ASSUME NEW d \in Bid PROVE OwnerOf(d)' = OwnerOf(d)
  <2>1. \A e \in Client : InHands(e, d)' <=> InHands(e, d)
    BY DEF InHands
  <2>. QED BY <2>1, OwnerStays
<1>. QED BY <1>1, <1>2, <1>3 DEF Lending!Release

(* A buffer on its way back joins the group.                               *)
LEMMA HandsReturn ==
  ASSUME CoreInv, NEW c \in Client, NEW b \in Bid, Returning(c, b),
         group' = group \union {b},
         \A d \in Bid, e \in Client :
           /\ Lent(e, d)' <=> Lent(e, d)
           /\ Returning(e, d)' <=> Returning(e, d) /\ d # b
  PROVE  Lending!Return(b)
<1>1. OwnerOf(b)' = None
  BY DEF OwnerOf
<1>2. ASSUME NEW d \in Bid, d # b PROVE OwnerOf(d)' = OwnerOf(d)
  BY <1>2, OwnerStays DEF InHands
<1>. QED BY <1>1, <1>2 DEF Lending!Return

--------------------------------------------------------------------------------
(* Every step of the server is one of the pool, or none.                   *)
LEMMA ConsumeRefines ==
  ASSUME CoreInv, KernelConsumes
  PROVE  [Lending!Next]_(Lending!vars)
<1>. USE DEF CoreInv, serverVars
<1>. RingTypeOK /\ sq # <<>> /\ promise' = promise
  BY DEF TypeOK, KernelConsumes, ConsumeProvide, ConsumeProvideFails, ConsumeRequest
<1>s. sq' = Tail(sq)
  BY DEF KernelConsumes, ConsumeProvide, ConsumeProvideFails, ConsumeRequest
<1>t. /\ Head(sq) = sq[1] /\ 1 \in DOMAIN sq
      /\ \A i \in DOMAIN Tail(sq) : i + 1 \in DOMAIN sq /\ Tail(sq)[i] = sq[i + 1]
      /\ \A j \in DOMAIN sq : j = 1 \/ (j - 1 \in DOMAIN Tail(sq) /\ Tail(sq)[j - 1] = sq[j])
  BY TailFacts
<1>i. /\ \A i \in DOMAIN sq' : \E j \in DOMAIN sq : j # 1 /\ sq'[i] = sq[j]
      /\ \A j \in DOMAIN sq : j = 1 \/ \E i \in DOMAIN sq' : sq'[i] = sq[j]
  <2>1. \A i \in DOMAIN sq' : i + 1 \in DOMAIN sq /\ i + 1 # 1 /\ sq'[i] = sq[i + 1]
    <3>1. DOMAIN Tail(sq) \subseteq 1 .. (Len(sq) - 1) /\ Len(sq) \in Nat
      BY TailFacts
    <3>. QED BY <1>s, <1>t, <3>1
  <2>2. \A j \in DOMAIN sq : j = 1 \/ (j - 1 \in DOMAIN sq' /\ sq'[j - 1] = sq[j])
    BY <1>s, <1>t
  <2>. QED BY <2>1, <2>2
<1>1. CASE ConsumeProvide
  <2>0. PICK b, c : b = Head(sq).bid /\ c = Head(sq).conn
    OBVIOUS
  <2>1. /\ b \in Bid /\ c \in Client /\ b = Head(sq).bid
        /\ Head(sq).type = "PROV_BUF" /\ Providing(1, b)
    BY <2>0, <1>t, <1>1 DEF ShapeInv, Shaped, ConsumeProvide, Providing
  <2>2. Returning(c, b) /\ group' = group \union {b}
    BY <1>1, <1>t, <2>0, <2>1 DEF Returning, ConsumeProvide
  <2>3. PICK r : cq' = cq \union {r} /\ r.op = Head(sq) /\ r.res = "ok"
    BY <1>1, Posted DEF ConsumeProvide
  <2>4. ASSUME NEW d \in Bid, NEW e \in Client PROVE Lent(e, d)' <=> Lent(e, d)
    BY <2>1, <2>3 DEF Lent
  <2>5. ASSUME NEW d \in Bid, NEW e \in Client
        PROVE Returning(e, d)' <=> Returning(e, d) /\ d # b
    <3>1. HandsApart(b)
      BY <2>1 DEF BufferInv
    <3>2. \A j \in DOMAIN sq : j # 1 => ~Providing(j, b)
      BY <1>t, <2>1, <3>1 DEF HandsApart
    <3>3. \A q \in cq : ~Failed(q, b)
      BY <1>t, <2>1, <3>1 DEF HandsApart
    <3>4. ~Returning(e, b)'
      BY <1>i, <2>3, <3>2, <3>3 DEF Returning, Providing, Failed
    <3>5. Returning(e, d)' => Returning(e, d)
      BY <1>i, <2>3 DEF Returning
    <3>6. Returning(e, d) /\ d # b => Returning(e, d)'
      BY <1>i, <1>t, <2>1, <2>3 DEF Returning
    <3>. QED BY <3>4, <3>5, <3>6
  <2>. QED BY <2>1, <2>2, <2>4, <2>5, HandsReturn DEF Lending!Next
<1>2. CASE ConsumeProvideFails
  <2>1. Head(sq).type = "PROV_BUF" /\ group' = group
    BY <1>2 DEF ConsumeProvideFails
  <2>2. PICK r : cq' = cq \union {r} /\ r.op = Head(sq) /\ r.res = "err"
    BY <1>2, Posted DEF ConsumeProvideFails
  <2>3. ASSUME NEW d \in Bid, NEW e \in Client PROVE Lent(e, d)' <=> Lent(e, d)
    BY <2>1, <2>2 DEF Lent
  <2>4. ASSUME NEW d \in Bid, NEW e \in Client PROVE Returning(e, d)' <=> Returning(e, d)
    BY <1>i, <1>t, <2>1, <2>2 DEF Returning
  <2>. QED BY <2>1, <2>3, <2>4, SameHands
<1>3. CASE ConsumeRequest
  <2>1. cq' = cq /\ group' = group /\ Head(sq).type # "PROV_BUF"
    BY <1>3 DEF ConsumeRequest
  <2>2. ASSUME NEW d \in Bid, NEW e \in Client PROVE Lent(e, d)' <=> Lent(e, d)
    BY <2>1 DEF Lent
  <2>3. ASSUME NEW d \in Bid, NEW e \in Client PROVE Returning(e, d)' <=> Returning(e, d)
    BY <1>i, <1>t, <2>1 DEF Returning
  <2>. QED BY <2>1, <2>2, <2>3, SameHands
<1>. QED BY <1>1, <1>2, <1>3 DEF KernelConsumes

(* A completion that selects no buffer leaves them where they are.         *)
LEMMA PlainCompletionRefines ==
  ASSUME CoreInv, NEW op, NEW res, NEW out, Complete(op, res, out),
         op.type # "READ" \/ out \notin Bid,
         sq' = sq, group' = group, promise' = promise
  PROVE  UNCHANGED Lending!vars
<1>. USE DEF CoreInv, Complete
<1>1. PICK r : cq' = cq \union {r} /\ r.op = op /\ r.out = out
  BY Posted
<1>2. op.type # "PROV_BUF"
  BY DEF ShapeInv
<1>3. ASSUME NEW d \in Bid, NEW e \in Client
      PROVE  /\ Lent(e, d)' <=> Lent(e, d)
             /\ Returning(e, d)' <=> Returning(e, d)
  BY <1>1, <1>2 DEF Lent, Returning
<1>. QED BY <1>3, SameHands

(* The read lends the buffer the kernel selected.  The connection has no   *)
(* other: it is waiting for this one.                                      *)
LEMMA CompleteRecvRefines ==
  ASSUME CoreInv, NEW c \in Client, NEW b \in Bid, NEW res, CompleteRecv(c, b, res),
         promise' = promise
  PROVE  Lending!Lend(c, b)
<1>. USE DEF CoreInv, Complete
<1>0. PICK op \in inflight :
        /\ op.type = "READ" /\ op.conn = c /\ b \in group
        /\ Complete(op, res, b)
        /\ group' = group \ {b}
        /\ UNCHANGED <<sq, open, backlog>>
  BY DEF CompleteRecv
<1>1. PICK r : cq' = cq \union {r} /\ r.op = op /\ r.out = b
  BY <1>0, Posted
<1>2. op \in Wakeups(c) /\ Routed(op)
  BY <1>0 DEF TypeOK, RingTypeOK, Wakeups, Transfers, RouteInv
<1>3. co[c] = "read" /\ promise[c].bid = None
  BY <1>0, <1>2 DEF Routed, CoroutineInv
<1>4. \A q \in cq : ~(q.op.type = "READ" /\ q.op.conn = c)
  <2>1. One(Wakeups(c))
    BY <1>3 DEF WakeupInv
  <2>2. \A q \in cq : q.op \in SqeType
    BY DEF TypeOK, RingTypeOK, CqeType
  <2>. QED BY <1>2, <2>1, <2>2 DEF One, AtMostOne, Wakeups, Transfers
<1>5. \A d \in Bid : ~Lent(c, d)
  BY <1>3, <1>4, RingAssumption DEF Lent
<1>6. ASSUME NEW d \in Bid, NEW e \in Client
      PROVE  /\ Lent(e, d)' <=> Lent(e, d) \/ (e = c /\ d = b)
             /\ Returning(e, d)' <=> Returning(e, d)
  BY <1>0, <1>1 DEF Lent, Returning
<1>. QED BY <1>0, <1>5, <1>6, HandsLend

LEMMA KernelCompletesRefines ==
  ASSUME CoreInv, KernelCompletes
  PROVE  [Lending!Next]_(Lending!vars)
<1>. USE DEF Kernel, serverVars
<1>. None \notin Bid /\ promise' = promise
  BY RingAssumption DEF KernelCompletes
<1>1. CASE FailAccept
  BY <1>1, PlainCompletionRefines DEF FailAccept
<1>2. ASSUME NEW c \in Client, NEW f \in Fd, CompleteAccept(c, f)
      PROVE  UNCHANGED Lending!vars
  <2>1. PICK op : /\ op.type = "ACCEPT" /\ Complete(op, "ok", f)
                  /\ UNCHANGED <<sq, group>>
    BY <1>2 DEF CompleteAccept
  <2>. QED BY <2>1, PlainCompletionRefines
<1>3. ASSUME NEW c \in Client, StarveRecv(c) PROVE UNCHANGED Lending!vars
  BY <1>3, PlainCompletionRefines DEF StarveRecv
<1>4. ASSUME NEW c \in Client, NEW b \in Bid, NEW res, CompleteRecv(c, b, res)
      PROVE  Lending!Next
  BY <1>4, CompleteRecvRefines DEF Lending!Next
<1>5. ASSUME NEW c \in Client, NEW b \in Bid, NEW res, CompleteSend(c, b, res)
      PROVE  UNCHANGED Lending!vars
  <2>1. PICK op : /\ op.type = "WRITE" /\ Complete(op, res, None)
                  /\ UNCHANGED <<sq, group>>
    BY <1>5 DEF CompleteSend
  <2>. QED BY <2>1, PlainCompletionRefines
<1>. QED BY <1>1, <1>2, <1>3, <1>4, <1>5
         DEF KernelCompletes, Accepted, Received, Sent

(* A CQE of no read and of no failed provide is seen, and nothing that     *)
(* gives a buffer back is filled in.                                       *)
LEMMA SeenRefines ==
  ASSUME CoreInv, NEW q \in cq, cq' = cq \ {q}, group' = group,
         q.op.type # "READ", q.op.type # "PROV_BUF" \/ q.res # "err",
         NEW n \in Nat, Len(sq) \in Nat, DOMAIN sq = 1 .. Len(sq),
         DOMAIN sq' = 1 .. (Len(sq) + n), \A i \in DOMAIN sq : sq'[i] = sq[i],
         \A k \in New(n) : sq'[k].type # "PROV_BUF",
         \A c \in Client : promise'[c].bid = promise[c].bid
  PROVE  UNCHANGED Lending!vars
<1>1. /\ \A i \in DOMAIN sq : i \in DOMAIN sq'
      /\ \A i \in DOMAIN sq' : i \in DOMAIN sq \/ i \in New(n)
  BY DEF New
<1>2. ASSUME NEW d \in Bid, NEW e \in Client
      PROVE  /\ Lent(e, d)' <=> Lent(e, d)
             /\ Returning(e, d)' <=> Returning(e, d)
  BY <1>1 DEF Lent, Returning
<1>. QED BY <1>2, SameHands

LEMMA ExitRefines ==
  ASSUME CoreInv, NEW reason, Exit(reason)
  PROVE  UNCHANGED Lending!vars
BY SameHands DEF Exit, ringVars, Lent, Returning

LEMMA HandlesCqeRefines ==
  ASSUME CoreInv, HandlesCqe
  PROVE  [Lending!Next]_(Lending!vars)
<1>. USE DEF CoreInv, Reaping, Seen, Sqe
<1>. RingTypeOK /\ Len(sq) \in Nat /\ DOMAIN sq = 1 .. Len(sq) /\ None \notin Bid
  BY RingAssumption DEF TypeOK, RingTypeOK
<1>t. promise \in [Client -> [fd : Fd \union {None}, bid : Bid \union {None}]]
  BY DEF TypeOK
<1>0. \A r : Exit(r) => UNCHANGED Lending!vars
  BY ExitRefines
<1>1. CASE OutOfBuffers \/ \E c \in Client : RequestKills(c)
  BY <1>0, <1>1 DEF OutOfBuffers, RequestKills
<1>2. ASSUME HandleProvBuf, ~ UNCHANGED Lending!vars PROVE FALSE
  <2>1. PICK q \in cq : /\ q.op.type = "PROV_BUF" /\ q.res # "err" /\ cq' = cq \ {q}
                         /\ UNCHANGED <<sq, inflight, group, open, backlog, serverVars>>
    BY <1>0, <1>2 DEF HandleProvBuf
  <2>2. DOMAIN sq' = 1 .. (Len(sq) + 0) /\ 0 \in Nat /\ New(0) = {}
    BY <2>1 DEF New
  <2>. QED BY <1>2, <2>1, <2>2, SeenRefines DEF serverVars
<1>3. ASSUME HandleFailedAccept, ~ UNCHANGED Lending!vars PROVE FALSE
  <2>1. PICK q \in cq :
          /\ q.op.type = "ACCEPT" /\ cq' = cq \ {q} /\ sq' = Append(sq, add_accept_request)
          /\ group' = group /\ promise' = promise
    BY <1>0, <1>3 DEF HandleFailedAccept, Rearm, serverVars
  <2>2. add_accept_request \in SqeType /\ add_accept_request.type = "ACCEPT"
    BY DEF add_accept_request, SqeType
  <2>3. /\ DOMAIN sq' = 1 .. (Len(sq) + 1) /\ \A i \in DOMAIN sq : sq'[i] = sq[i]
        /\ \A k \in New(1) : sq'[k].type # "PROV_BUF"
    BY <2>1, <2>2, AppendFacts
  <2>. QED BY <1>3, <2>1, <2>3, SeenRefines
<1>4. ASSUME HandleAccept, ~ UNCHANGED Lending!vars PROVE FALSE
  <2>1. PICK q \in cq, c \in Client :
          /\ q.op.type = "ACCEPT" /\ q.res = "ok" /\ open[q.out] = c
          /\ connections[q.out] = None /\ cq' = cq \ {q}
          /\ promise' = [promise EXCEPT ![c] = [fd |-> q.out, bid |-> None]]
          /\ sq' = Append(Append(sq, add_read_request(c, q.out)), add_accept_request)
          /\ group' = group
    BY <1>0, <1>4 DEF HandleAccept, Rearm, StartRead
  <2>2. q.out \in Fd /\ promise[c].bid = None
    BY <2>1, RingAssumption DEF DescriptorInv, CoroutineInv
  <2>3. /\ add_accept_request \in SqeType /\ add_accept_request.type = "ACCEPT"
        /\ add_read_request(c, q.out) \in SqeType
        /\ add_read_request(c, q.out).type = "READ"
    BY <2>2 DEF add_accept_request, add_read_request, SqeType
  <2>4. /\ DOMAIN sq' = 1 .. (Len(sq) + 2) /\ \A i \in DOMAIN sq : sq'[i] = sq[i]
        /\ \A k \in New(2) : sq'[k].type # "PROV_BUF"
    BY <2>1, <2>3, TwoAppendFacts
  <2>5. \A d \in Client : promise'[d].bid = promise[d].bid
    BY <1>t, <2>1, <2>2
  <2>. QED BY <1>4, <2>1, <2>4, <2>5, SeenRefines
<1>5. ASSUME NEW c \in Client, HandleRead(c), ~ UNCHANGED Lending!vars PROVE FALSE
  <2>1. PICK q \in cq :
          /\ q.op.type = "READ" /\ q.op.conn = c /\ q.res # "nobufs"
          /\ co[c] = "read" /\ cq' = cq \ {q}
          /\ promise' = [promise EXCEPT ![c].bid = q.out]
          /\ sq' = Append(sq, add_write_request(c, q.out))
          /\ group' = group
    BY <1>0, <1>5 DEF HandleRead, StartWrite, Suspended
  <2>2. q.out \in Bid /\ promise[c].bid = None
    BY <2>1 DEF ShapeInv, CoroutineInv
  <2>3. add_write_request(c, q.out) \in SqeType /\ add_write_request(c, q.out).type = "WRITE"
    BY <1>t, <2>2 DEF add_write_request, SqeType
  <2>4. /\ DOMAIN sq' = 1 .. (Len(sq) + 1) /\ \A i \in DOMAIN sq : sq'[i] = sq[i]
        /\ \A k \in New(1) : sq'[k].type # "PROV_BUF"
    BY <2>1, <2>3, AppendFacts
  <2>5. /\ \A i \in DOMAIN sq : i \in DOMAIN sq'
        /\ \A i \in DOMAIN sq' : i \in DOMAIN sq \/ i \in New(1)
    BY <2>4 DEF New
  <2>6. promise'[c].bid = q.out /\ \A d \in Client \ {c} : promise'[d].bid = promise[d].bid
    BY <1>t, <2>1
  <2>7. ASSUME NEW d \in Bid, NEW e \in Client PROVE Returning(e, d)' <=> Returning(e, d)
    BY <2>1, <2>4, <2>5 DEF Returning
  <2>8. ASSUME NEW d \in Bid, NEW e \in Client PROVE Lent(e, d)' <=> Lent(e, d)
    BY <2>1, <2>2, <2>6 DEF Lent
  <2>. QED BY <1>5, <2>1, <2>7, <2>8, SameHands
<1>6. ASSUME NEW c \in Client, HandleWrite(c), ~ UNCHANGED Lending!vars
      PROVE  \E b \in Bid : Lending!Release(b)
  <2>1. PICK q \in cq :
          /\ q.op.type = "WRITE" /\ co[c] = "write" /\ cq' = cq \ {q}
          /\ sq' = Append(sq, add_buffer_request(c))
          /\ promise' = [promise EXCEPT ![c] = Blank]
          /\ group' = group
    BY <1>0, <1>6 DEF HandleWrite, EndWrite, Suspended
  <2>2. PICK b, s : b = promise[c].bid /\ s = add_buffer_request(c)
    OBVIOUS
  <2>3. /\ b \in Bid /\ Lent(c, b)
        /\ s \in SqeType /\ s.type = "PROV_BUF" /\ s.conn = c /\ s.bid = b
    BY <1>t, <2>1, <2>2 DEF CoroutineInv, Lent, add_buffer_request, SqeType
  <2>4. /\ DOMAIN sq' = 1 .. (Len(sq) + 1) /\ \A i \in DOMAIN sq : sq'[i] = sq[i]
        /\ sq'[Len(sq) + 1] = s
    BY <2>1, <2>2, <2>3, AppendFacts
  <2>5. /\ \A i \in DOMAIN sq : i \in DOMAIN sq'
        /\ \A i \in DOMAIN sq' : i \in DOMAIN sq \/ i = Len(sq) + 1
        /\ Len(sq) + 1 \in DOMAIN sq'
    BY <2>4
  <2>6. promise'[c].bid = None /\ \A d \in Client \ {c} : promise'[d].bid = promise[d].bid
    BY <1>t, <2>1 DEF Blank
  <2>7. \A r \in cq : ~(r.op.type = "READ" /\ r.out = b)
    BY <2>2, <2>3 DEF BufferInv, HandsApart, Selected
  <2>8. \A r \in cq : r.op.type = "READ" => r.op.conn # c
    <3>1. One(Wakeups(c))
      BY <2>1 DEF WakeupInv
    <3>2. q.op \in SqeType /\ \A r \in cq : r.op \in SqeType
      BY DEF TypeOK, RingTypeOK, CqeType
    <3>3. ASSUME NEW r \in cq, r.op.type = "READ", r.op.conn = c PROVE FALSE
      <4>1. Routed(r.op)
        BY <3>2, <3>3 DEF RouteInv, Transfers
      <4>. QED BY <2>1, <3>3, <4>1 DEF Routed
    <3>. QED BY <3>3
  <2>9. ASSUME NEW d \in Bid, NEW e \in Client
        PROVE  Returning(e, d)' <=> Returning(e, d) \/ (e = c /\ d = b)
    BY <2>1, <2>3, <2>4, <2>5 DEF Returning
  <2>10. ASSUME NEW d \in Bid, NEW e \in Client
         PROVE  Lent(e, d)' <=> Lent(e, d) /\ ~(e = c /\ d = b)
    BY <2>1, <2>2, <2>6, <2>7, <2>8 DEF Lent
  <2>. QED BY <2>1, <2>3, <2>9, <2>10, HandsRelease
<1>. QED BY <1>1, <1>2, <1>3, <1>4, <1>5, <1>6 DEF HandlesCqe, Lending!Next

(* Whatever the number of clients and buffers and whatever fails: a buffer *)
(* is lent to one connection at a time, a connection has at most one, and  *)
(* it returns to the group only after its borrower released it.            *)
THEOREM PoolDisciplineHolds == Spec => PoolDiscipline
<1>1. Init => Lending!Init
  <2>. SUFFICES ASSUME Init PROVE Lending!Init
    OBVIOUS
  <2>1. /\ group = Bid /\ cq = {} /\ DOMAIN sq = {1} /\ sq[1].type = "ACCEPT"
    BY DEF Init, add_accept_request, Sqe
  <2>. QED BY <2>1 DEF Lending!Init, OwnerOf, Returning
<1>2. CoreInv /\ [Next]_vars => [Lending!Next]_(Lending!vars)
  <2>. SUFFICES ASSUME CoreInv, [Next]_vars PROVE [Lending!Next]_(Lending!vars)
    OBVIOUS
  <2>1. CASE Enter \/ Return \/ UNCHANGED vars
    <3>1. UNCHANGED <<sq, cq, group, promise>>
      BY <2>1 DEF Enter, Return, vars, ringVars, serverVars
    <3>. QED BY <3>1, SameHands DEF Lent, Returning
  <2>. QED BY <2>1, ConsumeRefines, KernelCompletesRefines, HandlesCqeRefines DEF Next
<1>. QED BY <1>1, <1>2, CoreInvariance, PTL DEF Spec, PoolDiscipline, Lending!Spec

================================================================================
