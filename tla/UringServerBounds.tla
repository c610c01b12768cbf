--------------------------- MODULE UringServerBounds ---------------------------
(***************************************************************************)
(* Proofs about the limits of UringServer: the submission queue is never   *)
(* full, and the buffers run out only when one was lost, for any numbers   *)
(* of clients, descriptors and buffers.                                    *)
(***************************************************************************)
EXTENDS UringServerProofs

--------------------------------------------------------------------------------
(* The SQEs of D are on different descriptors of T, so they are no more.   *)
LEMMA OnePerDescriptor ==
  ASSUME NEW D \in SUBSET (DOMAIN sq), NEW T, IsFiniteSet(T),
         \A i \in D : sq[i].fd \in T,
         \A i, j \in D : sq[i].fd = sq[j].fd => i = j
  PROVE  IsFiniteSet(D) /\ Cardinality(D) <= Cardinality(T)
<1> DEFINE m == [i \in D |-> sq[i].fd]
<1>1. m \in Injection(D, T)
  BY DEF Injection, IsInjective
<1>. QED BY <1>1, FS_Injection

(* Two transfers in the queue are of different connections, hence on       *)
(* different descriptors.                                                  *)
LEMMA TransfersApart ==
  ASSUME CoreInv, NEW i \in DOMAIN sq, NEW j \in DOMAIN sq,
         sq[i] \in Transfers, sq[j] \in Transfers, sq[i].fd = sq[j].fd
  PROVE  i = j
<1>1. Routed(sq[i]) /\ Routed(sq[j]) /\ Shaped(sq[i]) /\ Shaped(sq[j])
  BY DEF CoreInv, RouteInv, ShapeInv
<1>2. PICK c \in Client : sq[i].conn = c
  BY <1>1 DEF Shaped, Transfers
<1>3. sq[j].conn = c /\ co[c] \in {"read", "write"}
  BY <1>1, <1>2 DEF Routed
<1>4. One(Wakeups(c))
  BY <1>3 DEF CoreInv, WakeupInv
<1>. QED BY <1>2, <1>3, <1>4 DEF One, AtMostOne, Wakeups

(* As long as the accept was not filled in again, the queue holds at most  *)
(* one SQE per descriptor.                                                 *)
LEMMA BeforeAccept ==
  ASSUME CoreInv, ProvideInv, ReuseInv, loop = "reap",
         \A i \in DOMAIN sq : sq[i].type # "ACCEPT"
  PROVE  Len(sq) \in Nat /\ Cardinality(Fd) \in Nat /\ Len(sq) <= Cardinality(Fd)
<1>. USE DEF CoreInv
<1>0. RingTypeOK /\ Len(sq) \in Nat /\ DOMAIN sq = 1 .. Len(sq)
  BY DEF TypeOK, RingTypeOK
<1>1. \A i \in DOMAIN sq :
        /\ sq[i] \in SqeType /\ Shaped(sq[i])
        /\ sq[i] \in Transfers \/ sq[i].type = "PROV_BUF"
  <2>1. \A i \in DOMAIN sq : sq[i] \in SqeType /\ Shaped(sq[i])
    BY <1>0 DEF RingTypeOK, ShapeInv
  <2>. QED BY <2>1 DEF SqeType, Transfers
<1>2. \A i \in DOMAIN sq : sq[i].fd \in Fd
  BY <1>1 DEF Shaped, Transfers, ProvideInv
<1>3. ASSUME NEW i \in DOMAIN sq, NEW j \in DOMAIN sq, sq[i].fd = sq[j].fd,
             sq[i].type = "PROV_BUF", i # j
      PROVE  FALSE
  <2>1. sq[j].type = "READ" /\ sq[j] \in Transfers
    BY <1>1, <1>3 DEF ProvideInv, Transfers
  <2>2. Routed(sq[j]) /\ sq[j].conn \in Client
    BY <1>1, <2>1 DEF RouteInv, Shaped
  <2>3. Reused(i) /\ connections[sq[i].fd] # None
    BY <1>3, <2>2, RingAssumption DEF Reused, Routed
  <2>. QED BY <2>3 DEF ReuseInv, DescriptorInv
<1>4. \A i, j \in DOMAIN sq : sq[i].fd = sq[j].fd => i = j
  BY <1>1, <1>3, TransfersApart
<1>5. Cardinality(DOMAIN sq) <= Cardinality(Fd)
  BY <1>2, <1>4, OnePerDescriptor, RingAssumption
<1>6. Cardinality(DOMAIN sq) = Len(sq)
  BY <1>0, Indices
<1>. QED BY <1>0, <1>5, <1>6, FS_CardinalityType, RingAssumption

(* After that, there may be the accept, and one more on a descriptor that  *)
(* was accepted again; but none on a descriptor whose transfer is just     *)
(* being handled.                                                          *)
LEMMA DuringTransfer ==
  ASSUME CoreInv, ProvideInv, ReuseInv, loop = "reap",
         NEW f \in Fd, open[f] # None,
         \A i \in DOMAIN sq : sq[i] \in Transfers => sq[i].fd # f
  PROVE  Len(sq) \in Nat /\ Cardinality(Fd) \in Nat /\ Len(sq) <= Cardinality(Fd) + 1
<1>. USE DEF CoreInv
<1>0. RingTypeOK /\ Len(sq) \in Nat /\ DOMAIN sq = 1 .. Len(sq)
  BY DEF TypeOK, RingTypeOK
<1>1. \A i \in DOMAIN sq :
        /\ sq[i] \in SqeType /\ Shaped(sq[i])
        /\ sq[i] \in Transfers \/ sq[i].type = "PROV_BUF" \/ sq[i] \in Accepts
  <2>1. \A i \in DOMAIN sq : sq[i] \in SqeType /\ Shaped(sq[i])
    BY <1>0 DEF RingTypeOK, ShapeInv
  <2>. QED BY <2>1 DEF SqeType, Transfers, Accepts
<1>2. PICK a : \A i \in DOMAIN sq : sq[i] \in Accepts => i = a
  BY DEF AcceptInv, One, AtMostOne
<1>3. PICK r : \A i \in DOMAIN sq : Reused(i) => i = r
  BY DEF ReuseInv
<1> DEFINE D == DOMAIN sq \ {a, r}
<1>4. \A i \in D : /\ sq[i] \in Transfers \/ sq[i].type = "PROV_BUF"
                   /\ sq[i].type = "PROV_BUF" => open[sq[i].fd] = None
  BY <1>1, <1>2, <1>3 DEF Reused
<1>5. \A i \in D : sq[i].fd \in Fd \ {f}
  BY <1>1, <1>4 DEF Shaped, Transfers, ProvideInv
<1>6. ASSUME NEW i \in D, NEW j \in D, sq[i].fd = sq[j].fd,
             sq[i].type = "PROV_BUF", i # j
      PROVE  FALSE
  <2>1. sq[j].type = "READ" /\ sq[j] \in Transfers
    BY <1>1, <1>4, <1>6 DEF ProvideInv, Transfers
  <2>2. Routed(sq[j]) /\ sq[j].conn \in Client
    BY <1>1, <2>1 DEF RouteInv, Shaped
  <2>. QED BY <1>4, <1>6, <2>2, RingAssumption DEF Routed
<1>7. \A i, j \in D : sq[i].fd = sq[j].fd => i = j
  BY <1>4, <1>6, TransfersApart
<1>8. /\ IsFiniteSet(Fd \ {f}) /\ Cardinality(Fd) \in Nat
      /\ Cardinality(Fd \ {f}) = Cardinality(Fd) - 1
  BY RingAssumption, FS_RemoveElement, FS_CardinalityType
<1>9. Cardinality(D) <= Cardinality(Fd \ {f})
  BY <1>5, <1>7, <1>8, OnePerDescriptor
<1>10. /\ Cardinality(D) \in Nat
       /\ Len(sq) \in Nat /\ Len(sq) <= Cardinality(D) + 2
  BY <1>0, AllButTwo
<1>. QED BY <1>8, <1>9, <1>10

--------------------------------------------------------------------------------
(* A buffer that is lost stays lost while no CQE but a good one is seen.   *)
LEMMA StaysStarved ==
  ASSUME StarvedInv, proc' = proc,
         \A q \in cq : q.op.type = "PROV_BUF" /\ q.res = "err" => q \in cq',
         \A q \in cq' : q.res = "nobufs" => q \in cq
  PROVE  StarvedInv'
BY DEF StarvedInv, NoBufferExhaustion, BufferLost

LEMMA InitBoundInv == Init => BoundInv
<1>. SUFFICES ASSUME Init PROVE BoundInv
  OBVIOUS
<1>1. /\ DOMAIN sq = {1} /\ sq[1].type = "ACCEPT" /\ cq = {}
      /\ proc = "up" /\ loop = "enter"
  BY DEF Init, add_accept_request, Sqe
<1>2. ProvideInv /\ ReuseInv
  BY <1>1 DEF ProvideInv, ReuseInv
<1>3. StarvedInv /\ SqNeverFull
  BY <1>1 DEF StarvedInv, NoBufferExhaustion, SqNeverFull
<1>. QED BY <1>2, <1>3 DEF BoundInv

(* Steps that move nothing but the end of the loop, or of the process.     *)
LEMMA StillBounds ==
  ASSUME BoundInv, UNCHANGED ringVars,
         loop' = "enter" \/ sq = <<>> \/ loop' = loop,
         proc' = "nosqe" => proc = "nosqe" \/ ~(Cardinality(Fd) + 2 <= ENTRIES),
         proc' = "enobufs" => proc = "enobufs" \/ \E q \in cq : q.res = "nobufs"
  PROVE  BoundInv'
<1>. USE DEF BoundInv, ringVars
<1>1. ProvideInv'
  BY DEF ProvideInv
<1>2. ReuseInv'
  <2>1. CASE loop' = "enter" \/ loop' = loop
    BY <2>1 DEF ReuseInv, Reused
  <2>2. CASE sq = <<>>
    <3>1. DOMAIN sq' = {}
      BY <2>2
    <3>. QED BY <3>1 DEF ReuseInv
  <2>. QED BY <2>1, <2>2
<1>3. StarvedInv'
  BY DEF StarvedInv, NoBufferExhaustion, BufferLost
<1>4. SqNeverFull'
  BY DEF SqNeverFull
<1>. QED BY <1>1, <1>2, <1>3, <1>4

(* The kernel consumes the queue in order: what is in front of a provide   *)
(* is not on its descriptor.                                               *)
LEMMA ConsumesBounds ==
  ASSUME CoreInv, BoundInv, KernelConsumes
  PROVE  BoundInv'
<1>. USE DEF BoundInv, KernelConsumes, serverVars
<1>0. RingTypeOK /\ sq # <<>>
  BY DEF CoreInv, TypeOK, ConsumeProvide, ConsumeProvideFails, ConsumeRequest
<1>t. /\ DOMAIN sq = 1 .. Len(sq) /\ Head(sq) = sq[1] /\ 1 \in DOMAIN sq
      /\ \A i \in DOMAIN Tail(sq) : i + 1 \in DOMAIN sq /\ Tail(sq)[i] = sq[i + 1]
  BY <1>0, TailFacts
<1>s. /\ sq' = Tail(sq) /\ \A i \in DOMAIN Tail(sq) : i \in Nat /\ i + 1 # 1
  BY <1>0, TailFacts DEF ConsumeProvide, ConsumeProvideFails, ConsumeRequest
<1>1. ProvideInv'
  <2>1. ASSUME NEW i \in DOMAIN sq', NEW j \in DOMAIN sq', sq'[i].type = "PROV_BUF",
               sq'[j].type # "ACCEPT", sq'[j].fd = sq'[i].fd
        PROVE  j = i \/ (j > i /\ sq'[j].type = "READ")
    <3>1. /\ sq'[i] = sq[i + 1] /\ sq'[j] = sq[j + 1]
          /\ i + 1 \in DOMAIN sq /\ j + 1 \in DOMAIN sq
      BY <1>t, <1>s
    <3>2. j + 1 = i + 1 \/ (j + 1 > i + 1 /\ sq[j + 1].type = "READ")
      BY <2>1, <3>1 DEF ProvideInv
    <3>. QED BY <1>s, <3>1, <3>2
  <2>2. ASSUME NEW i \in DOMAIN sq', sq'[i].type = "PROV_BUF",
               NEW e \in inflight', e \in Transfers
        PROVE  e.fd # sq'[i].fd
    <3>1. sq'[i] = sq[i + 1] /\ i + 1 \in DOMAIN sq
      BY <1>t, <1>s
    <3>2. CASE e \in inflight
      BY <2>2, <3>1, <3>2 DEF ProvideInv
    <3>3. CASE e = sq[1]
      <4>1. 1 # i + 1 /\ ~(1 > i + 1)
        BY <1>s
      <4>. QED BY <1>t, <2>2, <3>1, <3>3, <4>1 DEF ProvideInv, Transfers
    <3>. QED BY <1>t, <3>2, <3>3 DEF ConsumeProvide, ConsumeProvideFails, ConsumeRequest
  <2>3. ASSUME NEW i \in DOMAIN sq', sq'[i].type = "PROV_BUF",
               NEW q \in cq', q.op \in Transfers
        PROVE  q \in cq
    BY <2>3 DEF ConsumeProvide, ConsumeProvideFails, ConsumeRequest, Post, Cqe, Transfers
  <2>. QED BY <1>t, <1>s, <2>1, <2>2, <2>3 DEF ProvideInv
<1>2. ReuseInv'
  BY DEF ReuseInv
<1>3. StarvedInv'
  BY StaysStarved DEF ConsumeProvide, ConsumeProvideFails, ConsumeRequest, Post, Cqe
<1>4. SqNeverFull'
  BY DEF SqNeverFull
<1>. QED BY <1>1, <1>2, <1>3, <1>4

(* A completion stays on its descriptor.                                   *)
LEMMA CompletesProvide ==
  ASSUME ProvideInv, NEW op \in inflight, NEW r, r.op = op,
         sq' = sq, inflight' = inflight \ {op}, cq' = cq \union {r}
  PROVE  ProvideInv'
BY DEF ProvideInv

(* Completions that open no descriptor and starve no read.                 *)
LEMMA PlainBounds ==
  ASSUME BoundInv, NEW op \in inflight, NEW r, r.op = op, r.res # "nobufs",
         inflight' = inflight \ {op}, cq' = cq \union {r},
         UNCHANGED <<sq, open, serverVars>>
  PROVE  BoundInv'
<1>. USE DEF BoundInv, serverVars
<1>1. ProvideInv'
  BY CompletesProvide
<1>2. ReuseInv'
  BY DEF ReuseInv, Reused
<1>3. StarvedInv'
  BY StaysStarved
<1>4. SqNeverFull'
  BY DEF SqNeverFull
<1>. QED BY <1>1, <1>2, <1>3, <1>4

(* A descriptor that is opened again is the only one: there is one accept. *)
LEMMA AcceptedBounds ==
  ASSUME CoreInv, BoundInv, NEW c \in Client, NEW f \in Fd, CompleteAccept(c, f),
         UNCHANGED serverVars
  PROVE  BoundInv'
<1>. USE DEF BoundInv, serverVars
<1>0. PICK op \in inflight :
        /\ op.type = "ACCEPT" /\ open[f] = None
        /\ Complete(op, "ok", f)
        /\ open' = [open EXCEPT ![f] = c] /\ UNCHANGED sq
  BY DEF CompleteAccept
<1>. PICK r : r = Cqe(op, "ok", f)
  OBVIOUS
<1>r. /\ r.op = op /\ r.res = "ok" /\ r.out = f
      /\ inflight' = inflight \ {op} /\ cq' = cq \union {r}
  BY <1>0 DEF Complete, Post, Cqe
<1>a. op \in Accepts /\ op \in SqeType
  BY <1>0 DEF CoreInv, TypeOK, RingTypeOK, Accepts
<1>1. ProvideInv'
  BY <1>0, <1>r, CompletesProvide
<1>2. ReuseInv'
  <2>1. \A i \in DOMAIN sq : ~Reused(i) \/ loop = "enter"
    <3>1. \A i \in DOMAIN sq : sq[i] \notin Accepts
      BY <1>a DEF CoreInv, AcceptInv, One, AtMostOne
    <3>2. \A q \in cq : q.op \notin Accepts
      BY <1>a DEF CoreInv, AcceptInv, One, AtMostOne
    <3>3. /\ \A i \in DOMAIN sq : sq[i].type # "ACCEPT"
          /\ \A q \in cq : q.op.type # "ACCEPT"
      BY <3>1, <3>2 DEF CoreInv, TypeOK, RingTypeOK, CqeType, Accepts
    <3>. QED BY <3>3 DEF ReuseInv, CoreInv, TypeOK
  <2>2. \A g \in Fd \ {f} : open'[g] = open[g]
    BY <1>0 DEF CoreInv, TypeOK, RingTypeOK
  <2>3. \A i \in DOMAIN sq : loop = "reap" /\ Reused(i)' => sq[i].fd = f
    BY <1>0, <2>1, <2>2 DEF Reused, ProvideInv
  <2>4. \A i, j \in DOMAIN sq : loop = "reap" /\ Reused(i)' /\ Reused(j)' => i = j
    <3>1. \A i, j \in DOMAIN sq :
            sq[i].type = "PROV_BUF" /\ sq[j].type = "PROV_BUF" /\ sq[i].fd = sq[j].fd
            => i = j
      BY DEF ProvideInv
    <3>. QED BY <1>0, <2>3, <3>1 DEF Reused
  <2>. QED BY <1>0, <1>r, <2>3, <2>4 DEF ReuseInv
<1>3. StarvedInv'
  BY <1>r, StaysStarved
<1>4. SqNeverFull'
  BY DEF SqNeverFull
<1>. QED BY <1>1, <1>2, <1>3, <1>4

(* The descriptor a suspended coroutine is registered under is open.       *)
LEMMA Held ==
  ASSUME CoreInv, NEW c \in Client, co[c] \in {"read", "write"}
  PROVE  /\ promise[c].fd \in Fd /\ open[promise[c].fd] = c
         /\ \/ \E e \in inflight : e \in Wakeups(c) /\ e.fd = promise[c].fd
            \/ \E q \in cq : q.op \in Wakeups(c) /\ q.op.fd = promise[c].fd
            \/ \E i \in DOMAIN sq :
                 sq[i] \in Wakeups(c) /\ Routed(sq[i]) /\ sq[i].fd = promise[c].fd
<1>1. Some(Wakeups(c))
  BY DEF CoreInv, WakeupInv, One
<1>2. ASSUME NEW e \in Wakeups(c), Routed(e), Shaped(e)
      PROVE  promise[c].fd \in Fd /\ open[promise[c].fd] = c /\ e.fd = promise[c].fd
  BY <1>2 DEF Routed, Shaped, Wakeups, Transfers
<1>3. CASE \E i \in DOMAIN sq : sq[i] \in Wakeups(c)
  BY <1>2, <1>3 DEF CoreInv, RouteInv, ShapeInv, Wakeups
<1>4. CASE \E e \in inflight : e \in Wakeups(c)
  BY <1>2, <1>4 DEF CoreInv, RouteInv, ShapeInv, Wakeups
<1>5. CASE \E q \in cq : q.op \in Wakeups(c)
  BY <1>2, <1>5 DEF CoreInv, RouteInv, ShapeInv, Wakeups
<1>. QED BY <1>1, <1>3, <1>4, <1>5 DEF Some

(* When a read starves, every buffer that is not lost is on a descriptor   *)
(* of its own, and none on the reader's.                                   *)
On(b, f) ==
  \/ \E q \in cq : Selected(q, b) /\ q.op.fd = f
  \/ \E c \in Client : promise[c].bid = b /\ promise[c].fd = f
  \/ \E i \in DOMAIN sq : Providing(i, b) /\ sq[i].fd = f

LEMMA SelectedFacts ==
  ASSUME CoreInv, NEW b \in Bid, NEW q \in cq, Selected(q, b)
  PROVE  \E c \in Client : /\ q.op.conn = c /\ q.op \in Wakeups(c) /\ co[c] = "read"
                           /\ One(Wakeups(c))
                           /\ q.op.fd \in Fd /\ open[q.op.fd] = c
<1>1. q.op \in Transfers /\ Shaped(q.op)
  BY DEF CoreInv, TypeOK, RingTypeOK, CqeType, ShapeInv, Selected, Transfers
<1>2. Routed(q.op)
  BY <1>1 DEF CoreInv, RouteInv
<1>. QED BY <1>1, <1>2 DEF Routed, Shaped, Selected, Transfers, Wakeups, CoreInv, WakeupInv

LEMMA AnsweringFacts ==
  ASSUME CoreInv, NEW b \in Bid, NEW c \in Client, promise[c].bid = b
  PROVE  co[c] = "write" /\ promise[c].fd \in Fd /\ open[promise[c].fd] = c
<1>1. co[c] = "write"
  BY RingAssumption DEF CoreInv, CoroutineInv
<1>. QED BY <1>1, Held

LEMMA OnADescriptor ==
  ASSUME CoreInv, ProvideInv, group = {}, ~BufferLost, NEW b \in Bid
  PROVE  \E f \in Fd : On(b, f)
<1>1. InSomeHand(b) /\ b \notin group /\ \A q \in cq : ~Failed(q, b)
  BY DEF CoreInv, BufferInv, BufferLost, Failed
<1>2. ASSUME NEW q \in cq, Selected(q, b) PROVE \E f \in Fd : On(b, f)
  BY <1>2, SelectedFacts DEF On
<1>3. ASSUME NEW c \in Client, promise[c].bid = b PROVE \E f \in Fd : On(b, f)
  BY <1>3, AnsweringFacts DEF On
<1>4. ASSUME NEW i \in DOMAIN sq, Providing(i, b) PROVE \E f \in Fd : On(b, f)
  BY <1>4 DEF On, Providing, ProvideInv
<1>. QED BY <1>1, <1>2, <1>3, <1>4 DEF InSomeHand

(* A provide in the queue shares its descriptor with no buffer in use.     *)
LEMMA ProvideApart ==
  ASSUME CoreInv, ProvideInv, NEW i \in DOMAIN sq, sq[i].type = "PROV_BUF"
  PROVE  /\ \A b \in Bid, q \in cq : Selected(q, b) => q.op.fd # sq[i].fd
         /\ \A b \in Bid, c \in Client : promise[c].bid = b => promise[c].fd # sq[i].fd
<1>1. ASSUME NEW b \in Bid, NEW q \in cq, Selected(q, b) PROVE q.op.fd # sq[i].fd
  BY <1>1, SelectedFacts DEF ProvideInv, Wakeups
<1>2. ASSUME NEW b \in Bid, NEW c \in Client, promise[c].bid = b,
             promise[c].fd = sq[i].fd
      PROVE  FALSE
  <2>1. co[c] = "write"
    BY <1>2, AnsweringFacts
  <2>2. PICK j \in DOMAIN sq :
          sq[j] \in Wakeups(c) /\ Routed(sq[j]) /\ sq[j].fd = sq[i].fd
    BY <1>2, <2>1, Held DEF ProvideInv, Wakeups
  <2>3. sq[j].type = "WRITE"
    BY <2>1, <2>2 DEF Routed, Wakeups, Transfers
  <2>. QED BY <2>2, <2>3 DEF ProvideInv
<1>. QED BY <1>1, <1>2

LEMMA OneBufferEach ==
  ASSUME CoreInv, ProvideInv, NEW b \in Bid, NEW d \in Bid, NEW f \in Fd,
         On(b, f), On(d, f)
  PROVE  b = d
<1>1. ASSUME NEW x \in Bid, NEW y \in Bid,
             NEW q \in cq, Selected(q, x), q.op.fd = f,
             NEW r \in cq, Selected(r, y), r.op.fd = f
      PROVE  x = y
  <2>1. q = r
    BY <1>1, SelectedFacts DEF One, AtMostOne
  <2>. QED BY <1>1, <2>1 DEF Selected
<1>2. ASSUME NEW x \in Bid, NEW y \in Bid,
             NEW q \in cq, Selected(q, x), q.op.fd = f,
             NEW c \in Client, promise[c].bid = y, promise[c].fd = f
      PROVE  FALSE
  BY <1>2, SelectedFacts, AnsweringFacts
<1>3. ASSUME NEW x \in Bid, NEW y \in Bid,
             NEW c \in Client, promise[c].bid = x, promise[c].fd = f,
             NEW e \in Client, promise[e].bid = y, promise[e].fd = f
      PROVE  x = y
  BY <1>3, AnsweringFacts
<1>4. ASSUME NEW x \in Bid, NEW i \in DOMAIN sq, Providing(i, x), sq[i].fd = f
      PROVE  /\ \A y \in Bid, q \in cq : Selected(q, y) => q.op.fd # f
             /\ \A y \in Bid, c \in Client : promise[c].bid = y => promise[c].fd # f
             /\ \A y \in Bid, j \in DOMAIN sq : Providing(j, y) /\ sq[j].fd = f => x = y
  <2>1. \A j \in DOMAIN sq : sq[j].type = "PROV_BUF" /\ sq[j].fd = f => i = j
    BY <1>4 DEF ProvideInv, Providing
  <2>. QED BY <1>4, <2>1, ProvideApart DEF Providing
<1>. QED BY <1>1, <1>2, <1>3, <1>4 DEF On

LEMMA NotOnReader ==
  ASSUME CoreInv, ProvideInv, NEW op \in inflight, op.type = "READ", NEW b \in Bid
  PROVE  ~On(b, op.fd) /\ op.fd \in Fd
<1>1. op \in Transfers /\ Routed(op) /\ Shaped(op)
  BY DEF CoreInv, TypeOK, RingTypeOK, RouteInv, ShapeInv, Transfers
<1>2. PICK c \in Client : op.conn = c
  BY <1>1 DEF Shaped
<1>3. /\ op.fd \in Fd /\ open[op.fd] = c /\ co[c] = "read"
      /\ op \in Wakeups(c) /\ One(Wakeups(c))
  BY <1>1, <1>2 DEF Shaped, Routed, Wakeups, CoreInv, WakeupInv
<1>4. ASSUME NEW q \in cq, Selected(q, b), q.op.fd = op.fd PROVE FALSE
  BY <1>3, <1>4, SelectedFacts DEF One, AtMostOne
<1>5. ASSUME NEW d \in Client, promise[d].bid = b, promise[d].fd = op.fd PROVE FALSE
  BY <1>3, <1>5, AnsweringFacts
<1>6. ASSUME NEW i \in DOMAIN sq, Providing(i, b), sq[i].fd = op.fd PROVE FALSE
  BY <1>1, <1>6 DEF ProvideInv, Providing
<1>. QED BY <1>3, <1>4, <1>5, <1>6 DEF On

(* Hence there are fewer buffers than descriptors, or one was lost.        *)
LEMMA Starves ==
  ASSUME CoreInv, ProvideInv, group = {}, NEW op \in inflight, op.type = "READ",
         Cardinality(Fd) <= Cardinality(Bid)
  PROVE  BufferLost
<1>. SUFFICES ASSUME ~BufferLost PROVE FALSE
  OBVIOUS
<1> DEFINE m == [b \in Bid |-> CHOOSE f \in Fd : On(b, f)]
           T == Fd \ {op.fd}
<1>1. \A b \in Bid : m[b] \in Fd /\ On(b, m[b])
  BY OnADescriptor
<1>. HIDE DEF m
<1>2. m \in [Bid -> T]
  <2>1. DOMAIN m = Bid /\ m = [b \in Bid |-> m[b]]
    BY DEF m
  <2>2. \A b \in Bid : m[b] \in T
    BY <1>1, NotOnReader
  <2>. QED BY <2>1, <2>2
<1>3. \A b, d \in Bid : m[b] = m[d] => b = d
  BY <1>1, OneBufferEach
<1>4. m \in Injection(Bid, T)
  BY <1>2, <1>3 DEF Injection, IsInjective
<1>5. op.fd \in Fd
  BY DEF CoreInv, ShapeInv, Shaped
<1>6. IsFiniteSet(T) /\ Cardinality(Fd) \in Nat
  BY RingAssumption, FS_RemoveElement, FS_CardinalityType
<1>7. Cardinality(Bid) <= Cardinality(T) /\ Cardinality(Bid) \in Nat
  BY <1>4, <1>6, RingAssumption, FS_Injection, FS_CardinalityType
<1>8. Cardinality(T) = Cardinality(Fd) - 1
  BY <1>5, RingAssumption, FS_RemoveElement
<1>. QED BY <1>6, <1>7, <1>8

LEMMA StarvedBounds ==
  ASSUME CoreInv, BoundInv, NEW c \in Client, StarveRecv(c), UNCHANGED serverVars
  PROVE  BoundInv'
<1>. USE DEF BoundInv, serverVars
<1>0. PICK op \in inflight :
        /\ op.type = "READ" /\ group = {}
        /\ Complete(op, "nobufs", None)
        /\ UNCHANGED <<sq, group, open, backlog>>
  BY DEF StarveRecv
<1>. PICK r : r = Cqe(op, "nobufs", None)
  OBVIOUS
<1>r. /\ r.op = op /\ r.res = "nobufs"
      /\ inflight' = inflight \ {op} /\ cq' = cq \union {r}
  BY <1>0 DEF Complete, Post, Cqe
<1>1. ProvideInv'
  BY <1>0, <1>r, CompletesProvide
<1>2. ReuseInv'
  BY <1>0, <1>r DEF ReuseInv, Reused
<1>3. StarvedInv'
  <2>1. Cardinality(Fd) <= Cardinality(Bid) => BufferLost
    BY <1>0, Starves
  <2>. QED BY <1>r, <2>1 DEF StarvedInv, NoBufferExhaustion, BufferLost
<1>4. SqNeverFull'
  BY DEF SqNeverFull
<1>. QED BY <1>1, <1>2, <1>3, <1>4

LEMMA CompletesBounds ==
  ASSUME CoreInv, BoundInv, KernelCompletes
  PROVE  BoundInv'
<1>1. CASE Kernel(FailAccept)
  BY <1>1, PlainBounds DEF Kernel, FailAccept, Complete, Post, Cqe
<1>2. ASSUME NEW c \in Client, NEW f \in Fd, Kernel(CompleteAccept(c, f)) PROVE BoundInv'
  BY <1>2, AcceptedBounds DEF Kernel
<1>3. ASSUME NEW c \in Client, Kernel(StarveRecv(c)) PROVE BoundInv'
  BY <1>3, StarvedBounds DEF Kernel
<1>4. ASSUME NEW c \in Client, NEW b \in Bid, NEW res \in RecvResults,
             Kernel(CompleteRecv(c, b, res))
      PROVE  BoundInv'
  <2>1. res # "nobufs"
    BY DEF RecvResults
  <2>. QED BY <1>4, <2>1, PlainBounds DEF Kernel, CompleteRecv, Complete, Post, Cqe
<1>5. ASSUME NEW c \in Client, NEW b \in Bid, NEW res \in SendResults,
             Kernel(CompleteSend(c, b, res))
      PROVE  BoundInv'
  <2>1. res # "nobufs"
    BY DEF SendResults
  <2>. QED BY <1>5, <2>1, PlainBounds DEF Kernel, CompleteSend, Complete, Post, Cqe
<1>. QED BY <1>1, <1>2, <1>3, <1>4, <1>5
     DEF KernelCompletes, Kernel, Accepted, Received, Sent

--------------------------------------------------------------------------------
(* The loop handles a CQE.  What is filled in, other than a provide, is on *)
(* the descriptor of a waiting provide only when it is a first read.       *)
LEMMA HandledProvide ==
  ASSUME RingTypeOK, ProvideInv, NEW q, NEW n \in Nat, Handled(q, n),
         \A k \in New(n) :
           /\ sq'[k].type # "PROV_BUF"
           /\ \A i \in DOMAIN sq :
                sq[i].type = "PROV_BUF" /\ sq'[k].fd = sq[i].fd => sq'[k].type = "READ"
  PROVE  ProvideInv'
<1>1. Len(sq) \in Nat /\ DOMAIN sq = 1 .. Len(sq)
  BY DEF RingTypeOK
<1>2. \A k \in DOMAIN sq' :
        \/ k \in DOMAIN sq /\ sq'[k] = sq[k]
        \/ k \in New(n) /\ \A i \in DOMAIN sq : k > i
  BY <1>1 DEF Handled, New
<1>. QED BY <1>2 DEF ProvideInv, Handled

(* When the loop has room for what is left to be filled in.                *)
LEMMA NoSqeBounds ==
  ASSUME BoundInv, Exit("nosqe"), ~(Cardinality(Fd) + 2 <= ENTRIES)
  PROVE  BoundInv'
BY StillBounds DEF Exit, ringVars

LEMMA ProvBufBounds ==
  ASSUME CoreInv, BoundInv, HandleProvBuf
  PROVE  BoundInv'
<1>. USE DEF BoundInv, serverVars
<1>0. PICK q \in cq :
        /\ Reaping(q, "PROV_BUF")
        /\ IF q.res = "err"
           THEN Exit("eprovide")
           ELSE /\ Seen(q)
                /\ UNCHANGED <<sq, inflight, group, open, backlog, serverVars>>
  BY DEF HandleProvBuf
<1>1. CASE q.res = "err"
  BY <1>0, <1>1, StillBounds DEF Exit, ringVars
<1>2. CASE q.res # "err"
  <2>. USE <1>0, <1>2 DEF Reaping, Seen
  <2>1. RingTypeOK /\ Handled(q, 0) /\ New(0) = {}
    BY DEF CoreInv, TypeOK, RingTypeOK, Handled, New
  <2>2. ProvideInv'
    BY <2>1, HandledProvide
  <2>3. ReuseInv'
    BY DEF ReuseInv, Reused
  <2>4. StarvedInv'
    BY StaysStarved
  <2>5. SqNeverFull'
    BY DEF SqNeverFull
  <2>. QED BY <2>2, <2>3, <2>4, <2>5
<1>. QED BY <1>1, <1>2

(* While the accept is being handled, none is in the queue.                *)
LEMMA AcceptSeen ==
  ASSUME CoreInv, NEW q \in cq, q.op.type = "ACCEPT"
  PROVE  /\ \A i \in DOMAIN sq : sq[i].type # "ACCEPT"
         /\ \A r \in cq : r.op.type = "ACCEPT" => r = q
<1>1. q.op \in Accepts
  BY DEF CoreInv, TypeOK, RingTypeOK, CqeType, Accepts
<1>2. /\ \A i \in DOMAIN sq : sq[i] \notin Accepts
      /\ \A r \in cq : r.op \in Accepts => r = q
  BY <1>1 DEF CoreInv, AcceptInv, One, AtMostOne
<1>. QED BY <1>2 DEF CoreInv, TypeOK, RingTypeOK, CqeType, Accepts

LEMMA FailedAcceptBounds ==
  ASSUME CoreInv, BoundInv, HandleFailedAccept
  PROVE  BoundInv'
<1>. USE DEF BoundInv, serverVars
<1>0. PICK q \in cq :
        /\ Reaping(q, "ACCEPT") /\ q.res = "err"
        /\ IF ~Room(1) THEN Exit("nosqe")
           ELSE /\ Seen(q)
                /\ sq' = Append(sq, add_accept_request)
                /\ UNCHANGED <<inflight, group, open, backlog, serverVars>>
  BY DEF HandleFailedAccept, Rearm
<1>r. Len(sq) \in Nat /\ Cardinality(Fd) \in Nat /\ Len(sq) <= Cardinality(Fd)
  BY <1>0, AcceptSeen, BeforeAccept DEF Reaping
<1>1. CASE ~Room(1)
  <2>1. ~(Cardinality(Fd) + 2 <= ENTRIES)
    BY <1>1, <1>r, ServerAssumption DEF Room
  <2>. QED BY <1>0, <1>1, <2>1, NoSqeBounds
<1>2. CASE Room(1)
  <2>. USE <1>0, <1>2 DEF Reaping, Seen
  <2>. PICK s : s = add_accept_request
    OBVIOUS
  <2>s. s \in SqeType /\ s.type = "ACCEPT" /\ s.fd = None
    BY DEF add_accept_request, Sqe, SqeType
  <2>a. /\ RingTypeOK /\ DOMAIN sq = 1 .. Len(sq)
        /\ DOMAIN sq' = 1 .. (Len(sq) + 1)
        /\ \A i \in DOMAIN sq : sq'[i] = sq[i]
        /\ sq'[Len(sq) + 1] = s /\ New(1) = {Len(sq) + 1}
    BY <2>s, AppendFacts DEF CoreInv, TypeOK
  <2>n. \A i \in DOMAIN sq' : i \in DOMAIN sq \/ sq'[i] = s
    BY <1>r, <2>a
  <2>1. ProvideInv'
    <3>1. Handled(q, 1)
      BY <2>a DEF Handled
    <3>2. \A i \in DOMAIN sq : sq[i].type = "PROV_BUF" => sq[i].fd # None
      BY RingAssumption DEF ProvideInv
    <3>. QED BY <2>a, <2>s, <3>1, <3>2, HandledProvide
  <2>2. ReuseInv'
    <3>1. \A i \in DOMAIN sq' : Reused(i)' => i \in DOMAIN sq /\ Reused(i)
      BY <2>a, <2>n, <2>s DEF Reused
    <3>2. Len(sq) + 1 \in DOMAIN sq' /\ sq'[Len(sq) + 1].type = "ACCEPT"
      BY <1>r, <2>a, <2>s
    <3>. QED BY <3>1, <3>2 DEF ReuseInv
  <2>3. StarvedInv'
    BY StaysStarved
  <2>4. SqNeverFull'
    BY DEF SqNeverFull
  <2>. QED BY <2>1, <2>2, <2>3, <2>4
<1>. QED BY <1>1, <1>2

LEMMA AcceptBounds ==
  ASSUME CoreInv, BoundInv, HandleAccept
  PROVE  BoundInv'
<1>. USE DEF BoundInv, serverVars
<1>0. PICK q \in cq, c \in Client :
        /\ Reaping(q, "ACCEPT") /\ q.res = "ok" /\ open[q.out] = c
        /\ IF connections[q.out] # None THEN Exit("derailed")
           ELSE IF ~Room(2) THEN Exit("nosqe")
           ELSE /\ Seen(q)
                /\ sq' = Append(Append(sq, add_read_request(c, q.out)),
                                add_accept_request)
                /\ UNCHANGED <<inflight, group, open, backlog, proc, loop>>
  BY DEF HandleAccept, Rearm, StartRead
<1>f. q.out \in Fd /\ connections[q.out] = None
  BY <1>0 DEF CoreInv, DescriptorInv, Reaping
<1>r. Len(sq) \in Nat /\ Cardinality(Fd) \in Nat /\ Len(sq) <= Cardinality(Fd)
  BY <1>0, AcceptSeen, BeforeAccept DEF Reaping
<1>1. CASE ~Room(2)
  <2>1. ~(Cardinality(Fd) + 2 <= ENTRIES)
    BY <1>1, <1>r, ServerAssumption DEF Room
  <2>. QED BY <1>0, <1>1, <1>f, <2>1, NoSqeBounds
<1>2. CASE Room(2)
  <2>. PICK s, u : s = add_read_request(c, q.out) /\ u = add_accept_request
    OBVIOUS
  <2>0. /\ q.op.type = "ACCEPT" /\ q.res = "ok"
        /\ cq' = cq \ {q} /\ sq' = Append(Append(sq, s), u)
        /\ UNCHANGED <<inflight, group, open, backlog, proc, loop>>
    BY <1>0, <1>2, <1>f DEF Seen, Reaping
  <2>s. /\ s \in SqeType /\ u \in SqeType /\ u.type = "ACCEPT" /\ u.fd = None
        /\ s.type = "READ"
    BY <1>f DEF add_accept_request, add_read_request, Sqe, SqeType
  <2>a. /\ RingTypeOK /\ DOMAIN sq = 1 .. Len(sq)
        /\ DOMAIN sq' = 1 .. (Len(sq) + 2)
        /\ \A i \in DOMAIN sq : sq'[i] = sq[i]
        /\ sq'[Len(sq) + 1] = s /\ sq'[Len(sq) + 2] = u
        /\ New(2) = {Len(sq) + 1, Len(sq) + 2}
    BY <2>0, <2>s, TwoAppendFacts DEF CoreInv, TypeOK
  <2>n. \A i \in DOMAIN sq' : i \in DOMAIN sq \/ sq'[i] = s \/ sq'[i] = u
    BY <1>r, <2>a
  <2>1. ProvideInv'
    <3>1. Handled(q, 2)
      BY <2>0, <2>a DEF Handled
    <3>2. \A i \in DOMAIN sq : sq[i].type = "PROV_BUF" => sq[i].fd # None
      BY RingAssumption DEF ProvideInv
    <3>. QED BY <2>a, <2>s, <3>1, <3>2, HandledProvide
  <2>2. ReuseInv'
    <3>1. \A i \in DOMAIN sq' : Reused(i)' => i \in DOMAIN sq /\ Reused(i)
      BY <2>0, <2>a, <2>n, <2>s DEF Reused
    <3>2. Len(sq) + 2 \in DOMAIN sq' /\ sq'[Len(sq) + 2].type = "ACCEPT"
      BY <1>r, <2>a, <2>s
    <3>. QED BY <2>0, <3>1, <3>2 DEF ReuseInv
  <2>3. StarvedInv'
    BY <2>0, StaysStarved
  <2>4. SqNeverFull'
    BY <2>0 DEF SqNeverFull
  <2>. QED BY <2>1, <2>2, <2>3, <2>4
<1>. QED BY <1>1, <1>2

(* A transfer that is being handled is the only one of its connection, and *)
(* no buffer waits to be provided on its descriptor.                       *)
LEMMA TransferSeen ==
  ASSUME CoreInv, ProvideInv, ReuseInv, loop = "reap",
         NEW c \in Client, NEW q \in cq, q.op.type \in {"READ", "WRITE"}, q.op.conn = c
  PROVE  /\ q.op \in Wakeups(c) /\ Routed(q.op)
         /\ q.op.fd \in Fd /\ open[q.op.fd] = c /\ promise[c].fd = q.op.fd
         /\ \A e : (\/ \E i \in DOMAIN sq : e = sq[i]
                    \/ e \in inflight
                    \/ \E r \in cq \ {q} : e = r.op) /\ e \in Transfers
                   => e.fd # q.op.fd
         /\ \A i \in DOMAIN sq : sq[i].type = "PROV_BUF" => sq[i].fd # q.op.fd
         /\ Len(sq) \in Nat /\ Cardinality(Fd) \in Nat /\ Len(sq) <= Cardinality(Fd) + 1
<1>1. q.op \in Wakeups(c) /\ q.op \in Transfers /\ Routed(q.op) /\ Shaped(q.op)
  BY DEF CoreInv, TypeOK, RingTypeOK, CqeType, Wakeups, Transfers, RouteInv, ShapeInv
<1>2. /\ q.op.fd \in Fd /\ open[q.op.fd] = c /\ promise[c].fd = q.op.fd
      /\ open[q.op.fd] # None /\ One(Wakeups(c))
  BY <1>1, RingAssumption DEF Routed, Shaped, Transfers, CoreInv, WakeupInv
<1>3. ASSUME NEW e \in Transfers, Routed(e), Shaped(e), e.fd = q.op.fd
      PROVE  e \in Wakeups(c)
  BY <1>2, <1>3 DEF Routed, Shaped, Wakeups, Transfers
<1>4. ASSUME NEW i \in DOMAIN sq, sq[i] \in Transfers, sq[i].fd = q.op.fd PROVE FALSE
  BY <1>1, <1>2, <1>3, <1>4 DEF CoreInv, RouteInv, ShapeInv, One, AtMostOne
<1>5. ASSUME NEW e \in inflight, e \in Transfers, e.fd = q.op.fd PROVE FALSE
  BY <1>1, <1>2, <1>3, <1>5 DEF CoreInv, RouteInv, ShapeInv, One, AtMostOne
<1>6. ASSUME NEW r \in cq \ {q}, r.op \in Transfers, r.op.fd = q.op.fd PROVE FALSE
  BY <1>1, <1>2, <1>3, <1>6 DEF CoreInv, RouteInv, ShapeInv, One, AtMostOne
<1>7. \A i \in DOMAIN sq : sq[i].type = "PROV_BUF" => sq[i].fd # q.op.fd
  BY <1>1 DEF ProvideInv
<1>8. Len(sq) \in Nat /\ Cardinality(Fd) \in Nat /\ Len(sq) <= Cardinality(Fd) + 1
  BY <1>2, <1>4, DuringTransfer
<1>. QED BY <1>1, <1>2, <1>4, <1>5, <1>6, <1>7, <1>8

LEMMA ReadBounds ==
  ASSUME CoreInv, BoundInv, NEW c \in Client, HandleRead(c)
  PROVE  BoundInv'
<1>. USE DEF BoundInv, serverVars
<1>0. PICK q \in cq :
        /\ Reaping(q, "READ") /\ q.op.conn = c
        /\ IF ~Suspended(q.op, "read") THEN Exit("derailed")
           ELSE IF ~Room(1) THEN Exit("nosqe")
           ELSE /\ Seen(q)
                /\ sq' = Append(sq, add_write_request(c, q.out))
                /\ UNCHANGED <<inflight, group, open, backlog, proc, loop>>
  BY DEF HandleRead, StartWrite
<1>q. /\ q.op.type = "READ" /\ q.op.fd \in Fd /\ promise[c].fd = q.op.fd
      /\ \A i \in DOMAIN sq : sq[i].type = "PROV_BUF" => sq[i].fd # q.op.fd
      /\ Len(sq) \in Nat /\ Cardinality(Fd) \in Nat /\ Len(sq) <= Cardinality(Fd) + 1
  BY <1>0, TransferSeen DEF Reaping
<1>1. CASE ~Suspended(q.op, "read")
  BY <1>0, <1>1, StillBounds DEF Exit, ringVars
<1>2. CASE ~Room(1) /\ Suspended(q.op, "read")
  <2>1. ~(Cardinality(Fd) + 2 <= ENTRIES)
    BY <1>2, <1>q, ServerAssumption DEF Room
  <2>. QED BY <1>0, <1>2, <2>1, NoSqeBounds
<1>3. CASE Room(1) /\ Suspended(q.op, "read")
  <2>. PICK s : s = add_write_request(c, q.out)
    OBVIOUS
  <2>0. /\ cq' = cq \ {q} /\ sq' = Append(sq, s) /\ q.out \in Bid
        /\ UNCHANGED <<inflight, group, open, backlog, proc, loop>>
    BY <1>0, <1>3 DEF Seen, Reaping, CoreInv, ShapeInv
  <2>s. s \in SqeType /\ s.type = "WRITE" /\ s.fd = q.op.fd
    BY <1>q, <2>0 DEF add_write_request, Sqe, SqeType
  <2>a. /\ RingTypeOK /\ DOMAIN sq = 1 .. Len(sq)
        /\ DOMAIN sq' = 1 .. (Len(sq) + 1)
        /\ \A i \in DOMAIN sq : sq'[i] = sq[i]
        /\ sq'[Len(sq) + 1] = s /\ New(1) = {Len(sq) + 1}
    BY <2>0, <2>s, AppendFacts DEF CoreInv, TypeOK
  <2>n. \A i \in DOMAIN sq' : i \in DOMAIN sq \/ sq'[i] = s
    BY <1>q, <2>a
  <2>1. ProvideInv'
    <3>1. Handled(q, 1)
      BY <2>0, <2>a DEF Handled
    <3>. QED BY <1>q, <2>a, <2>s, <3>1, HandledProvide
  <2>2. ReuseInv'
    <3>1. \A i \in DOMAIN sq' : Reused(i)' => i \in DOMAIN sq /\ Reused(i)
      BY <2>0, <2>a, <2>n, <2>s DEF Reused
    <3>2. \A i \in DOMAIN sq : i \in DOMAIN sq'
      BY <1>q, <2>a
    <3>. QED BY <1>q, <2>0, <2>a, <3>1, <3>2 DEF ReuseInv
  <2>3. StarvedInv'
    BY <1>q, <2>0, StaysStarved
  <2>4. SqNeverFull'
    BY <2>0 DEF SqNeverFull
  <2>. QED BY <2>1, <2>2, <2>3, <2>4
<1>. QED BY <1>1, <1>2, <1>3

(* The descriptor is closed as its provide is filled in.                   *)
LEMMA WriteBounds ==
  ASSUME CoreInv, BoundInv, NEW c \in Client, HandleWrite(c)
  PROVE  BoundInv'
<1>. USE DEF BoundInv, serverVars
<1>0. PICK q \in cq :
        /\ Reaping(q, "WRITE") /\ q.op.conn = c
        /\ IF ~Suspended(q.op, "write") THEN Exit("derailed")
           ELSE IF ~Room(1) THEN Exit("nosqe")
           ELSE /\ Seen(q)
                /\ sq' = Append(sq, add_buffer_request(c))
                /\ open' = [open EXCEPT ![promise[c].fd] = None]
                /\ UNCHANGED <<inflight, group, backlog, proc, loop>>
  BY DEF HandleWrite, EndWrite, add_close_request
<1>q. /\ q.op.type = "WRITE" /\ q.op.fd \in Fd /\ promise[c].fd = q.op.fd
      /\ open[q.op.fd] = c /\ co[c] = "write" /\ loop = "reap"
      /\ \A e : (\/ \E i \in DOMAIN sq : e = sq[i]
                 \/ e \in inflight
                 \/ \E r \in cq \ {q} : e = r.op) /\ e \in Transfers
                => e.fd # q.op.fd
      /\ \A i \in DOMAIN sq : sq[i].type = "PROV_BUF" => sq[i].fd # q.op.fd
      /\ Len(sq) \in Nat /\ Cardinality(Fd) \in Nat /\ Len(sq) <= Cardinality(Fd) + 1
  BY <1>0, TransferSeen DEF Reaping, Routed
<1>1. CASE ~Suspended(q.op, "write")
  BY <1>0, <1>1, StillBounds DEF Exit, ringVars
<1>2. CASE ~Room(1) /\ Suspended(q.op, "write")
  <2>1. ~(Cardinality(Fd) + 2 <= ENTRIES)
    BY <1>2, <1>q, ServerAssumption DEF Room
  <2>. QED BY <1>0, <1>2, <2>1, NoSqeBounds
<1>3. CASE Room(1) /\ Suspended(q.op, "write")
  <2>. PICK f, s : f = q.op.fd /\ s = add_buffer_request(c)
    OBVIOUS
  <2>0. /\ cq' = cq \ {q} /\ sq' = Append(sq, s) /\ open' = [open EXCEPT ![f] = None]
        /\ UNCHANGED <<inflight, group, backlog, proc, loop>>
    BY <1>0, <1>3, <1>q DEF Seen
  <2>s. s \in SqeType /\ s.type = "PROV_BUF" /\ s.fd = f /\ f \in Fd
    BY <1>q DEF add_buffer_request, Sqe, SqeType, CoreInv, TypeOK
  <2>a. /\ RingTypeOK /\ DOMAIN sq = 1 .. Len(sq)
        /\ DOMAIN sq' = 1 .. (Len(sq) + 1)
        /\ \A i \in DOMAIN sq : sq'[i] = sq[i] /\ i # Len(sq) + 1 /\ i \in DOMAIN sq'
        /\ sq'[Len(sq) + 1] = s
    BY <1>q, <2>0, <2>s, AppendFacts DEF CoreInv, TypeOK
  <2>n. \A i \in DOMAIN sq' : (i \in DOMAIN sq /\ sq'[i] = sq[i]) \/ i = Len(sq) + 1
    BY <1>q, <2>a
  <2>f. \A g \in Fd : open'[g] = IF g = f THEN None ELSE open[g]
    BY <2>0, <2>s DEF CoreInv, TypeOK, RingTypeOK
  <2>1. ProvideInv'
    <3>1. ASSUME NEW i \in DOMAIN sq
          PROVE  sq[i].type # "ACCEPT" => sq[i].fd # f
      <4>1. sq[i] \in SqeType
        BY <2>a DEF RingTypeOK
      <4>2. sq[i] \in Transfers \/ sq[i].type = "PROV_BUF" \/ sq[i].type = "ACCEPT"
        BY <4>1 DEF Transfers, SqeType
      <4>. QED BY <1>q, <2>s, <4>2
    <3>. QED BY <1>q, <2>0, <2>a, <2>n, <2>s, <3>1 DEF ProvideInv
  <2>2. ReuseInv'
    <3>1. \A i \in DOMAIN sq' : Reused(i)' => i \in DOMAIN sq /\ Reused(i)
      BY <2>a, <2>n, <2>s, <2>f DEF Reused, ProvideInv
    <3>. QED BY <1>q, <2>0, <2>a, <3>1 DEF ReuseInv
  <2>3. StarvedInv'
    BY <1>q, <2>0, StaysStarved
  <2>4. SqNeverFull'
    BY <2>0 DEF SqNeverFull
  <2>. QED BY <2>1, <2>2, <2>3, <2>4
<1>. QED BY <1>1, <1>2, <1>3

--------------------------------------------------------------------------------
LEMMA NextBoundInv == CoreInv /\ BoundInv /\ [Next]_vars => BoundInv'
<1>. SUFFICES ASSUME CoreInv, BoundInv, [Next]_vars PROVE BoundInv'
  OBVIOUS
<1>1. CASE Enter \/ Return
  BY <1>1, StillBounds DEF Enter, Return
<1>2. CASE KernelConsumes
  BY <1>2, ConsumesBounds
<1>3. CASE KernelCompletes
  BY <1>3, CompletesBounds
<1>4. CASE OutOfBuffers
  BY <1>4, StillBounds DEF OutOfBuffers, Exit, ringVars
<1>5. CASE HandleProvBuf
  BY <1>5, ProvBufBounds
<1>6. CASE HandleAccept
  BY <1>6, AcceptBounds
<1>7. CASE HandleFailedAccept
  BY <1>7, FailedAcceptBounds
<1>8. ASSUME NEW c \in Client, HandleRead(c) PROVE BoundInv'
  BY <1>8, ReadBounds
<1>9. ASSUME NEW c \in Client, RequestKills(c) PROVE BoundInv'
  BY <1>9, StillBounds DEF RequestKills, Exit, ringVars
<1>10. ASSUME NEW c \in Client, HandleWrite(c) PROVE BoundInv'
  BY <1>10, WriteBounds
<1>11. CASE UNCHANGED vars
  BY <1>11, StillBounds DEF vars, serverVars
<1>. QED
  BY <1>1, <1>2, <1>3, <1>4, <1>5, <1>6, <1>7, <1>8, <1>9, <1>10, <1>11
     DEF Next, HandlesCqe

(* The whole inductive invariant holds in every reachable state, for any   *)
(* number of clients, descriptors, buffers and SQEs and any set of faults. *)
THEOREM Invariance == Spec => []IInv
<1>1. Init => IInv
  BY InitCoreInv, InitBoundInv DEF IInv
<1>2. IInv /\ [Next]_vars => IInv'
  BY NextCoreInv, NextBoundInv DEF IInv
<1>. QED BY <1>1, <1>2, PTL DEF Spec

(* However many completions one pass of the loop handles, the SQEs it      *)
(* fills in have room when the ring has two more than there are            *)
(* descriptors: the unchecked io_uring_get_sqe never returns NULL.         *)
THEOREM SqNeverFullHolds == Spec => []SqNeverFull
<1>1. IInv => SqNeverFull
  BY DEF IInv, BoundInv
<1>. QED BY <1>1, Invariance, PTL

(* "This should not happen" does not happen, with as many buffers as       *)
(* descriptors, unless a buffer was lost to a failed provide.              *)
THEOREM NoBufferExhaustionHolds == Spec => []NoBufferExhaustion
<1>1. IInv => NoBufferExhaustion
  BY DEF IInv, BoundInv, StarvedInv
<1>. QED BY <1>1, Invariance, PTL

================================================================================
