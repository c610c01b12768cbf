---------------------------- MODULE ZeroHttpdProofs -----------------------------
(***************************************************************************)
(* Proofs about ZeroHttpd, for any number of connections, descriptors,     *)
(* blocks and iovecs, and any of the faults.                               *)
(*                                                                         *)
(* A completion that is handled frees what it owned and submits operations *)
(* on fresh blocks (Handled); an operation that completes keeps its blocks *)
(* (Moved, Transferred).  Each action is an instance of one of the two,    *)
(* but for the accept's completion and the empty read.                     *)
(***************************************************************************)
EXTENDS ZeroHttpdInv, FiniteSetTheorems, TLAPS

(* An iovec is a short sequence of blocks.                                 *)
Iov == BoundedSeq(Block, IOVS)

LEMMA Iovecs ==
  ASSUME NEW s
  PROVE  s \in Iov <=> s \in Seq(Block) /\ Len(s) <= IOVS
<1>1. IOVS \in Nat
  BY ZeroAssumption
<1>2. ASSUME s \in Iov PROVE s \in Seq(Block) /\ Len(s) <= IOVS
  <2>1. PICK m \in 0 .. IOVS : s \in [1 .. m -> Block]
    BY <1>2 DEF Iov, BoundedSeq, SeqOf
  <2>. QED BY <2>1, <1>1
<1>3. ASSUME s \in Seq(Block), Len(s) <= IOVS PROVE s \in Iov
  <2>1. Len(s) \in 0 .. IOVS /\ s \in [1 .. Len(s) -> Block]
    BY <1>1, <1>3
  <2>. QED BY <2>1 DEF Iov, BoundedSeq, SeqOf
<1>. QED BY <1>2, <1>3

(* The blocks that are handed out are distinct, and were unused: the ranks *)
(* of the unused blocks are the numbers below their number, each once.     *)
LEMMA FreshBlocks ==
  ASSUME live \subseteq Block, NEW n \in Nat, CanAllocate(n)
  PROVE  /\ Fresh(n) \in [1 .. n -> Block]
         /\ \A i \in 1 .. n : Fresh(n)[i] \notin live
         /\ \A i, j \in 1 .. n : Fresh(n)[i] = Fresh(n)[j] => i = j
<1> DEFINE Below(b) == {a \in Unused : a < b}
           N == Cardinality(Unused)
           rank == [b \in Unused |-> Cardinality(Below(b))]
<1>1. IsFiniteSet(Unused) /\ Unused \subseteq Block /\ Block \subseteq Nat /\ N \in Nat
  <2>1. BLOCKS \in Nat /\ 1 \in Int /\ BLOCKS \in Int
    BY ZeroAssumption
  <2>2. IsFiniteSet(Block) /\ Block \subseteq Nat
    BY <2>1, FS_Interval DEF Block
  <2>3. Unused \in SUBSET Block
    BY DEF Unused
  <2>4. IsFiniteSet(Unused)
    BY <2>2, <2>3, FS_Subset
  <2>. QED BY <2>2, <2>3, <2>4, FS_CardinalityType
<1>2. ASSUME NEW a \in Unused, NEW b \in Unused, a < b
      PROVE  rank[a] < rank[b]
  <2>0. \A c \in Unused : c < a => c < b
    <3>1. a \in Nat /\ b \in Nat /\ \A c \in Unused : c \in Nat
      BY <1>1
    <3>. QED BY <1>2, <3>1
  <2>1. Below(b) \in SUBSET Unused /\ Below(a) \in SUBSET Below(b)
    BY <2>0
  <2>2. a \in Below(b) /\ a \notin Below(a)
    BY <1>1, <1>2
  <2>3. IsFiniteSet(Below(b))
    BY <1>1, <2>1, FS_Subset
  <2>4. IsFiniteSet(Below(a)) /\ Cardinality(Below(a)) <= Cardinality(Below(b))
        /\ Cardinality(Below(b)) # Cardinality(Below(a))
    <3>. HIDE DEF Below
    <3>. QED BY <2>1, <2>2, <2>3, FS_Subset
  <2>5. Cardinality(Below(a)) \in Nat /\ Cardinality(Below(b)) \in Nat
    BY <2>3, <2>4, FS_CardinalityType
  <2>. QED BY <2>4, <2>5
<1>3. ASSUME NEW b \in Unused
      PROVE  rank[b] \in 0 .. N - 1
  <2>1. Below(b) \in SUBSET Unused /\ b \notin Below(b)
    BY <1>1
  <2>2. IsFiniteSet(Below(b)) /\ Cardinality(Below(b)) <= N /\ Cardinality(Below(b)) # N
    <3>. HIDE DEF Below
    <3>. QED BY <1>1, <2>1, FS_Subset
  <2>3. Cardinality(Below(b)) \in Nat
    BY <2>2, FS_CardinalityType
  <2>. HIDE DEF N
  <2>. QED BY <1>1, <2>2, <2>3
<1>4. rank \in Surjection(Unused, 0 .. N - 1)
  <2>1. rank \in [Unused -> 0 .. N - 1]
    <3>. HIDE DEF N, Below
    <3>. QED BY <1>3
  <2>2. ASSUME NEW a \in Unused, NEW b \in Unused, rank[a] = rank[b]
        PROVE  a = b
    <3>1. a < b \/ b < a \/ a = b
      BY <1>1
    <3>2. rank[a] \in Int /\ rank[b] \in Int
      <4>. HIDE DEF N, rank
      <4>. QED BY <1>1, <1>3
    <3>3. ~(rank[a] < rank[b]) /\ ~(rank[b] < rank[a])
      <4>. HIDE DEF rank
      <4>. QED BY <2>2, <3>2
    <3>. QED BY <1>2, <3>1, <3>3
  <2>3. rank \in Injection(Unused, 0 .. N - 1)
    <3>. HIDE DEF rank, N
    <3>. QED BY <2>1, <2>2 DEF Injection, IsInjective
  <2>4. IsFiniteSet(0 .. N - 1) /\ Cardinality(0 .. N - 1) = N
    <3>1. 0 \in Int /\ N - 1 \in Int
      BY <1>1
    <3>2. /\ IsFiniteSet(0 .. N - 1)
          /\ Cardinality(0 .. N - 1) = IF 0 > N - 1 THEN 0 ELSE (N - 1) - 0 + 1
      <4>. HIDE DEF N
      <4>. QED BY <3>1, FS_Interval
    <3>. HIDE DEF N
    <3>. QED BY <1>1, <3>2
  <2>. HIDE DEF rank
  <2>. QED BY <1>1, <2>3, <2>4, FS_Injection
<1>5. ASSUME NEW i \in 1 .. n
      PROVE  Fresh(n)[i] \in Unused /\ Cardinality(Below(Fresh(n)[i])) = i - 1
  <2>1. i - 1 \in 0 .. N - 1
    <3>1. N >= n
      BY DEF CanAllocate
    <3>. HIDE DEF N
    <3>. QED BY <1>1, <3>1
  <2>2. \E b \in Unused : rank[b] = i - 1
    <3>. HIDE DEF rank, N
    <3>. QED BY <1>4, <2>1 DEF Surjection
  <2>3. \E b \in Unused : Cardinality(Below(b)) = i - 1
    BY <2>2
  <2>4. Fresh(n)[i] = CHOOSE b \in Unused : Cardinality(Below(b)) = i - 1
    BY DEF Fresh
  <2>. HIDE DEF Below
  <2>. QED BY <2>3, <2>4
<1>6. ASSUME NEW i \in 1 .. n, NEW j \in 1 .. n, Fresh(n)[i] = Fresh(n)[j]
      PROVE  i = j
  <2>1. i - 1 = j - 1
    <3>. HIDE DEF Below
    <3>. QED BY <1>5, <1>6
  <2>. QED BY <2>1
<1>7. Fresh(n) = [i \in 1 .. n |-> Fresh(n)[i]]
  BY DEF Fresh
<1>. QED BY <1>1, <1>5, <1>6, <1>7 DEF Unused

(* Blocks are freed by setting them to what free leaves in them.           *)
LEMMA Freed ==
  ASSUME NEW bs, NEW r, NEW t, Free(bs, r, t)
  PROVE  \A b \in Block \ bs : req'[b] = r[b] /\ text'[b] = t[b]
BY DEF Free

(* What the blocks hold.                                                   *)
ReqType == [type : {"none", "ACCEPT", "READ", "WRITE"},
            sock : Fd \union {None}, iov : Iov]
TextType == [of : Client \union {None}, kind : Requests \union Replies \union {"none"}]

LEMMA FreedTypes ==
  ASSUME NEW bs, NEW r, NEW t, Free(bs, r, t),
         r \in [Block -> ReqType], t \in [Block -> TextType]
  PROVE  req' \in [Block -> ReqType] /\ text' \in [Block -> TextType]
<1>1. <<>> \in Iov
  <2>1. <<>> \in Seq(Block) /\ Len(<<>>) = 0 /\ IOVS \in Nat /\ 0 <= IOVS
    BY ZeroAssumption
  <2>. QED BY <2>1, Iovecs
<1>2. ASSUME NEW b \in Block
      PROVE  FreedReq(r[b]) \in ReqType
  BY <1>1 DEF FreedReq, ReqType
<1>3. NoText \in TextType
  BY DEF NoText, TextType
<1>. QED BY <1>2, <1>3 DEF Free

(* Operations and completions are different things.                        *)
LEMMA Apart ==
  ASSUME TypeOK, NEW op \in inflight, NEW q \in cq
  PROVE  op # q
<1>1. "opcode" \in DOMAIN op /\ "opcode" \notin DOMAIN q
  BY DEF TypeOK
<1>. QED BY <1>1

(* No two outstanding operations use the same block.                       *)
LEMMA OneEach ==
  ASSUME NothingDangles, NEW op \in Outstanding, NEW other \in Outstanding,
         NEW b, b \in Owned(op.data), b \in Owned(other.data)
  PROVE  op = other
BY DEF NothingDangles

LEMMA Own ==
  ASSUME NEW op
  PROVE  op.data \in Owned(op.data)
BY DEF Owned

(* Handling the completion q: what it owned is freed, and the operations   *)
(* of N are submitted, on blocks of S, which were unused.                  *)
NewOwned(n) == {n.data} \union ToSet(req'[n.data].iov)
Handling(q, N, S) ==
  /\ cq' = cq \ {q} /\ inflight' = inflight \union N /\ lost' = lost
  /\ S \intersect live = {} /\ live' = (live \union S) \ Owned(q.data)
  /\ \A b \in live \ Owned(q.data) : req'[b] = req[b]
  /\ \A n \in N : NewOwned(n) \subseteq S
  /\ \A n, m \in N : n # m => NewOwned(n) \intersect NewOwned(m) = {}
  /\ \A x \in S : \E n \in N : x \in NewOwned(n)

LEMMA HandledBlocks ==
  ASSUME TypeOK, NothingDangles, LeakInv, NEW q \in cq, NEW N, NEW S,
         Handling(q, N, S)
  PROVE  /\ Outstanding' = (Outstanding \ {q}) \union N
         /\ \A op \in Outstanding \ {q} : /\ Owned(op.data) \subseteq live \ Owned(q.data)
                                          /\ req'[op.data] = req[op.data]
         /\ NothingDangles' /\ LeakInv'
<1>. USE DEF Handling, NewOwned
<1>1. Outstanding' = (Outstanding \ {q}) \union N
  BY Apart DEF Outstanding
<1>2. ASSUME NEW op \in Outstanding \ {q}
      PROVE  /\ Owned(op.data) \subseteq live \ Owned(q.data)
             /\ req'[op.data] = req[op.data]
             /\ {op.data} \union ToSet(req'[op.data].iov) = Owned(op.data)
  <2>1. q \in Outstanding
    BY DEF Outstanding
  <2>2. Owned(op.data) \subseteq live \ Owned(q.data)
    BY <2>1 DEF NothingDangles
  <2>3. op.data \in live \ Owned(q.data)
    BY <2>2, Own
  <2>. QED BY <2>2, <2>3 DEF Owned
<1> DEFINE New(b) == {b} \union ToSet(req'[b].iov)
<1>3. \A b : Owned(b)' = New(b)
  BY DEF Owned
<1>4. \A op \in Outstanding \ {q} : New(op.data) = Owned(op.data)
  BY <1>2
<1>5. \A n \in N : New(n.data) \subseteq S
  OBVIOUS
<1>6. \A n, m \in N : n # m => New(n.data) \intersect New(m.data) = {}
  OBVIOUS
<1>7. \A x \in S : \E n \in N : x \in New(n.data)
  OBVIOUS
<1>h. HIDE DEF New
<1>8. NothingDangles'
  <2>1. ASSUME NEW op \in Outstanding' PROVE New(op.data) \subseteq live'
    <3>1. CASE op \in Outstanding \ {q}
      BY <3>1, <1>2, <1>4
    <3>2. CASE op \in N
      <4>1. Owned(q.data) \subseteq live
        BY DEF NothingDangles, Outstanding
      <4>. QED BY <3>2, <1>5, <4>1
    <3>. QED BY <1>1, <3>1, <3>2
  <2>2. ASSUME NEW op \in Outstanding', NEW other \in Outstanding', op # other
        PROVE  New(op.data) \intersect New(other.data) = {}
    <3>1. CASE op \in Outstanding \ {q} /\ other \in Outstanding \ {q}
      BY <3>1, <2>2, <1>4 DEF NothingDangles
    <3>2. CASE op \in N /\ other \in N
      BY <3>2, <2>2, <1>6
    <3>3. CASE op \in Outstanding \ {q} /\ other \in N
      BY <3>3, <1>2, <1>4, <1>5
    <3>4. CASE op \in N /\ other \in Outstanding \ {q}
      BY <3>4, <1>2, <1>4, <1>5
    <3>. QED BY <1>1, <3>1, <3>2, <3>3, <3>4
  <2>. QED BY <1>3, <2>1, <2>2 DEF NothingDangles
<1>9. live' \ Used' = live \ Used
  <2>1. \A x : x \in Used <=> \E op \in Outstanding : x \in Owned(op.data)
    BY DEF Used, InUse
  <2>2. \A x : x \in Used' <=> \E op \in Outstanding' : x \in New(op.data)
    BY <1>3 DEF Used, InUse
  <2>3. \A x : x \in Used' <=> x \in S \/ \E op \in Outstanding \ {q} : x \in Owned(op.data)
    BY <1>1, <1>4, <1>5, <1>7, <2>2
  <2>4. q \in Outstanding
    BY DEF Outstanding
  <2>5. \A x : x \in Used <=>
          x \in Owned(q.data) \/ \E op \in Outstanding \ {q} : x \in Owned(op.data)
    BY <2>1, <2>4
  <2>. QED BY <2>3, <2>5, <1>2
<1>10. LeakInv'
  BY <1>9 DEF LeakInv
<1>. QED BY <1>1, <1>2, <1>8, <1>10

(* The same, with all the invariant says of the operations: those that are *)
(* left keep what they own; those of N are given what they need.           *)
OpShape(op) ==
  \/ op.opcode = "accept" /\ AcceptShape(op.data) /\ op.sock = None
  \/ op.opcode = "readv" /\ ReadShape(op.data, op.sock)
  \/ op.opcode = "writev" /\ WriteShape(op.data, op.sock)

LEMMA Handled ==
  ASSUME IInv, NEW q \in cq, NEW N, NEW S,
         Handling(q, N, S), S \subseteq Block,
         UNCHANGED <<proc, backlog, clientVars>>,
         \/ open' = open
         \/ q.sock \in Fd /\ open' = [open EXCEPT ![q.sock] = None],
         req' \in [Block -> ReqType], text' \in [Block -> TextType],
         \A b \in live \ Owned(q.data) : text'[b] = text[b],
         N \subseteq [data : Block, opcode : {"accept", "readv", "writev"},
                      sock : Fd \union {None}],
         \A n \in N : OpShape(n)',
         \A n \in N : n.opcode = "writev" =>
           AnswerTo(open[n.sock], ToSet(req[n.data].iov))',
         \A n \in N : n.sock # None => n.sock = q.sock /\ open' = open,
         \A n, m \in N : n.sock = m.sock /\ n.sock # None => n = m,
         q.sock # None => (open'[q.sock] # None <=> \E n \in N : n.sock = q.sock)
  PROVE  IInv'
<1>. USE DEF IInv
<1>0. q \in Outstanding
  BY DEF Outstanding
<1>1. /\ Outstanding' = (Outstanding \ {q}) \union N
      /\ \A op \in Outstanding \ {q} : /\ Owned(op.data) \subseteq live \ Owned(q.data)
                                       /\ req'[op.data] = req[op.data]
      /\ NothingDangles' /\ LeakInv'
  BY HandledBlocks
<1>. USE DEF Handling
<1>2. ASSUME NEW op \in Outstanding \ {q}
      PROVE  \A b \in Owned(op.data) : text'[b] = text[b]
  BY <1>1, <1>2
<1>3. ASSUME NEW op \in Outstanding \ {q}, op.sock # None
      PROVE  open'[op.sock] = open[op.sock]
  <2>1. op.sock \in Fd /\ open \in [Fd -> Client \union {None}]
    BY <1>3 DEF Outstanding, TypeOK
  <2>2. op.sock # q.sock
    BY <1>0, <1>3 DEF SocketInv
  <2>. QED BY <2>1, <2>2
<1>4. inflight \subseteq Outstanding \ {q} /\ cq' \subseteq Outstanding \ {q}
  BY Apart DEF Outstanding
<1>5. ASSUME NEW op \in Outstanding \ {q}, OnSocket(op.data, op.sock)
      PROVE  OnSocket(op.data, op.sock)'
  <2>1. op.sock # None
    BY <1>5, ZeroAssumption DEF OnSocket
  <2>. QED BY <1>1, <1>3, <1>5, <2>1 DEF OnSocket
<1>6. ASSUME NEW op \in Outstanding \ {q}
      PROVE  /\ AcceptShape(op.data) => AcceptShape(op.data)'
             /\ ReadShape(op.data, op.sock) => ReadShape(op.data, op.sock)'
             /\ WriteShape(op.data, op.sock) => WriteShape(op.data, op.sock)'
  BY <1>1, <1>5 DEF AcceptShape, ReadShape, WriteShape
<1>7. TypeOK'
  <2>1. \A op \in inflight' : <<req'[op.data].type, op.opcode>> \in
          {<<"ACCEPT", "accept">>, <<"READ", "readv">>, <<"WRITE", "writev">>}
    <3>1. ASSUME NEW op \in inflight
          PROVE <<req'[op.data].type, op.opcode>> \in
          {<<"ACCEPT", "accept">>, <<"READ", "readv">>, <<"WRITE", "writev">>}
      <4>1. req'[op.data] = req[op.data]
        BY <1>1, <1>4
      <4>. QED BY <4>1 DEF TypeOK
    <3>2. ASSUME NEW op \in N
          PROVE <<req'[op.data].type, op.opcode>> \in
          {<<"ACCEPT", "accept">>, <<"READ", "readv">>, <<"WRITE", "writev">>}
      BY DEF OpShape, AcceptShape, ReadShape, WriteShape
    <3>. QED BY <3>1, <3>2
  <2>2. open' \in [Fd -> Client \union {None}]
    BY DEF TypeOK
  <2>3. live' \subseteq Block
    BY DEF TypeOK
  <2>4. /\ proc' \in {"up", "exit", "crash"} /\ backlog' \subseteq Client
        /\ request' \in [Client -> Requests \union {"none"}]
        /\ sent' \in [Client -> {"none", "own", "foreign"}]
        /\ lost' \subseteq Fd
    BY DEF TypeOK, clientVars
  <2>5. /\ inflight' \subseteq [data : Block, opcode : {"accept", "readv", "writev"},
                                sock : Fd \union {None}]
        /\ cq' \subseteq [data : Block, res : {"ok", "empty", "err"}, sock : Fd \union {None}]
    BY DEF TypeOK
  <2>6. /\ req' \in [Block -> [type : {"none", "ACCEPT", "READ", "WRITE"},
                        sock : Fd \union {None}, iov : BoundedSeq(Block, IOVS)]]
        /\ text' \in [Block -> [of : Client \union {None},
                         kind : Requests \union Replies \union {"none"}]]
    BY DEF ReqType, TextType, Iov
  <2>. QED BY <2>1, <2>2, <2>3, <2>4, <2>5, <2>6 DEF TypeOK
<1>8. ShapeInv'
  <2>1. \A op \in inflight' : OpShape(op)'
    <3>1. ASSUME NEW op \in inflight PROVE OpShape(op)'
      BY <1>4, <1>6 DEF ShapeInv, OpShape
    <3>. QED BY <3>1
  <2>2. ASSUME NEW r \in cq', r.res = "ok"
        PROVE  \/ /\ AcceptShape(r.data)'
                  /\ r.sock \in Fd /\ open'[r.sock] \in Client
               \/ ReadShape(r.data, r.sock)'
               \/ WriteShape(r.data, r.sock)'
    <3>1. r \in cq /\ r \in Outstanding \ {q}
      BY <1>4
    <3>2. r.sock \in Fd => r.sock # None
      BY ZeroAssumption
    <3>. QED BY <1>3, <1>6, <2>2, <3>1, <3>2 DEF ShapeInv
  <2>3. \A r \in cq' : r.res = "empty" => ReadShape(r.data, r.sock)'
    BY <1>4, <1>6 DEF ShapeInv
  <2>. QED BY <2>1, <2>2, <2>3 DEF ShapeInv, OpShape
<1>9. SocketInv'
  <2>1. ASSUME NEW op \in Outstanding \ {q}, op.sock # None
        PROVE  op.sock # q.sock /\ \A n \in N : n.sock # op.sock
    BY <1>0, <2>1 DEF SocketInv
  <2>2. \A op, other \in Outstanding' : op.sock = other.sock /\ op.sock # None => op = other
    BY <1>1, <2>1 DEF SocketInv
  <2>3. q.sock # None => q.sock \notin lost
    BY <1>0 DEF SocketInv
  <2>4. \A f \in lost' : \A op \in Outstanding' : op.sock # f
    <3>1. \A f \in lost : f # None
      BY ZeroAssumption DEF TypeOK
    <3>. QED BY <1>0, <1>1, <2>3, <3>1 DEF SocketInv
  <2>5. \A f, g \in Fd : open'[f] # None /\ open'[f] = open'[g] => f = g
    BY DEF SocketInv, TypeOK
  <2>6. \A f \in Fd : open'[f] \notin backlog'
    BY ZeroAssumption DEF SocketInv, TypeOK
  <2>7. ASSUME NEW f \in Fd
        PROVE  open'[f] # None <=> f \in lost' \/ \E op \in Outstanding' : op.sock = f
    <3>0. f # None
      BY ZeroAssumption
    <3>1. CASE f = q.sock
      BY <1>1, <2>1, <2>3, <3>0, <3>1
    <3>2. CASE f # q.sock
      <4>1. open'[f] = open[f]
        BY <3>2 DEF TypeOK
      <4>2. (\E op \in Outstanding' : op.sock = f) <=> \E op \in Outstanding : op.sock = f
        BY <1>0, <1>1, <3>0, <3>2
      <4>3. open[f] # None <=> f \in lost \/ \E op \in Outstanding : op.sock = f
        BY DEF SocketInv, SocketsAccounted
      <4>. QED BY <4>1, <4>2, <4>3
    <3>. QED BY <3>1, <3>2
  <2>. QED BY <2>2, <2>4, <2>5, <2>6, <2>7 DEF SocketInv, SocketsAccounted
<1>10. TextInv'
  <2>1. ASSUME NEW r \in cq', r.res = "ok", req'[r.data].type = "READ"
        PROVE  /\ text'[req'[r.data].iov[1]] =
                    [of |-> open'[r.sock], kind |-> request'[open'[r.sock]]]
               /\ request'[open'[r.sock]] \in Requests
    <3>1. r \in cq /\ r \in Outstanding \ {q} /\ req'[r.data] = req[r.data]
      BY <1>1, <1>4
    <3>2. ReadShape(r.data, r.sock)
      BY <2>1, <3>1 DEF ShapeInv, AcceptShape, WriteShape
    <3>3. r.sock # None /\ open'[r.sock] = open[r.sock]
      BY <1>3, <3>1, <3>2, ZeroAssumption DEF ReadShape, OnSocket
    <3>4. req[r.data].iov[1] \in Owned(r.data)
      <4>1. 1 \in DOMAIN req[r.data].iov
        <5>1. req[r.data].iov \in Iov
          BY <3>1 DEF TypeOK, Iov
        <5>. QED BY <3>2, <5>1, Iovecs DEF ReadShape
      <4>. QED BY <4>1 DEF Owned, ToSet
    <3>5. text'[req[r.data].iov[1]] = text[req[r.data].iov[1]]
      BY <1>2, <3>1, <3>4
    <3>. QED BY <2>1, <3>1, <3>3, <3>5 DEF TextInv, clientVars
  <2>2. ASSUME NEW op \in inflight', op.opcode = "writev"
        PROVE  AnswerTo(open[op.sock], ToSet(req[op.data].iov))'
    <3>1. CASE op \in N
      BY <2>2, <3>1
    <3>2. CASE op \in inflight
      <4>1. op \in Outstanding \ {q} /\ req'[op.data] = req[op.data]
        BY <1>1, <1>4, <3>2
      <4>2. WriteShape(op.data, op.sock)
        BY <2>2, <3>2 DEF ShapeInv
      <4>3. open'[op.sock] = open[op.sock]
        BY <1>3, <4>1, <4>2, ZeroAssumption DEF WriteShape, OnSocket
      <4>4. \A b \in ToSet(req[op.data].iov) : text'[b] = text[b]
        BY <1>2, <4>1 DEF Owned
      <4>5. AnswerTo(open[op.sock], ToSet(req[op.data].iov))
        BY <2>2, <3>2 DEF TextInv
      <4>. QED BY <4>1, <4>3, <4>4, <4>5 DEF AnswerTo, clientVars
    <3>. QED BY <3>1, <3>2
  <2>3. OwnAnswer'
    BY DEF TextInv, OwnAnswer, clientVars
  <2>. QED BY <2>1, <2>2, <2>3 DEF TextInv
<1>. QED BY <1>1, <1>7, <1>8, <1>9, <1>10

(* The next accept and the first read take the place of an accept.         *)
LEMMA AcceptStep ==
  ASSUME IInv, NEW q \in cq, HandleAccept(q)
  PROVE  IInv'
<1>. PICK s : s = Fresh(3)
  OBVIOUS
<1>. DEFINE a == Op(s[1], "accept", None)
            r == Op(s[2], "readv", q.sock)
            N == {a, r}
            S == ToSet(s)
            newReq == [req EXCEPT ![s[1]] = Accept(s[1]), ![s[2]] = Read(s[2], q.sock, s[3])]
            newText == [text EXCEPT ![s[3]] = NoText]
<1>0. /\ q.res = "ok" /\ req[q.data].type = "ACCEPT" /\ CanAllocate(3)
      /\ cq' = cq \ {q} /\ inflight' = inflight \union N
      /\ live' = (live \union S) \ {q.data}
      /\ Free({q.data}, newReq, newText)
      /\ UNCHANGED <<proc, open, backlog, clientVars, lost>>
  BY DEF HandleAccept, Completes, Seen, submitted
<1>1. /\ AcceptShape(q.data) /\ q.sock \in Fd /\ open[q.sock] \in Client /\ q.data \in Block
      /\ q \in Outstanding /\ q.data \in live
  <2>1. q \in Outstanding /\ q.data \in Block
    BY DEF IInv, TypeOK, Outstanding
  <2>2. q.data \in live
    BY <2>1, Own DEF IInv, NothingDangles
  <2>. QED BY <1>0, <2>1, <2>2 DEF IInv, ShapeInv, ReadShape, WriteShape
<1>2. Owned(q.data) = {q.data}
  BY <1>1 DEF Owned, ToSet, AcceptShape
<1>3. /\ s \in [1 .. 3 -> Block] /\ \A i \in 1 .. 3 : s[i] \notin live
      /\ s[1] # s[2] /\ s[1] # s[3] /\ s[2] # s[3]
  <2>1. live \subseteq Block
    BY DEF IInv, TypeOK
  <2>2. /\ s \in [1 .. 3 -> Block] /\ \A i \in 1 .. 3 : s[i] \notin live
        /\ \A i, j \in 1 .. 3 : s[i] = s[j] => i = j
    BY <1>0, <2>1, FreshBlocks
  <2>. QED BY <2>2
<1>4. /\ S = {s[1], s[2], s[3]} /\ S \subseteq Block /\ S \intersect live = {}
      /\ s[1] \in S /\ s[2] \in S /\ s[3] \in S
  BY <1>3 DEF ToSet
<1>. HIDE DEF S
<1>5. /\ newReq[s[1]] = Accept(s[1]) /\ newReq[s[2]] = Read(s[2], q.sock, s[3])
      /\ \A b \in Block : b \notin S => newReq[b] = req[b] /\ newText[b] = text[b]
  BY <1>3, <1>4 DEF IInv, TypeOK
<1>6. newReq \in [Block -> ReqType] /\ newText \in [Block -> TextType]
  <2>1. Accept(s[1]) \in ReqType
    <3>1. <<>> \in Iov
      <4>1. <<>> \in Seq(Block) /\ Len(<<>>) = 0 /\ 0 <= IOVS
        BY ZeroAssumption
      <4>. QED BY <4>1, Iovecs
    <3>. QED BY <3>1 DEF Accept, ReqType
  <2>2. Read(s[2], q.sock, s[3]) \in ReqType
    <3>1. <<s[3]>> \in Iov
      <4>1. <<s[3]>> \in Seq(Block) /\ Len(<<s[3]>>) = 1 /\ 1 <= IOVS
        BY <1>3, ZeroAssumption
      <4>. QED BY <4>1, Iovecs
    <3>. QED BY <1>1, <3>1 DEF Read, ReqType
  <2>3. NoText \in TextType
    BY DEF NoText, TextType
  <2>4. req \in [Block -> ReqType] /\ text \in [Block -> TextType]
    BY DEF IInv, TypeOK, ReqType, TextType, Iov
  <2>. QED BY <2>1, <2>2, <2>3, <2>4
<1>. HIDE DEF newReq, newText
<1>7. /\ req' \in [Block -> ReqType] /\ text' \in [Block -> TextType]
      /\ \A b \in Block \ {q.data} : req'[b] = newReq[b] /\ text'[b] = newText[b]
  BY <1>0, <1>6, Freed, FreedTypes
<1>8. req'[s[1]] = Accept(s[1]) /\ req'[s[2]] = Read(s[2], q.sock, s[3])
  BY <1>1, <1>3, <1>4, <1>5, <1>7
<1>9. \A b \in live \ Owned(q.data) : req'[b] = req[b] /\ text'[b] = text[b]
  BY <1>2, <1>4, <1>5, <1>7 DEF IInv, TypeOK
<1>10. /\ a.data = s[1] /\ a.opcode = "accept" /\ a.sock = None
       /\ r.data = s[2] /\ r.opcode = "readv" /\ r.sock = q.sock
       /\ N \subseteq [data : Block, opcode : {"accept", "readv", "writev"},
                       sock : Fd \union {None}]
  BY <1>1, <1>3 DEF Op
<1>11. NewOwned(a) = {s[1]} /\ NewOwned(r) = {s[2], s[3]}
  <2>1. req'[a.data].iov = <<>> /\ req'[r.data].iov = <<s[3]>>
    BY <1>8, <1>10 DEF Accept, Read
  <2>2. ToSet(<<>>) = {} /\ ToSet(<<s[3]>>) = {s[3]}
    BY DEF ToSet
  <2>. HIDE DEF a, r
  <2>. QED BY <1>10, <2>1, <2>2 DEF NewOwned
<1>12. OpShape(a)' /\ OpShape(r)'
  <2>. HIDE DEF a, r
  <2>1. AcceptShape(a.data)'
    BY <1>8, <1>10 DEF AcceptShape, Accept
  <2>2. ReadShape(r.data, r.sock)'
    BY <1>0, <1>1, <1>3, <1>8, <1>10 DEF ReadShape, OnSocket, Read
  <2>. QED BY <1>10, <2>1, <2>2 DEF OpShape
<1>. HIDE DEF a, r
<1>13. Handling(q, N, S)
  <2>1. \A n \in N : NewOwned(n) \subseteq S
    BY <1>4, <1>11
  <2>2. \A n, m \in N : n # m => NewOwned(n) \intersect NewOwned(m) = {}
    BY <1>3, <1>11
  <2>3. \A x \in S : \E n \in N : x \in NewOwned(n)
    BY <1>4, <1>11
  <2>. QED BY <1>0, <1>2, <1>4, <1>9, <2>1, <2>2, <2>3 DEF Handling
<1>14. None \notin Fd
  BY ZeroAssumption
<1>15. /\ \A n \in N : OpShape(n)'
       /\ \A n \in N : n.opcode # "writev"
       /\ \A n \in N : n.sock # None => n.sock = q.sock /\ open' = open
       /\ \A n, m \in N : n.sock = m.sock /\ n.sock # None => n = m
       /\ open'[q.sock] # None /\ \E n \in N : n.sock = q.sock
  BY <1>0, <1>1, <1>10, <1>12, <1>14, ZeroAssumption
<1>. HIDE DEF N
<1>. QED BY <1>0, <1>4, <1>7, <1>9, <1>10, <1>13, <1>15, Handled

(* The socket is closed, and everything the write had is freed.            *)
LEMMA WriteStep ==
  ASSUME IInv, NEW q \in cq, HandleWrite(q)
  PROVE  IInv'
<1>0. /\ q.res = "ok" /\ req[q.data].type = "WRITE"
      /\ cq' = cq \ {q}
      /\ open' = [open EXCEPT ![req[q.data].sock] = None]
      /\ live' = live \ Owned(q.data)
      /\ Free(Owned(q.data), req, text)
      /\ UNCHANGED <<proc, inflight, backlog, clientVars, lost>>
  BY DEF HandleWrite, Completes, Seen, freed
<1>1. WriteShape(q.data, q.sock)
  BY <1>0 DEF IInv, ShapeInv, ReadShape, AcceptShape
<1>2. q.sock \in Fd /\ open' = [open EXCEPT ![q.sock] = None] /\ open'[q.sock] = None
  BY <1>0, <1>1 DEF WriteShape, OnSocket, IInv, TypeOK
<1>3. req \in [Block -> ReqType] /\ text \in [Block -> TextType] /\ live \subseteq Block
  BY DEF IInv, TypeOK, ReqType, TextType, Iov
<1>4. /\ req' \in [Block -> ReqType] /\ text' \in [Block -> TextType]
      /\ \A b \in Block \ Owned(q.data) : req'[b] = req[b] /\ text'[b] = text[b]
  BY <1>0, <1>3, Freed, FreedTypes
<1>5. Handling(q, {}, {})
  BY <1>0, <1>3, <1>4 DEF Handling
<1>6. UNCHANGED <<proc, backlog, clientVars>>
  BY <1>0
<1>7. \A b \in live \ Owned(q.data) : text'[b] = text[b]
  BY <1>3, <1>4
<1>8. PICK N : N = {}
  OBVIOUS
<1>9. /\ \A n \in N : OpShape(n)'
      /\ \A n \in N : n.opcode = "writev" =>
           AnswerTo(open[n.sock], ToSet(req[n.data].iov))'
      /\ \A n \in N : n.sock # None => n.sock = q.sock /\ open' = open
      /\ \A n, m \in N : n.sock = m.sock /\ n.sock # None => n = m
      /\ open'[q.sock] # None <=> \E n \in N : n.sock = q.sock
      /\ N \subseteq [data : Block, opcode : {"accept", "readv", "writev"},
                      sock : Fd \union {None}]
      /\ N \subseteq Block /\ Handling(q, N, N)
  BY <1>2, <1>5, <1>8
<1>. QED BY <1>2, <1>4, <1>6, <1>7, <1>9, Handled

(* The first block of several, and the others.                             *)
LEMMA FirstAndRest ==
  ASSUME NEW s, NEW n \in Nat, s \in [1 .. n + 1 -> Block]
  PROVE  /\ Tail(s) \in Seq(Block) /\ Len(Tail(s)) = n /\ s[1] \in Block
         /\ (\A i, j \in 1 .. n + 1 : s[i] = s[j] => i = j) =>
               ToSet(Tail(s)) = ToSet(s) \ {s[1]}
         /\ s[1] \in ToSet(s) /\ ToSet(s) = {s[i] : i \in 1 .. n + 1}
<1>1. n + 1 \in Nat /\ s \in Seq(Block) /\ Len(s) = n + 1 /\ 1 \in 1 .. n + 1
  OBVIOUS
<1>2. /\ Tail(s) \in Seq(Block) /\ Len(Tail(s)) = n
      /\ \A i \in 1 .. n : Tail(s)[i] = s[i + 1]
  BY <1>1
<1>3. ToSet(s) = {s[i] : i \in 1 .. n + 1} /\ DOMAIN Tail(s) = 1 .. n
  BY <1>1, <1>2 DEF ToSet
<1>4. ToSet(Tail(s)) = {s[i + 1] : i \in 1 .. n}
  BY <1>2, <1>3 DEF ToSet
<1>5. \A j \in 1 .. n + 1 : j # 1 => j - 1 \in 1 .. n /\ (j - 1) + 1 = j
  OBVIOUS
<1>6. \A i \in 1 .. n : i + 1 \in 1 .. n + 1 /\ i + 1 # 1
  OBVIOUS
<1>7. ASSUME \A i, j \in 1 .. n + 1 : s[i] = s[j] => i = j
      PROVE  ToSet(Tail(s)) = ToSet(s) \ {s[1]}
  <2>1. ASSUME NEW b \in ToSet(Tail(s)) PROVE b \in ToSet(s) \ {s[1]}
    <3>1. PICK i \in 1 .. n : b = s[i + 1]
      BY <1>4
    <3>2. i + 1 \in 1 .. n + 1 /\ i + 1 # 1
      BY <1>6
    <3>. QED BY <1>1, <1>3, <1>7, <3>1, <3>2
  <2>2. ASSUME NEW b \in ToSet(s) \ {s[1]} PROVE b \in ToSet(Tail(s))
    <3>1. PICK j \in 1 .. n + 1 : b = s[j]
      BY <1>3
    <3>2. j - 1 \in 1 .. n /\ (j - 1) + 1 = j
      BY <1>5, <3>1
    <3>. QED BY <1>4, <3>1, <3>2
  <2>. QED BY <2>1, <2>2
<1>. QED BY <1>1, <1>2, <1>3, <1>7

(* The answer takes the place of the request.                              *)
Answering(q, first, rest, reply) ==
  LET line == text[req[q.data].iov[1]]
      w == [type |-> "WRITE", sock |-> req[q.data].sock, iov |-> rest]
  IN  /\ q.res = "ok" /\ req[q.data].type = "READ"
      /\ first \in Block /\ first \notin live
      /\ rest \in Iov /\ rest # <<>> /\ first \notin ToSet(rest)
      /\ ToSet(rest) \intersect live = {} /\ ToSet(rest) \subseteq Block
      /\ reply \in replies(line.kind)
      /\ cq' = cq \ {q}
      /\ inflight' = inflight \union {Op(first, "writev", req[q.data].sock)}
      /\ live' = (live \union ({first} \union ToSet(rest))) \ Owned(q.data)
      /\ UNCHANGED <<proc, open, backlog, clientVars, lost>>
      /\ Free(Owned(q.data), [req EXCEPT ![first] = w],
              [b \in Block |-> IF b \in ToSet(rest) THEN [of |-> line.of, kind |-> reply]
                               ELSE text[b]])

LEMMA AnswerStep ==
  ASSUME IInv, NEW q \in cq, NEW first, NEW rest, NEW reply,
         Answering(q, first, rest, reply)
  PROVE  IInv'
<1>. DEFINE line == text[req[q.data].iov[1]]
            w == [type |-> "WRITE", sock |-> req[q.data].sock, iov |-> rest]
            newReq == [req EXCEPT ![first] = w]
            newText == [b \in Block |-> IF b \in ToSet(rest)
                          THEN [of |-> line.of, kind |-> reply] ELSE text[b]]
            S == {first} \union ToSet(rest)
<1>. PICK n : n = Op(first, "writev", req[q.data].sock)
  OBVIOUS
<1>. DEFINE N == {n}
<1>0. /\ q.res = "ok" /\ req[q.data].type = "READ"
      /\ first \in Block /\ first \notin live
      /\ rest \in Iov /\ rest # <<>> /\ first \notin ToSet(rest)
      /\ ToSet(rest) \intersect live = {} /\ ToSet(rest) \subseteq Block
      /\ reply \in replies(line.kind)
      /\ cq' = cq \ {q} /\ inflight' = inflight \union N
      /\ live' = (live \union S) \ Owned(q.data)
      /\ UNCHANGED <<proc, open, backlog, clientVars, lost>>
      /\ Free(Owned(q.data), newReq, newText)
  BY DEF Answering
<1>. HIDE DEF line
<1>1. ReadShape(q.data, q.sock) /\ q.data \in Block /\ q \in Outstanding
  BY <1>0 DEF IInv, ShapeInv, WriteShape, AcceptShape, TypeOK, Outstanding
<1>2. q.sock \in Fd /\ open[q.sock] \in Client /\ w.sock = q.sock /\ w.type = "WRITE"
      /\ w.iov = rest /\ req[q.data].sock = q.sock
  BY <1>1 DEF ReadShape, OnSocket
<1>3. /\ line.of = open[q.sock] /\ line.kind = request[open[q.sock]]
      /\ line.kind \in Requests
  <2>1. /\ line = [of |-> open[q.sock], kind |-> request[open[q.sock]]]
        /\ request[open[q.sock]] \in Requests
    BY <1>0 DEF IInv, TextInv, line
  <2>. QED BY <2>1
<1>4. reply \in Replies
  BY <1>0, <1>3 DEF replies, Replies, Requests
<1>6. Owned(q.data) \subseteq live /\ live \subseteq Block
  BY <1>1 DEF IInv, NothingDangles, TypeOK
<1>9. first \in S /\ S \subseteq Block /\ S \intersect live = {} /\ ToSet(rest) \subseteq S
  BY <1>0
<1>. HIDE DEF S
<1>10. w \in ReqType
  BY <1>0, <1>2 DEF ReqType
<1>11. newReq \in [Block -> ReqType] /\ newText \in [Block -> TextType]
  <2>1. req \in [Block -> ReqType] /\ text \in [Block -> TextType]
    BY DEF IInv, TypeOK, ReqType, TextType, Iov
  <2>2. [of |-> line.of, kind |-> reply] \in TextType
    BY <1>2, <1>3, <1>4 DEF TextType
  <2>3. newReq \in [Block -> ReqType]
    BY <1>0, <1>10, <2>1
  <2>4. newText \in [Block -> TextType]
    <3>1. ASSUME NEW b \in Block
          PROVE  (IF b \in ToSet(rest) THEN [of |-> line.of, kind |-> reply] ELSE text[b])
                   \in TextType
      BY <2>1, <2>2
    <3>. QED BY <3>1
  <2>. QED BY <2>3, <2>4
<1>12. /\ newReq[first] = w
       /\ \A b \in Block : b \notin S => newReq[b] = req[b] /\ newText[b] = text[b]
       /\ \A b \in ToSet(rest) : newText[b] = [of |-> line.of, kind |-> reply]
  BY <1>0, <1>9 DEF IInv, TypeOK
<1>. HIDE DEF newReq, newText, w
<1>13. /\ req' \in [Block -> ReqType] /\ text' \in [Block -> TextType]
       /\ \A b \in Block \ Owned(q.data) : req'[b] = newReq[b] /\ text'[b] = newText[b]
  BY <1>0, <1>11, Freed, FreedTypes
<1>14. \A b \in S : b \in Block \ Owned(q.data)
  BY <1>6, <1>9
<1>15. req'[first] = w /\ \A b \in ToSet(rest) : text'[b] = [of |-> line.of, kind |-> reply]
  BY <1>9, <1>12, <1>13, <1>14
<1>16. \A b \in live \ Owned(q.data) : req'[b] = req[b] /\ text'[b] = text[b]
  BY <1>6, <1>9, <1>12, <1>13
<1>17. /\ n.data = first /\ n.opcode = "writev" /\ n.sock = q.sock
       /\ n \in [data : Block, opcode : {"accept", "readv", "writev"},
                 sock : Fd \union {None}]
  BY <1>0, <1>2 DEF Op
<1>18. NewOwned(n) = S
  BY <1>2, <1>15, <1>17 DEF NewOwned, S
<1>19. Handling(q, N, S)
  BY <1>0, <1>9, <1>16, <1>18 DEF Handling
<1>20. OpShape(n)'
  <2>1. WriteShape(n.data, n.sock)'
    <3>1. Len(rest) # 0
      <4>1. rest \in Seq(Block)
        BY <1>0, Iovecs
      <4>. QED BY <1>0, <4>1
    <3>. QED BY <1>0, <1>2, <1>15, <1>17, <3>1 DEF WriteShape, OnSocket
  <2>. QED BY <1>17, <2>1 DEF OpShape
<1>21. AnswerTo(open[n.sock], ToSet(req[n.data].iov))'
  <2>1. reply \in replies(request'[open'[n.sock]])
    BY <1>0, <1>3, <1>17 DEF clientVars
  <2>2. \A b \in ToSet(req'[n.data].iov) : text'[b] = [of |-> open'[n.sock], kind |-> reply]
    BY <1>0, <1>2, <1>3, <1>15, <1>17
  <2>. QED BY <2>1, <2>2 DEF AnswerTo
<1>22. open'[q.sock] # None
  BY <1>0, <1>2, ZeroAssumption
<1>23. /\ \A m \in N : OpShape(m)'
       /\ \A m \in N : m.opcode = "writev" => AnswerTo(open[m.sock], ToSet(req[m.data].iov))'
       /\ \A m \in N : m.sock # None => m.sock = q.sock /\ open' = open
       /\ \A l, m \in N : l.sock = m.sock /\ l.sock # None => l = m
       /\ \E m \in N : m.sock = q.sock
       /\ N \subseteq [data : Block, opcode : {"accept", "readv", "writev"},
                       sock : Fd \union {None}]
  BY <1>0, <1>17, <1>20, <1>21
<1>. HIDE DEF N
<1>. QED BY <1>0, <1>9, <1>13, <1>16, <1>19, <1>22, <1>23, Handled

LEMMA ReadStep ==
  ASSUME IInv, NEW q \in cq, HandleRead(q)
  PROVE  IInv'
<1>. DEFINE kind == text[req[q.data].iov[1]].kind
            k == iovec_count(kind)
            s == Fresh(1 + k)
            w == Write(s[1], q.data, Tail(s))
<1>1. k \in Nat /\ k >= 1 /\ k <= IOVS
  BY ZeroAssumption DEF iovec_count
<1>2. /\ q.res = "ok" /\ req[q.data].type = "READ" /\ CanAllocate(Len(s))
      /\ cq' = cq \ {q} /\ inflight' = inflight \union {Op(s[1], "writev", w.sock)}
      /\ live' = (live \union ToSet(s)) \ Owned(q.data)
      /\ UNCHANGED <<proc, open, backlog, clientVars, lost>>
      /\ \E reply \in replies(kind) :
           Free(Owned(q.data), [req EXCEPT ![s[1]] = w],
                [b \in Block |-> IF b \in ToSet(w.iov)
                   THEN [of |-> text[req[q.data].iov[1]].of, kind |-> reply] ELSE text[b]])
  BY DEF HandleRead, Completes, Seen
<1>3. DOMAIN s = 1 .. 1 + k /\ s = [i \in 1 .. 1 + k |-> s[i]]
  BY DEF Fresh
<1>4. w = [type |-> "WRITE", sock |-> req[q.data].sock, iov |-> Tail(s)]
  BY DEF Write
<1>. HIDE DEF k, s, w, kind
<1>5. 1 + k = k + 1 /\ k + 1 \in Nat
  BY <1>1
<1>6. Len(s) = k + 1
  BY <1>3, <1>5
<1>7. live \subseteq Block
  BY DEF IInv, TypeOK
<1>8. /\ s \in [1 .. k + 1 -> Block] /\ \A i \in 1 .. k + 1 : s[i] \notin live
      /\ \A i, j \in 1 .. k + 1 : s[i] = s[j] => i = j
  <2>1. CanAllocate(k + 1)
    BY <1>2, <1>6
  <2>2. s = Fresh(k + 1)
    BY <1>5 DEF s
  <2>. QED BY <1>5, <1>7, <2>1, <2>2, FreshBlocks
<1>9. /\ Tail(s) \in Seq(Block) /\ Len(Tail(s)) = k /\ s[1] \in Block
      /\ ToSet(Tail(s)) = ToSet(s) \ {s[1]}
      /\ s[1] \in ToSet(s) /\ ToSet(s) = {s[i] : i \in 1 .. k + 1}
  BY <1>1, <1>8, FirstAndRest
<1>10. s[1] \notin live /\ 1 \in 1 .. k + 1
  BY <1>1, <1>8
<1>11. ToSet(s) \intersect live = {} /\ ToSet(s) \subseteq Block
  BY <1>8, <1>9
<1>12. ToSet(s) = {s[1]} \union ToSet(Tail(s))
  BY <1>9
<1>13. Tail(s) \in Iov /\ Tail(s) # <<>>
  <2>1. Tail(s) \in Iov
    BY <1>1, <1>9, Iovecs
  <2>2. Len(<<>>) = 0 /\ k # 0
    BY <1>1
  <2>. QED BY <1>9, <2>1, <2>2
<1>14. PICK reply \in replies(kind) :
         Free(Owned(q.data), [req EXCEPT ![s[1]] = w],
              [b \in Block |-> IF b \in ToSet(w.iov)
                 THEN [of |-> text[req[q.data].iov[1]].of, kind |-> reply] ELSE text[b]])
  BY <1>2
<1>15. w.iov = Tail(s)
  BY <1>4
<1>16. /\ s[1] \notin ToSet(Tail(s)) /\ ToSet(Tail(s)) \intersect live = {}
       /\ ToSet(Tail(s)) \subseteq Block
  BY <1>9, <1>11
<1>17. Free(Owned(q.data), [req EXCEPT ![s[1]] = w],
              [b \in Block |-> IF b \in ToSet(Tail(s))
                 THEN [of |-> text[req[q.data].iov[1]].of, kind |-> reply] ELSE text[b]])
  BY <1>14, <1>15
<1>18. reply \in replies(text[req[q.data].iov[1]].kind)
  BY <1>14 DEF kind
<1>19. live' = (live \union ({s[1]} \union ToSet(Tail(s)))) \ Owned(q.data)
  BY <1>2, <1>12
<1>20. w.sock = req[q.data].sock
  BY <1>4
<1>21. Answering(q, s[1], Tail(s), reply)
  BY <1>2, <1>4, <1>9, <1>10, <1>13, <1>16, <1>17, <1>18, <1>19, <1>20 DEF Answering
<1>. QED BY <1>21, AnswerStep

(* The kernel completes an operation: its block goes on to the completion. *)
LEMMA Moved ==
  ASSUME IInv, NEW op \in inflight, NEW res, NEW sock, Completed(op, res, sock),
         NEW r, r = [data |-> op.data, res |-> res, sock |-> sock],
         UNCHANGED <<live, req, lost>>
  PROVE  /\ Outstanding' = (Outstanding \ {op}) \union {r}
         /\ op \in Outstanding /\ r \notin Outstanding
         /\ inflight' = inflight \ {op} /\ cq' = cq \union {r}
         /\ NothingDangles' /\ LeakInv'
<1>. USE DEF IInv
<1>0. r.data = op.data /\ op \in Outstanding
  BY DEF Outstanding
<1>1. r \notin cq
  <2>. SUFFICES ASSUME r \in cq PROVE FALSE
    OBVIOUS
  <2>1. r \in Outstanding /\ r # op
    BY Apart DEF Outstanding
  <2>. QED BY <1>0, <2>1, Own, OneEach
<1>2. r \notin inflight
  <2>1. "opcode" \notin DOMAIN r
    OBVIOUS
  <2>. QED BY <2>1 DEF TypeOK
<1>3. inflight' = inflight \ {op} /\ cq' = cq \union {r}
  BY DEF Completed
<1>4. Outstanding' = (Outstanding \ {op}) \union {r}
  BY <1>1, <1>3, Apart DEF Outstanding
<1>5. \A b : Owned(b)' = Owned(b)
  BY DEF Owned
<1>6. NothingDangles'
  <2>1. \A o \in Outstanding' : \E p \in Outstanding :
          p.data = o.data /\ ((o = r /\ p = op) \/ (o = p /\ p # op))
    BY <1>0, <1>4
  <2>2. ASSUME NEW o \in Outstanding' PROVE Owned(o.data) \subseteq live'
    BY <2>1 DEF NothingDangles
  <2>3. ASSUME NEW o \in Outstanding', NEW p \in Outstanding', o # p
        PROVE  Owned(o.data) \intersect Owned(p.data) = {}
    <3>1. PICK x \in Outstanding : x.data = o.data /\ ((o = r /\ x = op) \/ (o = x /\ x # op))
      BY <2>1
    <3>2. PICK y \in Outstanding : y.data = p.data /\ ((p = r /\ y = op) \/ (p = y /\ y # op))
      BY <2>1
    <3>3. x # y
      BY <2>3, <3>1, <3>2
    <3>4. Owned(x.data) \intersect Owned(y.data) = {}
      BY <3>3 DEF NothingDangles
    <3>. QED BY <3>1, <3>2, <3>4
  <2>. QED BY <1>5, <2>2, <2>3 DEF NothingDangles
<1>7. Used' = Used
  <2>1. \A x : x \in Used <=> \E o \in Outstanding : x \in Owned(o.data)
    BY DEF Used, InUse
  <2>2. \A x : x \in Used' <=> \E o \in Outstanding' : x \in Owned(o.data)
    BY <1>5 DEF Used, InUse
  <2>. QED BY <1>0, <1>4, <2>1, <2>2
<1>8. LeakInv'
  BY <1>7 DEF LeakInv
<1>. QED BY <1>0, <1>1, <1>2, <1>3, <1>4, <1>6, <1>8 DEF Outstanding

(* An operation completes on the socket it was submitted on; what it has   *)
(* written on the heap, and told of a client, is its own.                  *)
LEMMA Transferred ==
  ASSUME IInv, NEW op \in inflight, NEW res \in {"ok", "empty", "err"},
         Completed(op, res, op.sock),
         UNCHANGED <<proc, live, req, lost, open, backlog>>,
         res = "ok" => op.opcode # "accept", res = "empty" => op.opcode = "readv",
         text' \in [Block -> TextType],
         \A b \in Block \ Owned(op.data) : text'[b] = text[b],
         request' \in [Client -> Requests \union {"none"}],
         \A f \in Fd : f # op.sock => request'[open[f]] = request[open[f]],
         sent' \in [Client -> {"none", "own", "foreign"}], OwnAnswer',
         res = "ok" /\ op.opcode = "readv" =>
           /\ text'[req[op.data].iov[1]] =
                [of |-> open[op.sock], kind |-> request'[open[op.sock]]]
           /\ request'[open[op.sock]] \in Requests
  PROVE  IInv'
<1>. PICK r : r = [data |-> op.data, res |-> res, sock |-> op.sock]
  OBVIOUS
<1>. USE DEF IInv
<1>0. r.data = op.data /\ r.res = res /\ r.sock = op.sock
  OBVIOUS
<1>1. /\ Outstanding' = (Outstanding \ {op}) \union {r}
      /\ op \in Outstanding /\ r \notin Outstanding
      /\ inflight' = inflight \ {op} /\ cq' = cq \union {r}
      /\ NothingDangles' /\ LeakInv'
  BY Moved
<1>2. TypeOK'
  <2>1. op.data \in Block /\ op.sock \in Fd \union {None}
    BY DEF TypeOK
  <2>2. r \in [data : Block, res : {"ok", "empty", "err"}, sock : Fd \union {None}]
    BY <2>1
  <2>3. text' \in [Block -> [of : Client \union {None},
                             kind : Requests \union Replies \union {"none"}]]
    BY DEF TextType
  <2>4. \A o \in inflight' : <<req'[o.data].type, o.opcode>> \in
         {<<"ACCEPT", "accept">>, <<"READ", "readv">>, <<"WRITE", "writev">>}
    BY <1>1 DEF TypeOK
  <2>5. /\ inflight' \subseteq
             [data : Block, opcode : {"accept", "readv", "writev"}, sock : Fd \union {None}]
        /\ cq' \subseteq
             [data : Block, res : {"ok", "empty", "err"}, sock : Fd \union {None}]
    BY <1>1, <2>2 DEF TypeOK
  <2>. QED BY <2>3, <2>4, <2>5 DEF TypeOK
<1>3. ShapeInv'
  <2>1. \A o \in inflight' : OpShape(o)'
    <3>1. ASSUME NEW o \in inflight PROVE OpShape(o)'
      BY DEF ShapeInv, OpShape, AcceptShape, ReadShape, WriteShape, OnSocket
    <3>. QED BY <1>1, <3>1
  <2>2. ASSUME NEW o \in cq'
        PROVE  /\ o.res = "ok" =>
                    \/ /\ AcceptShape(o.data)'
                       /\ o.sock \in Fd /\ open'[o.sock] \in Client
                    \/ ReadShape(o.data, o.sock)'
                    \/ WriteShape(o.data, o.sock)'
               /\ o.res = "empty" => ReadShape(o.data, o.sock)'
    <3>1. CASE o \in cq
      BY <3>1 DEF ShapeInv, AcceptShape, ReadShape, WriteShape, OnSocket
    <3>2. CASE o = r
      BY <1>0, <3>2 DEF ShapeInv, AcceptShape, ReadShape, WriteShape, OnSocket
    <3>. QED BY <1>1, <3>1, <3>2
  <2>. QED BY <2>1, <2>2 DEF ShapeInv, OpShape
<1>4. SocketInv'
  <2>1. \A f \in lost' : \A o \in Outstanding' : o.sock # f
    BY <1>0, <1>1 DEF SocketInv
  <2>2. \A o, p \in Outstanding' : o.sock = p.sock /\ o.sock # None => o = p
    BY <1>0, <1>1 DEF SocketInv
  <2>3. \A f : (\E o \in Outstanding' : o.sock = f) <=> \E o \in Outstanding : o.sock = f
    BY <1>0, <1>1
  <2>4. SocketsAccounted'
    BY <2>3 DEF SocketInv, SocketsAccounted
  <2>. QED BY <2>1, <2>2, <2>4 DEF SocketInv
<1>5. ASSUME NEW o \in Outstanding, o # op
      PROVE  /\ \A b \in Owned(o.data) : b \in Block => text'[b] = text[b]
             /\ o.sock \in Fd => request'[open[o.sock]] = request[open[o.sock]]
  <2>1. o.sock \in Fd => o.sock # op.sock
    BY <1>1, <1>5, ZeroAssumption DEF SocketInv
  <2>2. Owned(o.data) \intersect Owned(op.data) = {}
    BY <1>1, <1>5 DEF NothingDangles
  <2>. QED BY <2>1, <2>2
<1>6. TextInv'
  <2>1. ASSUME NEW o \in cq', o.res = "ok", req'[o.data].type = "READ"
        PROVE  /\ text'[req'[o.data].iov[1]] =
                    [of |-> open'[o.sock], kind |-> request'[open'[o.sock]]]
               /\ request'[open'[o.sock]] \in Requests
    <3>1. CASE o \in cq
      <4>1. ReadShape(o.data, o.sock) /\ o \in Outstanding /\ o # op
        BY <2>1, <3>1, Apart DEF ShapeInv, AcceptShape, WriteShape, Outstanding
      <4>2. req[o.data].iov \in Seq(Block)
        BY <3>1, Iovecs DEF TypeOK, Iov
      <4>3. 1 \in DOMAIN req[o.data].iov /\ req[o.data].iov[1] \in Block
        BY <4>1, <4>2 DEF ReadShape
      <4>4. req[o.data].iov[1] \in Owned(o.data)
        BY <4>3 DEF Owned, ToSet
      <4>5. text'[req[o.data].iov[1]] = text[req[o.data].iov[1]]
        BY <1>5, <4>1, <4>3, <4>4
      <4>6. request'[open[o.sock]] = request[open[o.sock]]
        BY <1>5, <4>1 DEF ReadShape, OnSocket
      <4>. QED BY <2>1, <3>1, <4>5, <4>6 DEF TextInv
    <3>2. CASE o = r
      <4>1. op.opcode = "readv"
        BY <1>0, <2>1, <3>2 DEF ShapeInv, AcceptShape, WriteShape
      <4>. QED BY <1>0, <2>1, <3>2, <4>1
    <3>. QED BY <1>1, <3>1, <3>2
  <2>2. ASSUME NEW o \in inflight', o.opcode = "writev"
        PROVE  AnswerTo(open[o.sock], ToSet(req[o.data].iov))'
    <3>1. o \in inflight /\ o \in Outstanding /\ o # op
      BY <1>1 DEF Outstanding
    <3>2. WriteShape(o.data, o.sock)
      BY <2>2, <3>1 DEF ShapeInv
    <3>3. request'[open[o.sock]] = request[open[o.sock]]
      BY <1>5, <3>1, <3>2 DEF WriteShape, OnSocket
    <3>4. \A b \in ToSet(req[o.data].iov) : b \in Owned(o.data) /\ b \in Block
      <4>1. Owned(o.data) \subseteq Block
        BY <3>1 DEF NothingDangles, TypeOK
      <4>. QED BY <4>1 DEF Owned
    <3>5. AnswerTo(open[o.sock], ToSet(req[o.data].iov))
      BY <2>2, <3>1 DEF TextInv
    <3>. QED BY <1>5, <3>1, <3>3, <3>4, <3>5 DEF AnswerTo
  <2>. QED BY <2>1, <2>2 DEF TextInv
<1>. QED BY <1>1, <1>2, <1>3, <1>4, <1>6

LEMMA AcceptFailsStep ==
  ASSUME IInv, AcceptFails
  PROVE  IInv'
<1>1. PICK op \in inflight :
        /\ op.opcode = "accept" /\ Completed(op, "err", None)
        /\ UNCHANGED <<proc, open, backlog, heapVars, clientVars, lost>>
  BY DEF AcceptFails
<1>2. op.sock = None
  BY <1>1 DEF IInv, ShapeInv
<1>3. /\ text' \in [Block -> TextType]
      /\ request' \in [Client -> Requests \union {"none"}]
      /\ sent' \in [Client -> {"none", "own", "foreign"}] /\ OwnAnswer'
      /\ UNCHANGED <<proc, live, req, lost, open, backlog, text, request, sent>>
  BY <1>1 DEF IInv, TypeOK, TextType, TextInv, OwnAnswer, heapVars, clientVars
<1>. QED BY <1>1, <1>2, <1>3, Transferred

LEMMA TransferFailsStep ==
  ASSUME IInv, NEW c \in Client, TransferFails(c)
  PROVE  IInv'
<1>1. PICK op \in inflight :
        /\ op.sock # None
        /\ \/ op.opcode = "readv" /\ Completed(op, "empty", op.sock)
           \/ Completed(op, "err", op.sock)
        /\ UNCHANGED <<proc, open, backlog, heapVars, clientVars, lost>>
  BY DEF TransferFails
<1>3. /\ text' \in [Block -> TextType]
      /\ request' \in [Client -> Requests \union {"none"}]
      /\ sent' \in [Client -> {"none", "own", "foreign"}] /\ OwnAnswer'
      /\ UNCHANGED <<proc, live, req, lost, open, backlog, text, request, sent>>
  BY <1>1 DEF IInv, TypeOK, TextType, TextInv, OwnAnswer, heapVars, clientVars
<1>4. CASE op.opcode = "readv" /\ Completed(op, "empty", op.sock)
  BY <1>3, <1>4, Transferred
<1>5. CASE Completed(op, "err", op.sock)
  BY <1>3, <1>5, Transferred
<1>. QED BY <1>1, <1>4, <1>5

LEMMA ReceivedStep ==
  ASSUME IInv, NEW c \in Client, Received(c)
  PROVE  IInv'
<1>1. PICK op \in inflight, kind \in Requests :
        /\ op.opcode = "readv" /\ open[op.sock] = c
        /\ Completed(op, "ok", op.sock)
        /\ text' = [text EXCEPT ![req[op.data].iov[1]] = [of |-> c, kind |-> kind]]
        /\ request' = [request EXCEPT ![c] = kind]
        /\ UNCHANGED <<proc, open, backlog, live, req, sent, lost>>
  BY DEF Received
<1>2. ReadShape(op.data, op.sock)
  BY <1>1 DEF IInv, ShapeInv
<1>3. req[op.data].iov[1] \in Block /\ req[op.data].iov[1] \in Owned(op.data)
  <2>1. req[op.data].iov \in Seq(Block) /\ Len(req[op.data].iov) = 1
    BY <1>2, Iovecs DEF IInv, TypeOK, Iov, ReadShape
  <2>. QED BY <2>1 DEF Owned, ToSet
<1>4. text' \in [Block -> TextType] /\ request' \in [Client -> Requests \union {"none"}]
  <2>1. text \in [Block -> TextType] /\ request \in [Client -> Requests \union {"none"}]
    BY DEF IInv, TypeOK, TextType
  <2>2. [of |-> c, kind |-> kind] \in TextType
    BY DEF TextType
  <2>. QED BY <1>1, <2>1, <2>2
<1>5. \A b \in Block \ Owned(op.data) : text'[b] = text[b]
  BY <1>1, <1>3 DEF IInv, TypeOK
<1>6. /\ text'[req[op.data].iov[1]] = [of |-> open[op.sock], kind |-> kind]
      /\ request'[open[op.sock]] = kind
  BY <1>1, <1>3 DEF IInv, TypeOK
<1>7. \A f \in Fd : f # op.sock => request'[open[f]] = request[open[f]]
  <2>1. op.sock \in Fd /\ c # None
    BY <1>2, ZeroAssumption DEF ReadShape, OnSocket
  <2>2. \A f \in Fd : f # op.sock => open[f] # c
    BY <1>1, <2>1 DEF IInv, SocketInv
  <2>3. \A x : x # c => request'[x] = request[x]
    BY <1>1 DEF IInv, TypeOK
  <2>. QED BY <2>2, <2>3
<1>8. sent' \in [Client -> {"none", "own", "foreign"}] /\ OwnAnswer'
  BY <1>1 DEF IInv, TypeOK, TextInv, OwnAnswer
<1>. QED BY <1>1, <1>4, <1>5, <1>6, <1>7, <1>8, Transferred

LEMMA WrittenStep ==
  ASSUME IInv, NEW c \in Client, Written(c)
  PROVE  IInv'
<1>1. PICK op \in inflight :
        /\ op.opcode = "writev" /\ open[op.sock] = c
        /\ Completed(op, "ok", op.sock)
        /\ LET told == {text[b] : b \in ToSet(req[op.data].iov)}
               own == \E r \in replies(request[c]) : told = {[of |-> c, kind |-> r]}
           IN  sent' = [sent EXCEPT ![c] = IF own THEN "own" ELSE "foreign"]
        /\ request' = [request EXCEPT ![c] = "none"]
        /\ UNCHANGED <<proc, open, backlog, heapVars, lost>>
  BY DEF Written
<1>2. WriteShape(op.data, op.sock)
  BY <1>1 DEF IInv, ShapeInv
<1>3. ToSet(req[op.data].iov) # {}
  <2>1. req[op.data].iov \in Seq(Block) /\ Len(req[op.data].iov) # 0
    BY <1>2, Iovecs DEF IInv, TypeOK, Iov, WriteShape
  <2>2. 1 \in DOMAIN req[op.data].iov
    BY <2>1
  <2>. QED BY <2>2 DEF ToSet
<1>4. \E r \in replies(request[c]) :
        {text[b] : b \in ToSet(req[op.data].iov)} = {[of |-> c, kind |-> r]}
  <2>1. PICK r \in replies(request[c]) :
          \A b \in ToSet(req[op.data].iov) : text[b] = [of |-> c, kind |-> r]
    BY <1>1 DEF IInv, TextInv, AnswerTo
  <2>. QED BY <1>3, <2>1
<1>5. sent' = [sent EXCEPT ![c] = "own"]
  BY <1>1, <1>4
<1>6. sent' \in [Client -> {"none", "own", "foreign"}] /\ OwnAnswer'
  BY <1>5 DEF IInv, TypeOK, TextInv, OwnAnswer
<1>7. \A f \in Fd : f # op.sock => request'[open[f]] = request[open[f]]
  <2>1. op.sock \in Fd /\ c # None
    BY <1>2, ZeroAssumption DEF WriteShape, OnSocket
  <2>2. \A f \in Fd : f # op.sock => open[f] # c
    BY <1>1, <2>1 DEF IInv, SocketInv
  <2>3. \A x : x # c => request'[x] = request[x]
    BY <1>1 DEF IInv, TypeOK
  <2>. QED BY <2>2, <2>3
<1>8. /\ text' \in [Block -> TextType]
      /\ request' \in [Client -> Requests \union {"none"}]
      /\ UNCHANGED <<proc, live, req, lost, open, backlog, text>>
  BY <1>1 DEF IInv, TypeOK, TextType, heapVars
<1>. QED BY <1>1, <1>6, <1>7, <1>8, Transferred

(* The accept's completion says which descriptor it is: one that was free, *)
(* so that nothing was outstanding on it, and for a client that is new.    *)
LEMMA AcceptedStep ==
  ASSUME IInv, NEW c \in Client, Accepted(c)
  PROVE  IInv'
<1>. USE DEF IInv
<1>0. PICK op \in inflight, f \in Fd :
        /\ op.opcode = "accept" /\ c \in backlog /\ open[f] = None
        /\ Completed(op, "ok", f)
        /\ open' = [open EXCEPT ![f] = c] /\ backlog' = backlog \ {c}
        /\ UNCHANGED <<proc, heapVars, clientVars, lost>>
  BY DEF Accepted
<1>. PICK r : r = [data |-> op.data, res |-> "ok", sock |-> f]
  OBVIOUS
<1>r. r.data = op.data /\ r.res = "ok" /\ r.sock = f
  OBVIOUS
<1>u. UNCHANGED <<proc, live, req, text, request, sent, lost>>
  BY <1>0 DEF heapVars, clientVars
<1>1. /\ Outstanding' = (Outstanding \ {op}) \union {r}
      /\ op \in Outstanding /\ r \notin Outstanding
      /\ inflight' = inflight \ {op} /\ cq' = cq \union {r}
      /\ NothingDangles' /\ LeakInv'
  BY <1>0, <1>u, Moved
<1>2. AcceptShape(op.data) /\ op.sock = None
  BY <1>0 DEF ShapeInv
<1>3. f # None /\ f \notin lost /\ \A o \in Outstanding : o.sock # f
  BY <1>0, ZeroAssumption DEF SocketInv, SocketsAccounted
<1>4. open'[f] = c /\ \A g : g # f => open'[g] = open[g]
  BY <1>0 DEF TypeOK
<1>5. TypeOK'
  <2>1. op.data \in Block
    BY DEF TypeOK
  <2>2. r \in [data : Block, res : {"ok", "empty", "err"}, sock : Fd \union {None}]
    BY <2>1
  <2>3. open' \in [Fd -> Client \union {None}] /\ backlog' \subseteq Client
    BY <1>0 DEF TypeOK
  <2>4. \A o \in inflight' : <<req'[o.data].type, o.opcode>> \in
         {<<"ACCEPT", "accept">>, <<"READ", "readv">>, <<"WRITE", "writev">>}
    BY <1>1, <1>u DEF TypeOK
  <2>5. /\ inflight' \subseteq
             [data : Block, opcode : {"accept", "readv", "writev"}, sock : Fd \union {None}]
        /\ cq' \subseteq
             [data : Block, res : {"ok", "empty", "err"}, sock : Fd \union {None}]
    BY <1>1, <2>2 DEF TypeOK
  <2>. QED BY <1>u, <2>3, <2>4, <2>5 DEF TypeOK
<1>6. ASSUME NEW o \in Outstanding
      PROVE  open'[o.sock] = open[o.sock]
  BY <1>3, <1>4
<1>7. ShapeInv'
  <2>1. \A o \in inflight' : OpShape(o)'
    <3>1. ASSUME NEW o \in inflight PROVE OpShape(o)'
      <4>1. open'[o.sock] = open[o.sock]
        BY <1>6 DEF Outstanding
      <4>. QED BY <1>u, <4>1 DEF ShapeInv, OpShape, AcceptShape, ReadShape, WriteShape, OnSocket
    <3>. QED BY <1>1, <3>1
  <2>2. ASSUME NEW o \in cq'
        PROVE  /\ o.res = "ok" =>
                    \/ /\ AcceptShape(o.data)'
                       /\ o.sock \in Fd /\ open'[o.sock] \in Client
                    \/ ReadShape(o.data, o.sock)'
                    \/ WriteShape(o.data, o.sock)'
               /\ o.res = "empty" => ReadShape(o.data, o.sock)'
    <3>1. CASE o \in cq
      <4>1. open'[o.sock] = open[o.sock]
        BY <1>6, <3>1 DEF Outstanding
      <4>. QED BY <1>u, <3>1, <4>1 DEF ShapeInv, AcceptShape, ReadShape, WriteShape, OnSocket
    <3>2. CASE o = r
      BY <1>2, <1>4, <1>r, <1>u, <3>2 DEF AcceptShape
    <3>. QED BY <1>1, <3>1, <3>2
  <2>. QED BY <2>1, <2>2 DEF ShapeInv, OpShape
<1>8. SocketInv'
  <2>1. \A g \in lost' : \A o \in Outstanding' : o.sock # g
    BY <1>1, <1>3, <1>r, <1>u DEF SocketInv
  <2>2. \A o, p \in Outstanding' : o.sock = p.sock /\ o.sock # None => o = p
    BY <1>1, <1>3, <1>r DEF SocketInv
  <2>3. ASSUME NEW g \in Fd
        PROVE  open'[g] # None <=> g \in lost' \/ \E o \in Outstanding' : o.sock = g
    <3>0. c # None /\ g # None
      BY ZeroAssumption
    <3>1. CASE g = f
      BY <1>1, <1>4, <1>r, <3>0, <3>1
    <3>2. CASE g # f
      <4>1. (\E o \in Outstanding' : o.sock = g) <=> \E o \in Outstanding : o.sock = g
        BY <1>1, <1>2, <1>r, <3>0, <3>2
      <4>2. open[g] # None <=> g \in lost \/ \E o \in Outstanding : o.sock = g
        BY DEF SocketInv, SocketsAccounted
      <4>. QED BY <1>4, <1>u, <3>2, <4>1, <4>2
    <3>. QED BY <3>1, <3>2
  <2>4. \A g, h \in Fd : open'[g] # None /\ open'[g] = open'[h] => g = h
    <3>1. \A g \in Fd : open[g] # c
      BY <1>0 DEF SocketInv
    <3>. QED BY <1>4, <3>1 DEF SocketInv
  <2>5. \A g \in Fd : open'[g] \notin backlog'
    BY <1>0, <1>4 DEF SocketInv
  <2>. QED BY <2>1, <2>2, <2>3, <2>4, <2>5 DEF SocketInv, SocketsAccounted
<1>9. TextInv'
  <2>1. ASSUME NEW o \in cq', o.res = "ok", req'[o.data].type = "READ"
        PROVE  /\ text'[req'[o.data].iov[1]] =
                    [of |-> open'[o.sock], kind |-> request'[open'[o.sock]]]
               /\ request'[open'[o.sock]] \in Requests
    <3>1. o \in cq
      BY <1>1, <1>2, <1>r, <1>u, <2>1 DEF AcceptShape
    <3>2. open'[o.sock] = open[o.sock]
      BY <1>6, <3>1 DEF Outstanding
    <3>. QED BY <1>u, <2>1, <3>1, <3>2 DEF TextInv
  <2>2. ASSUME NEW o \in inflight', o.opcode = "writev"
        PROVE  AnswerTo(open[o.sock], ToSet(req[o.data].iov))'
    <3>1. o \in inflight /\ open'[o.sock] = open[o.sock]
      BY <1>1, <1>6 DEF Outstanding
    <3>. QED BY <1>u, <2>2, <3>1 DEF TextInv, AnswerTo
  <2>3. OwnAnswer'
    BY <1>u DEF TextInv, OwnAnswer
  <2>. QED BY <2>1, <2>2, <2>3 DEF TextInv
<1>. QED BY <1>1, <1>5, <1>7, <1>8, <1>9

(* An empty read is dropped: two blocks leave the hands of the operations, *)
(* and its socket is nobody's.                                             *)
LEMMA EmptyReadStep ==
  ASSUME IInv, NEW q \in cq, HandleEmptyRead(q)
  PROVE  IInv'
<1>. USE DEF IInv
<1>0. /\ q.res = "empty" /\ cq' = cq \ {q} /\ lost' = lost \union {q.sock}
      /\ UNCHANGED <<proc, inflight, open, backlog, live, req, text, request, sent>>
  BY DEF HandleEmptyRead, Seen, heapVars, clientVars
<1>1. ReadShape(q.data, q.sock) /\ q \in Outstanding
  BY <1>0 DEF ShapeInv, Outstanding
<1>2. q.sock \in Fd /\ q.sock # None /\ q.sock \notin lost
  BY <1>1, ZeroAssumption DEF ReadShape, OnSocket, SocketInv
<1>3. Outstanding' = Outstanding \ {q}
  BY <1>0, Apart DEF Outstanding
<1>4. TypeOK'
  BY <1>0, <1>2 DEF TypeOK
<1>5. \A b : Owned(b)' = Owned(b)
  BY <1>0 DEF Owned
<1>6. NothingDangles'
  BY <1>0, <1>3, <1>5 DEF NothingDangles
<1>7. ShapeInv'
  <2>1. \A op \in inflight' : OpShape(op)'
    BY <1>0 DEF ShapeInv, OpShape, AcceptShape, ReadShape, WriteShape, OnSocket
  <2>2. ASSUME NEW o \in cq'
        PROVE  /\ o.res = "ok" =>
                    \/ /\ AcceptShape(o.data)'
                       /\ o.sock \in Fd /\ open'[o.sock] \in Client
                    \/ ReadShape(o.data, o.sock)'
                    \/ WriteShape(o.data, o.sock)'
               /\ o.res = "empty" => ReadShape(o.data, o.sock)'
    BY <1>0 DEF ShapeInv, AcceptShape, ReadShape, WriteShape, OnSocket
  <2>. QED BY <2>1, <2>2 DEF ShapeInv, OpShape
<1>8. SocketInv'
  <2>1. \A o \in Outstanding \ {q} : o.sock # q.sock
    BY <1>1, <1>2 DEF SocketInv
  <2>2. \A f \in lost' : \A o \in Outstanding' : o.sock # f
    BY <1>0, <1>3, <2>1 DEF SocketInv
  <2>3. \A f \in Fd : open'[f] # None <=> f \in lost' \/ \E o \in Outstanding' : o.sock = f
    BY <1>0, <1>1, <1>3 DEF SocketInv, SocketsAccounted
  <2>. QED BY <1>0, <1>3, <2>2, <2>3 DEF SocketInv, SocketsAccounted
<1>9. TextInv'
  BY <1>0 DEF TextInv, OwnAnswer, AnswerTo
<1>10. LeakInv'
  <2>1. live' \ Used' = (live \ Used) \union Owned(q.data)
    <3>1. \A x : x \in Used <=> \E o \in Outstanding : x \in Owned(o.data)
      BY DEF Used, InUse
    <3>2. \A x : x \in Used' <=> \E o \in Outstanding' : x \in Owned(o.data)
      BY <1>5 DEF Used, InUse
    <3>3. Owned(q.data) \subseteq live
      BY <1>1 DEF NothingDangles
    <3>4. \A x \in Owned(q.data) : \A o \in Outstanding \ {q} : x \notin Owned(o.data)
      BY <1>1, OneEach
    <3>. QED BY <1>0, <1>1, <1>3, <3>1, <3>2, <3>3, <3>4
  <2>2. PICK b : Owned(q.data) = {q.data, b} /\ b # q.data
    <3>1. req[q.data].iov \in Seq(Block) /\ Len(req[q.data].iov) = 1
      BY <1>1, Iovecs DEF TypeOK, Iov, ReadShape
    <3>2. ToSet(req[q.data].iov) = {req[q.data].iov[1]}
      BY <3>1 DEF ToSet
    <3>. QED BY <1>1, <3>2 DEF Owned, ReadShape
  <2>3. q.data \notin live \ Used /\ b \notin live \ Used
    BY <1>1, <2>2 DEF Used, InUse
  <2>4. IsFiniteSet(live \ Used)
    <3>1. 1 \in Int /\ BLOCKS \in Int
      BY ZeroAssumption
    <3>2. IsFiniteSet(Block)
      BY <3>1, FS_Interval DEF Block
    <3>3. (live \ Used) \in SUBSET Block
      BY DEF TypeOK
    <3>. QED BY <3>2, <3>3, FS_Subset
  <2>5. live' \ Used' = ((live \ Used) \union {q.data}) \union {b}
    BY <2>1, <2>2
  <2>. DEFINE A == live \ Used
              B == A \union {q.data}
  <2>6. IsFiniteSet(B) /\ Cardinality(B) = Cardinality(A) + 1
    <3>. HIDE DEF A
    <3>1. IsFiniteSet(A) /\ q.data \notin A
      BY <2>3, <2>4 DEF A
    <3>. QED BY <3>1, FS_AddElement
  <2>7. Cardinality(B \union {b}) = Cardinality(B) + 1
    <3>1. b \notin B
      BY <2>2, <2>3
    <3>. HIDE DEF B
    <3>. QED BY <2>6, <3>1, FS_AddElement
  <2>8. IsFiniteSet(lost') /\ Cardinality(lost') = Cardinality(lost) + 1
    <3>1. IsFiniteSet(lost)
      BY DEF LeakInv
    <3>. QED BY <1>0, <1>2, <3>1, FS_AddElement
  <2>9. Cardinality(A) \in Nat /\ Cardinality(lost) \in Nat
    BY <2>4, FS_CardinalityType DEF LeakInv
  <2>10. Cardinality(A) = 2 * Cardinality(lost)
    BY DEF LeakInv
  <2>11. Cardinality(live' \ Used') = Cardinality(A) + 1 + 1
    BY <2>5, <2>6, <2>7
  <2>. HIDE DEF A
  <2>12. Cardinality(live' \ Used') = 2 * (Cardinality(lost) + 1)
    BY <2>9, <2>10, <2>11
  <2>. QED BY <2>8, <2>12 DEF LeakInv
<1>. QED BY <1>4, <1>6, <1>7, <1>8, <1>9, <1>10

LEMMA InitIInv == Init => IInv
<1>. SUFFICES ASSUME Init PROVE IInv
  OBVIOUS
<1>. DEFINE op == Op(1, "accept", None)
<1>0. /\ proc = "up" /\ inflight = {op} /\ cq = {}
      /\ open = [f \in Fd |-> None] /\ backlog = Client
      /\ live = {1} /\ req = [b \in Block |-> IF b = 1 THEN Accept(1) ELSE Blank]
      /\ text = [b \in Block |-> NoText]
      /\ request = [c \in Client |-> "none"] /\ sent = [c \in Client |-> "none"]
      /\ lost = {}
  BY DEF Init
<1>1. 1 \in Block
  BY ZeroAssumption DEF Block
<1>2. op.data = 1 /\ op.opcode = "accept" /\ op.sock = None
      /\ op \in [data : Block, opcode : {"accept", "readv", "writev"}, sock : Fd \union {None}]
  BY <1>1 DEF Op
<1>. HIDE DEF op
<1>3. req[1] = Accept(1) /\ req[1].type = "ACCEPT" /\ req[1].iov = <<>>
  BY <1>0, <1>1 DEF Accept
<1>4. Owned(1) = {1}
  BY <1>3 DEF Owned, ToSet
<1>5. Outstanding = {op} /\ Used = {1}
  BY <1>0, <1>2, <1>4 DEF Outstanding, Used, InUse
<1>6. TypeOK
  <2>1. <<>> \in Iov
    <3>1. <<>> \in Seq(Block) /\ Len(<<>>) = 0 /\ 0 <= IOVS
      BY ZeroAssumption
    <3>. QED BY <3>1, Iovecs
  <2>2. Accept(1) \in ReqType /\ Blank \in ReqType /\ NoText \in TextType
    BY <2>1 DEF Accept, Blank, NoText, ReqType, TextType
  <2>3. req \in [Block -> ReqType] /\ text \in [Block -> TextType]
    BY <1>0, <2>2
  <2>4. /\ req \in [Block -> [type : {"none", "ACCEPT", "READ", "WRITE"},
                        sock : Fd \union {None}, iov : BoundedSeq(Block, IOVS)]]
        /\ text \in [Block -> [of : Client \union {None},
                         kind : Requests \union Replies \union {"none"}]]
    BY <2>3 DEF ReqType, TextType, Iov
  <2>5. open \in [Fd -> Client \union {None}]
    BY <1>0
  <2>. QED BY <1>0, <1>1, <1>2, <1>3, <2>4, <2>5 DEF TypeOK
<1>7. NothingDangles
  BY <1>0, <1>2, <1>4, <1>5 DEF NothingDangles
<1>8. ShapeInv
  BY <1>0, <1>2, <1>3 DEF ShapeInv, AcceptShape
<1>9. SocketInv
  BY <1>0, <1>2, <1>5, ZeroAssumption DEF SocketInv, SocketsAccounted
<1>10. TextInv
  BY <1>0, <1>2 DEF TextInv, OwnAnswer
<1>11. LeakInv
  BY <1>0, <1>5, FS_EmptySet DEF LeakInv
<1>. QED BY <1>6, <1>7, <1>8, <1>9, <1>10, <1>11 DEF IInv

LEMMA StillStep ==
  ASSUME IInv, UNCHANGED <<kernelVars, heapVars, clientVars, lost>>,
         proc' \in {"up", "exit", "crash"}
  PROVE  IInv'
<1>. USE DEF IInv, kernelVars, heapVars, clientVars
<1>1. TypeOK'
  BY DEF TypeOK
<1>2. NothingDangles'
  BY DEF NothingDangles, Outstanding, Owned
<1>3. ShapeInv'
  BY DEF ShapeInv, AcceptShape, ReadShape, WriteShape, OnSocket
<1>4. SocketInv'
  BY DEF SocketInv, SocketsAccounted, Outstanding
<1>5. TextInv'
  <2>1. \A c, bs : AnswerTo(c, bs)' = AnswerTo(c, bs)
    BY DEF AnswerTo
  <2>2. \A op \in inflight : op.opcode = "writev" =>
          AnswerTo(open[op.sock], ToSet(req[op.data].iov))'
    BY <2>1 DEF TextInv, AnswerTo
  <2>. QED BY <2>2 DEF TextInv, OwnAnswer
<1>6. LeakInv'
  BY DEF LeakInv, Used, InUse, Owned, Outstanding
<1>. QED BY <1>1, <1>2, <1>3, <1>4, <1>5, <1>6

LEMMA NextIInv == IInv /\ [Next]_vars => IInv'
<1>. SUFFICES ASSUME IInv, [Next]_vars PROVE IInv'
  OBVIOUS
<1>1. ASSUME NEW q \in cq, Handle(q) PROVE IInv'
  <2>1. CASE AsyncRequestFailed(q) \/ HandleBadRead(q)
    <3>1. UNCHANGED <<kernelVars, heapVars, clientVars, lost>> /\ proc' \in {"exit", "crash"}
      BY <2>1 DEF AsyncRequestFailed, HandleBadRead, Stop
    <3>. QED BY <3>1, StillStep
  <2>2. CASE HandleAccept(q)
    BY <2>2, AcceptStep
  <2>3. CASE HandleEmptyRead(q)
    BY <2>3, EmptyReadStep
  <2>4. CASE HandleRead(q)
    BY <2>4, ReadStep
  <2>5. CASE HandleWrite(q)
    BY <2>5, WriteStep
  <2>. QED BY <1>1, <2>1, <2>2, <2>3, <2>4, <2>5 DEF Handle
<1>2. CASE AcceptFails
  BY <1>2, AcceptFailsStep
<1>3. ASSUME NEW c \in Client,
             Accepted(c) \/ Received(c) \/ TransferFails(c) \/ Written(c)
      PROVE  IInv'
  BY <1>3, AcceptedStep, ReceivedStep, TransferFailsStep, WrittenStep
<1>4. CASE UNCHANGED vars
  <2>1. UNCHANGED <<kernelVars, heapVars, clientVars, lost>> /\ proc' = proc
    BY <1>4 DEF vars
  <2>2. proc' \in {"up", "exit", "crash"}
    BY <2>1 DEF IInv, TypeOK
  <2>. QED BY <2>1, <2>2, StillStep
<1>. QED BY <1>1, <1>2, <1>3, <1>4 DEF Next

--------------------------------------------------------------------------------
(* What each operation owns and says on the heap, in every reachable state *)
(* (uring_server.c:393-429), for any number of connections, descriptors    *)
(* and blocks, and any number of iovecs.                                   *)
THEOREM Invariance == Spec => []IInv
<1>. QED BY InitIInv, NextIInv, PTL DEF Spec

(* Every variable keeps its type, and the event type of a request block    *)
(* says what the operation is (uring_server.c:404-426).                    *)
THEOREM TypeCorrect == Spec => []TypeOK
<1>1. IInv => TypeOK
  BY DEF IInv
<1>. QED BY <1>1, Invariance, PTL

(* No block is freed while an operation uses it, and none is used by two.  *)
THEOREM NothingDanglesHolds == Spec => []NothingDangles
<1>1. IInv => NothingDangles
  BY DEF IInv
<1>. QED BY <1>1, Invariance, PTL

(* Only the two blocks of an empty read are never freed.                   *)
THEOREM NothingElseLeaksHolds == Spec => []NothingElseLeaks
<1>1. IInv => NothingElseLeaks
  <2>. SUFFICES ASSUME IInv PROVE Cardinality(live) = Cardinality(Used) + 2 * Cardinality(lost)
    BY DEF NothingElseLeaks, Used
  <2>1. 1 \in Int /\ BLOCKS \in Int
    BY ZeroAssumption
  <2>2. IsFiniteSet(Block)
    BY <2>1, FS_Interval DEF Block
  <2>3. live \in SUBSET Block
    BY DEF IInv, TypeOK
  <2>4. IsFiniteSet(live)
    BY <2>2, <2>3, FS_Subset
  <2>5. Used \in SUBSET live
    BY DEF IInv, NothingDangles, Used, InUse
  <2>6. live \intersect Used = Used
    BY <2>5
  <2>7. Cardinality(live \ Used) = Cardinality(live) - Cardinality(Used)
    <3>. HIDE DEF Used
    <3>. QED BY <2>4, <2>6, FS_Difference
  <2>8. Cardinality(live) \in Nat
    BY <2>4, FS_CardinalityType
  <2>9. Cardinality(Used) \in Nat
    <3>. HIDE DEF Used
    <3>1. IsFiniteSet(Used)
      BY <2>4, <2>5, FS_Subset
    <3>. QED BY <3>1, FS_CardinalityType
  <2>10. Cardinality(live \ Used) = 2 * Cardinality(lost) /\ Cardinality(lost) \in Nat
    BY FS_CardinalityType DEF IInv, LeakInv
  <2>. HIDE DEF Used
  <2>. QED BY <2>7, <2>8, <2>9, <2>10
<1>. QED BY <1>1, Invariance, PTL

(* A socket is open exactly as long as something is outstanding on it, or  *)
(* an empty read has left it behind.                                       *)
THEOREM SocketsAccountedHolds == Spec => []SocketsAccounted
<1>1. IInv => SocketsAccounted
  BY DEF IInv, SocketInv
<1>. QED BY <1>1, Invariance, PTL

(* No client gets an answer that is not, all of it, for its own request.   *)
THEOREM OwnAnswerHolds == Spec => []OwnAnswer
<1>1. IInv => OwnAnswer
  BY DEF IInv, TextInv
<1>. QED BY <1>1, Invariance, PTL

================================================================================
