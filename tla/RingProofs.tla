------------------------------- MODULE RingProofs -------------------------------
(***************************************************************************)
(* How the steps of the ring change the number of operations outstanding   *)
(* of a kind.  The proofs about every server that uses the ring cite these.*)
(***************************************************************************)
EXTENDS RingInv, FiniteSetTheorems, TLAPS

--------------------------------------------------------------------------------
(* The completion that is posted, as the one element that is new.          *)
LEMMA Posted ==
  ASSUME NEW op, NEW res, NEW out, Post(op, res, out)
  PROVE  \E r : cq' = cq \union {r} /\ r.op = op /\ r.res = res /\ r.out = out
<1>. DEFINE r == [op |-> op, res |-> res, out |-> out]
<1>1. cq' = cq \union {r} /\ r.op = op /\ r.res = res /\ r.out = out
  BY DEF Post, Cqe
<1>. QED BY <1>1

--------------------------------------------------------------------------------
(* How each movement of the ring changes the number of operations of a     *)
(* kind E outstanding.                                                     *)

(* Consuming an SQE moves it from the queue to the operations in flight.   *)
LEMMA ConsumeCounts ==
  ASSUME NEW E, RingTypeOK, sq # <<>>,
         sq' = Tail(sq), inflight' = inflight \union {Head(sq)}, cq' = cq
  PROVE  /\ AtMostOne(E) => AtMostOne(E)'
         /\ Some(E)' <=> Some(E)
<1>1. /\ Len(sq) \in Nat \ {0} /\ DOMAIN sq = 1 .. Len(sq)
      /\ DOMAIN sq' = 1 .. (Len(sq) - 1) /\ Head(sq) = sq[1]
      /\ \A i \in DOMAIN sq' : i + 1 \in DOMAIN sq /\ sq'[i] = sq[i + 1]
  BY DEF RingTypeOK
<1>2. \A j \in DOMAIN sq : j = 1 \/ (j - 1 \in DOMAIN sq' /\ sq'[j - 1] = sq[j])
  BY <1>1
<1>3. ASSUME AtMostOne(E) PROVE AtMostOne(E)'
  BY <1>1, <1>3 DEF AtMostOne
<1>4. Some(E)' <=> Some(E)
  BY <1>1, <1>2 DEF Some
<1>. QED BY <1>3, <1>4

(* Consuming an SQE of another kind, which is carried out on the spot, and *)
(* whose completion is of another kind too.                                *)
LEMMA ProvideCounts ==
  ASSUME NEW E, RingTypeOK, sq # <<>>, Head(sq) \notin E, NEW r,
         r.op \notin E, sq' = Tail(sq), inflight' = inflight, cq' = cq \union {r}
  PROVE  /\ AtMostOne(E) => AtMostOne(E)'
         /\ Some(E)' <=> Some(E)
<1>1. /\ Len(sq) \in Nat \ {0} /\ DOMAIN sq = 1 .. Len(sq)
      /\ DOMAIN sq' = 1 .. (Len(sq) - 1) /\ Head(sq) = sq[1]
      /\ \A i \in DOMAIN sq' : i + 1 \in DOMAIN sq /\ sq'[i] = sq[i + 1]
  BY DEF RingTypeOK
<1>2. \A j \in DOMAIN sq : j = 1 \/ (j - 1 \in DOMAIN sq' /\ sq'[j - 1] = sq[j])
  BY <1>1
<1>3. ASSUME AtMostOne(E) PROVE AtMostOne(E)'
  BY <1>1, <1>3 DEF AtMostOne
<1>4. Some(E)' <=> Some(E)
  BY <1>1, <1>2 DEF Some
<1>. QED BY <1>3, <1>4

(* A completion moves an operation from those in flight to the CQ.         *)
LEMMA CompleteCounts ==
  ASSUME NEW E, NEW op \in inflight, NEW r, r.op = op,
         sq' = sq, inflight' = inflight \ {op}, cq' = cq \union {r}
  PROVE  /\ AtMostOne(E) => AtMostOne(E)'
         /\ Some(E)' <=> Some(E)
<1>1. ASSUME AtMostOne(E) PROVE AtMostOne(E)'
  BY <1>1 DEF AtMostOne
<1>2. Some(E)' <=> Some(E)
  BY DEF Some
<1>. QED BY <1>1, <1>2

(* Handling a CQE: q is seen and n SQEs are filled in behind those of sq.  *)
Handled(q, n) ==
  /\ q \in cq /\ cq' = cq \ {q} /\ inflight' = inflight
  /\ DOMAIN sq' = 1 .. (Len(sq) + n)
  /\ \A i \in DOMAIN sq : sq'[i] = sq[i]

New(n) == (Len(sq) + 1) .. (Len(sq) + n)

(* The operation seen and those filled in are of another kind.             *)
LEMMA HandledCounts ==
  ASSUME NEW E, RingTypeOK, NEW q, NEW n \in Nat, Handled(q, n),
         q.op \notin E, \A k \in New(n) : sq'[k] \notin E
  PROVE  /\ AtMostOne(E) => AtMostOne(E)'
         /\ Some(E)' <=> Some(E)
<1>1. Len(sq) \in Nat /\ DOMAIN sq = 1 .. Len(sq)
  BY DEF RingTypeOK
<1>2. \A i \in DOMAIN sq' : sq'[i] \in E => i \in DOMAIN sq /\ sq'[i] = sq[i]
  BY <1>1 DEF Handled, New
<1>3. \A i \in DOMAIN sq : i \in DOMAIN sq'
  BY <1>1 DEF Handled
<1>4. ASSUME AtMostOne(E) PROVE AtMostOne(E)'
  BY <1>2, <1>4 DEF AtMostOne, Handled
<1>5. Some(E)' <=> Some(E)
  BY <1>2, <1>3 DEF Some, Handled
<1>. QED BY <1>4, <1>5

(* The only operation of kind E is seen and none is filled in.             *)
LEMMA LastSeen ==
  ASSUME NEW E, RingTypeOK, NEW q, NEW n \in Nat, Handled(q, n),
         q.op \in E, One(E), \A k \in New(n) : sq'[k] \notin E
  PROVE  ~Some(E)'
<1>1. Len(sq) \in Nat /\ DOMAIN sq = 1 .. Len(sq)
  BY DEF RingTypeOK
<1>2. \A i \in DOMAIN sq' : sq'[i] \in E => i \in DOMAIN sq /\ sq'[i] = sq[i]
  BY <1>1 DEF Handled, New
<1>. QED BY <1>2 DEF Some, One, AtMostOne, Handled

(* One operation of kind E is filled in where there is none, or only the   *)
(* one that is seen.                                                       *)
LEMMA OneFilledIn ==
  ASSUME NEW E, RingTypeOK, NEW q, NEW n \in Nat, Handled(q, n),
         ~Some(E) \/ (q.op \in E /\ One(E)),
         NEW k \in New(n), sq'[k] \in E,
         \A j \in New(n) : sq'[j] \in E => j = k
  PROVE  One(E)'
<1>1. Len(sq) \in Nat /\ DOMAIN sq = 1 .. Len(sq) /\ k \in DOMAIN sq'
  BY DEF RingTypeOK, Handled, New
<1>2. \A i \in DOMAIN sq' : sq'[i] \in E => i = k
  BY <1>1 DEF Handled, New, Some, One, AtMostOne
<1>3. (\A e \in inflight : e \notin E) /\ \A r \in cq' : r.op \notin E
  BY DEF Handled, Some, One, AtMostOne
<1>4. Some(E)'
  BY <1>1 DEF Some
<1>5. AtMostOne(E)'
  BY <1>2, <1>3 DEF AtMostOne, Handled
<1>. QED BY <1>4, <1>5 DEF One

--------------------------------------------------------------------------------
(* Tail and Head, index by index.                                          *)
LEMMA TailFacts ==
  ASSUME RingTypeOK, sq # <<>>
  PROVE  /\ Len(sq) \in Nat \ {0} /\ DOMAIN sq = 1 .. Len(sq)
         /\ Head(sq) = sq[1] /\ 1 \in DOMAIN sq /\ Head(sq) \in SqeType
         /\ Tail(sq) \in Seq(SqeType)
         /\ DOMAIN Tail(sq) = 1 .. (Len(sq) - 1)
         /\ \A i \in DOMAIN Tail(sq) : i + 1 \in DOMAIN sq /\ Tail(sq)[i] = sq[i + 1]
         /\ \A j \in DOMAIN sq : j = 1 \/ (j - 1 \in DOMAIN Tail(sq) /\ Tail(sq)[j - 1] = sq[j])
<1>1. /\ Len(sq) \in Nat \ {0} /\ DOMAIN sq = 1 .. Len(sq)
      /\ Head(sq) = sq[1] /\ 1 \in DOMAIN sq
      /\ Tail(sq) \in Seq(SqeType)
      /\ DOMAIN Tail(sq) = 1 .. (Len(sq) - 1)
      /\ \A i \in DOMAIN Tail(sq) : i + 1 \in DOMAIN sq /\ Tail(sq)[i] = sq[i + 1]
  BY DEF RingTypeOK
<1>2. Head(sq) \in SqeType
  BY <1>1 DEF RingTypeOK
<1>. QED BY <1>1, <1>2

(* The SQEs that were filled in, and where.                                *)
LEMMA AppendFacts ==
  ASSUME RingTypeOK, NEW s \in SqeType, sq' = Append(sq, s)
  PROVE  /\ sq' \in Seq(SqeType) /\ Len(sq) \in Nat /\ DOMAIN sq = 1 .. Len(sq)
         /\ DOMAIN sq' = 1 .. (Len(sq) + 1)
         /\ \A i \in DOMAIN sq : sq'[i] = sq[i]
         /\ sq'[Len(sq) + 1] = s
         /\ New(1) = {Len(sq) + 1}
BY DEF RingTypeOK, New

(* Two of them.                                                            *)
LEMMA TwoAppendFacts ==
  ASSUME RingTypeOK, NEW s \in SqeType, NEW u \in SqeType,
         sq' = Append(Append(sq, s), u)
  PROVE  /\ sq' \in Seq(SqeType) /\ Len(sq) \in Nat /\ DOMAIN sq = 1 .. Len(sq)
         /\ DOMAIN sq' = 1 .. (Len(sq) + 2)
         /\ \A i \in DOMAIN sq : sq'[i] = sq[i]
         /\ sq'[Len(sq) + 1] = s /\ sq'[Len(sq) + 2] = u
         /\ New(2) = {Len(sq) + 1, Len(sq) + 2}
BY DEF RingTypeOK, New

(* Any number of them.                                                     *)
LEMMA ConcatFacts ==
  ASSUME RingTypeOK, NEW s \in Seq(SqeType), sq' = sq \o s
  PROVE  /\ sq' \in Seq(SqeType) /\ Len(sq) \in Nat /\ Len(s) \in Nat
         /\ DOMAIN sq = 1 .. Len(sq) /\ DOMAIN sq' = 1 .. (Len(sq) + Len(s))
         /\ \A i \in DOMAIN sq : sq'[i] = sq[i]
         /\ \A k \in New(Len(s)) : k - Len(sq) \in DOMAIN s /\ sq'[k] = s[k - Len(sq)]
         /\ \A j \in DOMAIN s : Len(sq) + j \in New(Len(s)) /\ sq'[Len(sq) + j] = s[j]
<1>1. Len(sq) \in Nat /\ Len(s) \in Nat /\ DOMAIN sq = 1 .. Len(sq) /\ DOMAIN s = 1 .. Len(s)
  BY DEF RingTypeOK
<1>2. /\ sq' \in Seq(SqeType) /\ DOMAIN sq' = 1 .. (Len(sq) + Len(s))
      /\ \A i \in 1 .. (Len(sq) + Len(s)) :
           sq'[i] = IF i <= Len(sq) THEN sq[i] ELSE s[i - Len(sq)]
  BY DEF RingTypeOK
<1>. QED BY <1>1, <1>2 DEF New

--------------------------------------------------------------------------------
(* The queue has as many SQEs as indices, and two more than without two.   *)
LEMMA Indices ==
  ASSUME RingTypeOK
  PROVE  /\ Len(sq) \in Nat /\ IsFiniteSet(DOMAIN sq)
         /\ Cardinality(DOMAIN sq) = Len(sq)
<1>1. Len(sq) \in Nat /\ DOMAIN sq = 1 .. Len(sq)
  BY DEF RingTypeOK
<1>2. 1 \in Int /\ Len(sq) \in Int
  BY <1>1
<1>3. /\ IsFiniteSet(1 .. Len(sq))
      /\ Cardinality(1 .. Len(sq)) = IF 1 > Len(sq) THEN 0 ELSE Len(sq) - 1 + 1
  BY <1>2, FS_Interval, Zenon
<1>4. (IF 1 > Len(sq) THEN 0 ELSE Len(sq) - 1 + 1) = Len(sq)
  BY <1>1
<1>. QED BY <1>1, <1>3, <1>4

LEMMA OneLess ==
  ASSUME NEW S, IsFiniteSet(S), NEW x
  PROVE  /\ IsFiniteSet(S \ {x}) /\ Cardinality(S \ {x}) \in Nat
         /\ Cardinality(S) \in Nat /\ Cardinality(S) <= Cardinality(S \ {x}) + 1
<1>1. IsFiniteSet(S \ {x})
  BY FS_RemoveElement
<1>2. Cardinality(S \ {x}) = IF x \in S THEN Cardinality(S) - 1 ELSE Cardinality(S)
  BY FS_RemoveElement
<1>3. Cardinality(S) \in Nat /\ Cardinality(S \ {x}) \in Nat
  BY <1>1, FS_CardinalityType
<1>. QED BY <1>1, <1>2, <1>3

LEMMA AllButTwo ==
  ASSUME RingTypeOK, NEW a, NEW r
  PROVE  /\ Cardinality(DOMAIN sq \ {a, r}) \in Nat
         /\ Len(sq) \in Nat /\ Len(sq) <= Cardinality(DOMAIN sq \ {a, r}) + 2
<1> DEFINE E == DOMAIN sq \ {a}
           D == E \ {r}
<1>1. IsFiniteSet(DOMAIN sq) /\ Cardinality(DOMAIN sq) = Len(sq) /\ Len(sq) \in Nat
  BY Indices
<1>2. IsFiniteSet(E) /\ Cardinality(E) \in Nat /\ Len(sq) <= Cardinality(E) + 1
  BY <1>1, OneLess
<1>3. Cardinality(D) \in Nat /\ Cardinality(E) <= Cardinality(D) + 1
  BY <1>2, OneLess
<1>4. D = DOMAIN sq \ {a, r}
  OBVIOUS
<1>. HIDE DEF D
<1>. QED BY <1>1, <1>2, <1>3, <1>4

================================================================================
