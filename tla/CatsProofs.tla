------------------------------- MODULE CatsProofs -------------------------------
(***************************************************************************)
(* Proofs about Cats, for files of any size and any number of them, and    *)
(* rings of any size: the iovecs that are filled in have been allocated,   *)
(* and each read is where CatsInv says, until it is printed.               *)
(*                                                                         *)
(* First the iovecs, then the counters of a ring and what lies between two *)
(* of them, then one lemma for each action, and the theorems at the end.   *)
(***************************************************************************)
EXTENDS CatsInv, TLAPS

(* A size that is an int survives the cast, and then as many iovecs are    *)
(* allocated as are filled in: the quotient that is rounded up by hand     *)
(* (uring_cat.c:267-268) is the number of turns of the loop (:283-299).    *)
LEMMA CastKeepsInt ==
  ASSUME NEW n \in Nat, n < INT
  PROVE  ToInt(n) = n
<1>1. INT \in Nat \ {0} BY CatAssumption
<1>2. (n + INT) % (2 * INT) = n + INT BY <1>1
<1> QED BY <1>1, <1>2 DEF ToInt

LEMMA RoundedUp ==
  ASSUME NEW n \in Nat, NEW b \in Nat \ {0}
  PROVE  (n + b - 1) \div b = (n \div b) + (IF n % b = 0 THEN 0 ELSE 1)
<1>1. CASE n % b = 0
  <2>1. (n + b - 1) \div b = n \div b BY <1>1
  <2> QED BY <1>1, <2>1
<1>2. CASE n % b # 0
  <2>1. (n + b - 1) \div b = (n \div b) + 1 BY <1>2
  <2> QED BY <1>2, <2>1
<1> QED BY <1>1, <1>2

LEMMA IntFits ==
  ASSUME NEW n \in Nat, n < INT
  PROVE  ~Overruns(n)
<1>1. BLOCK_SZ \in Nat \ {0} BY CatAssumption
<1>2. n # NotRegular BY DEF NotRegular
<1>3. blocks(n) = (n \div BLOCK_SZ) + (IF n % BLOCK_SZ = 0 THEN 0 ELSE 1)
  BY CastKeepsInt DEF blocks, Quotient
<1>4. filled(n) = blocks(n) BY <1>1, <1>2, <1>3, RoundedUp DEF filled
<1>5. blocks(n) \in Int BY <1>1, <1>3
<1> QED BY <1>4, <1>5 DEF Overruns

(* What is not a regular file takes one iovec, and has one.                *)
LEMMA NotRegularFits == ~Overruns(NotRegular)
<1>1. INT \in Nat \ {0} /\ BLOCK_SZ \in Nat \ {0, 1} BY CatAssumption
<1>2. ToInt(-1) = -1
  <2>1. (-1 + INT) % (2 * INT) = INT - 1 BY <1>1
  <2> QED BY <1>1, <2>1 DEF ToInt
<1>3. Quotient(-1, BLOCK_SZ) = 0
  <2>1. 1 \div BLOCK_SZ = 0 BY <1>1
  <2> QED BY <2>1 DEF Quotient
<1>4. (-1) % BLOCK_SZ # 0
  <2>1. (-1) % BLOCK_SZ = BLOCK_SZ - 1 BY <1>1
  <2> QED BY <1>1, <2>1
<1>5. blocks(-1) = 1 BY <1>2, <1>3, <1>4 DEF blocks
<1> QED BY <1>5 DEF Overruns, filled, NotRegular

--------------------------------------------------------------------------------
(* The program is overrun only in the step that has just recorded the size *)
(* of the file it is at.                                                   *)
SizeInv == size \in [File -> Int] /\ IovecsFit

LEMMA InitSizeInv == Init => SizeInv
BY DEF Init, SizeInv, IovecsFit, Unknown

(* Both programs ask for the size of the file they are at.                 *)
LEMMA Sized ==
  ASSUME SizeInv, arg \in File,
         NEW n \in Sizes \union {NotRegular},
         size' = [size EXCEPT ![arg] = n],
         proc' = "overrun" => Overruns(n)
  PROVE  SizeInv'
<1>1. n \in Int /\ (n \in Nat \/ n = NotRegular) BY CatAssumption DEF NotRegular
<1>2. size' \in [File -> Int] BY <1>1 DEF SizeInv
<1>3. ASSUME proc' = "overrun" PROVE n >= INT
  <2>1. n # NotRegular BY <1>3, NotRegularFits
  <2>2. n \in Nat BY <1>1, <2>1
  <2>3. ~(n < INT) BY <1>3, <2>2, IntFits
  <2> QED BY <2>2, <2>3, CatAssumption
<1>4. size'[arg] = n BY DEF SizeInv
<1> QED BY <1>2, <1>3, <1>4 DEF SizeInv, IovecsFit

LEMMA Unsized ==
  ASSUME SizeInv, UNCHANGED size, proc' # "overrun" \/ UNCHANGED proc
  PROVE  SizeInv'
BY DEF SizeInv, IovecsFit, File

LEMMA NextSizeInv == SizeInv /\ [CatNext]_vars => SizeInv'
<1> SUFFICES ASSUME SizeInv, [CatNext]_vars PROVE SizeInv'
  OBVIOUS
<1>1. CASE app_setup_uring BY <1>1, Unsized DEF app_setup_uring, Exit
<1>2. CASE submit_to_sq
  <2>1. CASE Exit("failed") /\ UNCHANGED size BY <2>1, Unsized DEF Exit
  <2>2. ASSUME NEW n \in Sizes \union {NotRegular}, size' = [size EXCEPT ![arg] = n],
               IF n = NotRegular \/ NoMemory(n) THEN Exit("failed")
               ELSE IF Overruns(n) THEN Exit("overrun") ELSE UNCHANGED proc
        PROVE  SizeInv'
    <3>1. proc' = "overrun" => Overruns(n) BY <1>2, <2>2 DEF submit_to_sq, Exit
    <3> QED BY <1>2, <2>2, <3>1, Sized DEF submit_to_sq
  <2> QED BY <1>2, <2>1, <2>2 DEF submit_to_sq
<1>3. CASE EnterReturns BY <1>3, Unsized DEF EnterReturns, Reap
<1>4. CASE EnterInterrupted BY <1>4, Unsized DEF EnterInterrupted, Reap
<1>5. CASE EnterFails BY <1>5, Unsized DEF EnterFails, Exit
<1>6. CASE read_from_cq BY <1>6, Unsized DEF read_from_cq
<1>7. CASE EndOfCq BY <1>7, Unsized DEF EndOfCq
<1>8. CASE io_uring_queue_init BY <1>8, Unsized DEF io_uring_queue_init
<1>9. CASE submit_read_request
  <2>1. CASE Exit("failed") /\ UNCHANGED size BY <2>1, Unsized DEF Exit
  <2>2. ASSUME NEW n \in Sizes \union {NotRegular}, size' = [size EXCEPT ![arg] = n],
               IF NoMemory(n) \/ (NoSqe /\ ~Overruns(n)) THEN Exit("null")
               ELSE IF Overruns(n) THEN Exit("overrun") ELSE UNCHANGED proc
        PROVE  SizeInv'
    <3>1. proc' = "overrun" => Overruns(n) BY <1>9, <2>2 DEF submit_read_request, Exit
    <3> QED BY <1>9, <2>2, <3>1, Sized DEF submit_read_request
  <2> QED BY <1>9, <2>1, <2>2 DEF submit_read_request
<1>10. CASE Submits BY <1>10, Unsized DEF Submits
<1>11. CASE get_completion_and_print BY <1>11, Unsized DEF get_completion_and_print
<1>12. CASE WaitInterrupted BY <1>12, Unsized DEF WaitInterrupted
<1>13. CASE Return BY <1>13, Unsized DEF Return, Exit
<1>14. CASE Consume BY <1>14, Unsized DEF Consume
<1>15. CASE FlushOverflow BY <1>15, Unsized DEF FlushOverflow
<1>16. ASSUME NEW f \in File, Complete(f) PROVE SizeInv'
  BY <1>16, Unsized DEF Complete
<1>17. CASE UNCHANGED vars BY <1>17, Unsized DEF vars
<1> QED
  BY <1>1, <1>2, <1>3, <1>4, <1>5, <1>6, <1>7, <1>8, <1>9, <1>10, <1>11, <1>12,
     <1>13, <1>14, <1>15, <1>16, <1>17
  DEF CatNext, UringCatSteps, UringCatFaults, LiburingCatSteps

(* The iovecs of a file whose size is an int fit into their block,         *)
(* whatever the size of a block, the width of an int and the files         *)
(* (uring_cat.c:267-299, liburing_cat.c:89-121).                           *)
THEOREM IovecsAlwaysFit == Spec => []IovecsFit
<1>1. Spec => []SizeInv BY InitSizeInv, NextSizeInv, PTL DEF Spec
<1>2. SizeInv => IovecsFit BY DEF SizeInv
<1> QED BY <1>1, <1>2, PTL

--------------------------------------------------------------------------------
(* Counters: dividing by COUNTERS once is enough.                          *)
LEMMA Distance ==
  ASSUME NEW h \in Counter, NEW t \in Counter
  PROVE  (t - h) % COUNTERS = IF t >= h THEN t - h ELSE t - h + COUNTERS
<1>1. COUNTERS \in Nat \ {0} BY CatAssumption
<1>. QED BY <1>1 DEF Counter

LEMMA Incremented ==
  ASSUME NEW n \in Counter
  PROVE  Inc(n) \in Counter /\ Inc(n) = IF n = COUNTERS - 1 THEN 0 ELSE n + 1
<1>1. COUNTERS \in Nat /\ COUNTERS > 1 BY CatAssumption
<1>. QED BY <1>1 DEF Counter, Inc

LEMMA ModSame ==
  ASSUME NEW N \in Nat \ {0}, NEW x \in Int, NEW y \in Int, x % N = y % N,
         x < y
  PROVE  y - x >= N
<1>1. /\ x = N * (x \div N) + (x % N)
      /\ y = N * (y \div N) + (y % N)
      /\ x \div N \in Int /\ y \div N \in Int
  OBVIOUS
<1> DEFINE a == x \div N
           b == y \div N
<1>2. y - x = N * b - N * a /\ a \in Int /\ b \in Int
  BY <1>1
<1>. HIDE DEF a, b
<1>3. y - x = N * (b - a)
  BY <1>2
<1>4. b - a >= 1
  BY <1>2, <1>3
<1>5. N * (b - a) >= N
  BY <1>2, <1>4
<1>. QED BY <1>3, <1>5

LEMMA ModIs ==
  ASSUME NEW N \in Nat \ {0}, NEW k \in Int, NEW r \in 0 .. N - 1
  PROVE  (N * k + r) % N = r
<1> DEFINE y == N * k + r
           a == y \div N
           e == y % N
<1>1. y \in Int /\ a \in Int /\ e \in 0 .. N - 1 /\ y = N * a + e
  OBVIOUS
<1>2. y = N * k + r
  OBVIOUS
<1>. HIDE DEF y, a, e
<1>3. N * (k - a) = e - r
  BY <1>1, <1>2
<1>4. k - a >= 1 => N * (k - a) >= N
  BY <1>1
<1>5. k - a <= -1 => N * (k - a) <= - N
  BY <1>1
<1>6. k = a
  BY <1>1, <1>3, <1>4, <1>5
<1>7. e = r
  BY <1>1, <1>2, <1>6
<1>. QED BY <1>7 DEF e, y

LEMMA ModTurn ==
  ASSUME NEW N \in Nat \ {0}, NEW C \in Nat, C % N = 0, NEW x \in Int
  PROVE  (x + C) % N = x % N
<1> DEFINE q == x \div N
           r == x % N
           m == C \div N
<1>1. /\ q \in Int /\ r \in 0 .. N - 1 /\ x = N * q + r
      /\ m \in Int /\ C = N * m
  OBVIOUS
<1>. HIDE DEF q, m
<1>2. x + C = N * (q + m) + r /\ q + m \in Int
  <2>. HIDE DEF r
  <2>1. r \in Int /\ N * (q + m) = N * q + N * m
    BY <1>1
  <2>. QED BY <1>1, <2>1
<1>3. (N * (q + m) + r) % N = r
  <2>. HIDE DEF r
  <2>. QED BY <1>1, ModIs
<1>. QED BY <1>2, <1>3

(* Two counters less than a turn of the ring away from a third one do not  *)
(* fall on the same slot.                                                  *)
LEMMA SlotsApart ==
  ASSUME NEW N \in Nat \ {0}, N < COUNTERS, COUNTERS % N = 0,
         NEW h \in Counter, NEW p \in Counter, NEW q \in Counter,
         (p - h) % COUNTERS < N, (q - h) % COUNTERS < N, p % N = q % N
  PROVE  p = q
<1>1. COUNTERS \in Nat BY CatAssumption
<1> DEFINE dp == (p - h) % COUNTERS
           dq == (q - h) % COUNTERS
<1>2. /\ dp = IF p >= h THEN p - h ELSE p - h + COUNTERS
      /\ dq = IF q >= h THEN q - h ELSE q - h + COUNTERS
  BY Distance
<1>3. p \in Nat /\ q \in Nat /\ h \in Nat /\ p < COUNTERS /\ q < COUNTERS /\ h < COUNTERS
  BY <1>1 DEF Counter
<1>4. dp \in Int /\ dq \in Int /\ dp >= 0 /\ dq >= 0 /\ dp < N /\ dq < N
  BY <1>1, <1>2, <1>3
<1>5. (p + COUNTERS) % N = p % N /\ (q + COUNTERS) % N = q % N
  <2>1. COUNTERS \in Nat /\ p \in Int /\ q \in Int
    BY <1>1, <1>3
  <2>. QED BY <2>1, ModTurn
<1>6. (h + dp) % N = (h + dq) % N
  <2>1. h + dp = p \/ h + dp = p + COUNTERS
    BY <1>1, <1>2, <1>3
  <2>2. h + dq = q \/ h + dq = q + COUNTERS
    BY <1>1, <1>2, <1>3
  <2>. HIDE DEF dp, dq
  <2>. QED BY <1>5, <2>1, <2>2
<1>. HIDE DEF dp, dq
<1>7. dp = dq
  <2>1. h + dp \in Int /\ h + dq \in Int
    BY <1>3, <1>4
  <2>2. ~(h + dp < h + dq)
    <3>. SUFFICES ASSUME h + dp < h + dq PROVE FALSE
      OBVIOUS
    <3>1. (h + dq) - (h + dp) >= N
      BY <1>6, <2>1, ModSame
    <3>. QED BY <1>3, <1>4, <3>1
  <2>3. ~(h + dq < h + dp)
    <3>. SUFFICES ASSUME h + dq < h + dp PROVE FALSE
      OBVIOUS
    <3>1. (h + dp) - (h + dq) >= N
      BY <1>6, <2>1, ModSame
    <3>. QED BY <1>3, <1>4, <3>1
  <2>. QED BY <1>3, <1>4, <2>2, <2>3
<1>. QED BY <1>1, <1>2, <1>3, <1>7

--------------------------------------------------------------------------------
(* Spans of counters.                                                      *)
LEMMA SpanBasics ==
  ASSUME NEW h \in Counter, NEW t \in Counter
  PROVE  /\ (t - h) % COUNTERS \in 0 .. COUNTERS - 1
         /\ (t - h) % COUNTERS = 0 <=> h = t
         /\ h = t => Span(h, t) = {}
         /\ h # t => h \in Span(h, t)
<1>1. COUNTERS \in Nat \ {0} BY CatAssumption
<1>2. \A p, q \in Counter : (p - q) % COUNTERS = IF p >= q THEN p - q ELSE p - q + COUNTERS
  BY Distance
<1>. QED BY <1>1, <1>2 DEF Span, Counter

LEMMA SpanHead ==
  ASSUME NEW h \in Counter, NEW t \in Counter, h # t
  PROVE  /\ Inc(h) \in Counter
         /\ Span(Inc(h), t) = Span(h, t) \ {h}
         /\ (t - Inc(h)) % COUNTERS = ((t - h) % COUNTERS) - 1
<1>1. COUNTERS \in Nat \ {0} BY CatAssumption
<1>3. Inc(h) \in Counter /\ Inc(h) = IF h = COUNTERS - 1 THEN 0 ELSE h + 1
  BY Incremented
<1>. PICK g \in Counter : g = Inc(h)
  BY <1>3
<1>4. (t - g) % COUNTERS = ((t - h) % COUNTERS) - 1
  <2>1. /\ (t - g) % COUNTERS = IF t >= g THEN t - g ELSE t - g + COUNTERS
        /\ (t - h) % COUNTERS = IF t >= h THEN t - h ELSE t - h + COUNTERS
    BY Distance
  <2>. QED BY <1>1, <1>3, <2>1 DEF Counter
<1>5. ASSUME NEW p \in Counter
      PROVE  (p - g) % COUNTERS < (t - g) % COUNTERS
              <=> (p - h) % COUNTERS < (t - h) % COUNTERS /\ p # h
  <2>. PICK a, b, c : a = (p - g) % COUNTERS /\ b = (p - h) % COUNTERS
                      /\ c = (t - h) % COUNTERS
    OBVIOUS
  <2>1. /\ a = IF p >= g THEN p - g ELSE p - g + COUNTERS
        /\ b = IF p >= h THEN p - h ELSE p - h + COUNTERS
        /\ c = IF t >= h THEN t - h ELSE t - h + COUNTERS
    BY Distance
  <2>2. (t - g) % COUNTERS = c - 1
    BY <1>4
  <2>3. a < c - 1 <=> b < c /\ p # h
    BY <1>1, <1>3, <2>1 DEF Counter
  <2>. QED BY <2>2, <2>3
<1>. QED BY <1>3, <1>4, <1>5 DEF Span

LEMMA SpanTail ==
  ASSUME NEW h \in Counter, NEW t \in Counter, (t - h) % COUNTERS < COUNTERS - 1
  PROVE  /\ Inc(t) \in Counter
         /\ Span(h, Inc(t)) = Span(h, t) \union {t} /\ t \notin Span(h, t)
         /\ (Inc(t) - h) % COUNTERS = ((t - h) % COUNTERS) + 1
<1>1. COUNTERS \in Nat \ {0} BY CatAssumption
<1>3. Inc(t) \in Counter /\ Inc(t) = IF t = COUNTERS - 1 THEN 0 ELSE t + 1
  BY Incremented
<1>. PICK u \in Counter : u = Inc(t)
  BY <1>3
<1>. PICK c : c = (t - h) % COUNTERS
  OBVIOUS
<1>c. c < COUNTERS - 1 /\ c = IF t >= h THEN t - h ELSE t - h + COUNTERS
  BY Distance
<1>4. (u - h) % COUNTERS = c + 1
  <2>1. (u - h) % COUNTERS = IF u >= h THEN u - h ELSE u - h + COUNTERS
    BY Distance
  <2>. QED BY <1>1, <1>3, <1>c, <2>1 DEF Counter
<1>5. ASSUME NEW p \in Counter
      PROVE  (p - h) % COUNTERS < c + 1 <=> (p - h) % COUNTERS < c \/ p = t
  <2>1. (p - h) % COUNTERS = IF p >= h THEN p - h ELSE p - h + COUNTERS
    BY Distance
  <2>. QED BY <1>1, <1>c, <2>1 DEF Counter
<1>6. c \in Int
  BY <1>1, <1>c DEF Counter
<1>7. t \notin Span(h, t)
  BY <1>6 DEF Span
<1>. QED BY <1>3, <1>4, <1>5, <1>7 DEF Span

(* From a counter in between on, there is less.                            *)
LEMMA SpanFrom ==
  ASSUME NEW h \in Counter, NEW t \in Counter, NEW c \in Counter,
         (c - h) % COUNTERS <= (t - h) % COUNTERS
  PROVE  /\ Span(c, t) \subseteq Span(h, t)
         /\ (t - c) % COUNTERS <= (t - h) % COUNTERS
         /\ c # t => /\ c \in Span(h, t)
                     /\ (Inc(c) - h) % COUNTERS <= (t - h) % COUNTERS
<1>1. COUNTERS \in Nat \ {0} BY CatAssumption
<1>3. Inc(c) \in Counter /\ Inc(c) = IF c = COUNTERS - 1 THEN 0 ELSE c + 1
  BY Incremented
<1>. PICK g \in Counter : g = Inc(c)
  BY <1>3
<1>. PICK x, y, z : /\ x = (c - h) % COUNTERS /\ y = (t - h) % COUNTERS
                    /\ z = (t - c) % COUNTERS
  OBVIOUS
<1>2. /\ x = IF c >= h THEN c - h ELSE c - h + COUNTERS
      /\ y = IF t >= h THEN t - h ELSE t - h + COUNTERS
      /\ z = IF t >= c THEN t - c ELSE t - c + COUNTERS
      /\ x <= y
  BY Distance
<1>4. ASSUME NEW p \in Counter, (p - c) % COUNTERS < z
      PROVE  (p - h) % COUNTERS < y
  <2>1. /\ (p - c) % COUNTERS = IF p >= c THEN p - c ELSE p - c + COUNTERS
        /\ (p - h) % COUNTERS = IF p >= h THEN p - h ELSE p - h + COUNTERS
    BY Distance
  <2>. QED BY <1>1, <1>2, <1>4, <2>1 DEF Counter
<1>5. z <= y
  BY <1>1, <1>2 DEF Counter
<1>6. c # t => x < y
  BY <1>1, <1>2 DEF Counter
<1>7. c # t => (g - h) % COUNTERS <= y
  <2>1. (g - h) % COUNTERS = IF g >= h THEN g - h ELSE g - h + COUNTERS
    BY Distance
  <2>. QED BY <1>1, <1>2, <1>3, <2>1 DEF Counter
<1>. QED BY <1>4, <1>5, <1>6, <1>7 DEF Span

--------------------------------------------------------------------------------
(* The fields of the rings.                                                *)
LEMMA RingTypes ==
  ASSUME TypeOK
  PROVE  /\ sq.head \in Counter /\ sq.tail \in Counter
         /\ cq.head \in Counter /\ cq.tail \in Counter /\ head \in Counter
         /\ sq.array \in [0 .. SQ_ENTRIES - 1 -> 0 .. SQ_ENTRIES - 1]
         /\ sq.sqes \in [0 .. SQ_ENTRIES - 1 -> File]
         /\ cq.cqes \in [0 .. CQ_ENTRIES - 1 -> Cqe]
         /\ cursor \in Counter
BY DEF TypeOK, cursor

LEMMA Slots ==
  ASSUME NEW p \in Counter
  PROVE  p % SQ_ENTRIES \in 0 .. SQ_ENTRIES - 1 /\ p % CQ_ENTRIES \in 0 .. CQ_ENTRIES - 1
<1>1. /\ COUNTERS \in Nat /\ SQ_ENTRIES \in Nat \ {0} /\ CQ_ENTRIES \in Nat \ {0}
      /\ p \in Nat
  BY CatAssumption DEF Counter
<1>. QED BY <1>1

LEMMA AtSlots ==
  ASSUME TypeOK, NEW p \in Counter
  PROVE  SqeAt(p) \in File /\ CqeAt(p) \in Cqe
BY RingTypes, Slots DEF SqeAt, CqeAt

LEMMA Lines ==
  ASSUME TypeOK
  PROVE  /\ Len(out) \in Nat /\ DOMAIN out = 1 .. Len(out)
         /\ \A i \in DOMAIN out : out[i].file \in File
<1> DEFINE Line == [file : File, as : {"whole", "garbage"}]
<1>1. out \in Seq(Line)
  BY DEF TypeOK
<1>2. \A l \in Line : l.file \in File
  OBVIOUS
<1>. HIDE DEF Line
<1>. QED BY <1>1, <1>2

(* The initial states.                                                     *)
LEMMA InitIInv == Init => IInv
<1>. SUFFICES ASSUME Init PROVE IInv
  OBVIOUS
<1>. USE DEF Init
<1>0. /\ ARGS \in Nat \ {0} /\ COUNTERS \in Nat \ {0}
      /\ SQ_ENTRIES \in Nat \ {0} /\ CQ_ENTRIES \in Nat \ {0}
  BY CatAssumption
<1>1. TypeOK
  <2>1. 0 \in Counter /\ 1 \in File /\ 1 \in 1 .. ARGS + 1 /\ 0 \in 0 .. SQ_ENTRIES - 1
    BY <1>0 DEF Counter, File
  <2>2. [data |-> 1, res |-> "ok"] \in Cqe
    BY <2>1 DEF Cqe, Results
  <2>3. /\ [i \in 0 .. SQ_ENTRIES - 1 |-> 0] \in [0 .. SQ_ENTRIES - 1 -> 0 .. SQ_ENTRIES - 1]
        /\ [i \in 0 .. SQ_ENTRIES - 1 |-> 1] \in [0 .. SQ_ENTRIES - 1 -> File]
        /\ [i \in 0 .. CQ_ENTRIES - 1 |-> [data |-> 1, res |-> "ok"]]
             \in [0 .. CQ_ENTRIES - 1 -> Cqe]
    BY <2>1, <2>2
  <2>. HIDE DEF Init
  <2>4. /\ sq \in [head : Counter, tail : Counter,
                   array : [0 .. SQ_ENTRIES - 1 -> 0 .. SQ_ENTRIES - 1],
                   sqes : [0 .. SQ_ENTRIES - 1 -> File]]
        /\ cq \in [head : Counter, tail : Counter, cqes : [0 .. CQ_ENTRIES - 1 -> Cqe]]
    BY <2>1, <2>3 DEF Init
  <2>5. /\ program \in {"uring_cat", "liburing_cat"} /\ proc = "up" /\ pc = "setup"
        /\ arg = 1 /\ inflight = {} /\ overflow = <<>> /\ head = 0 /\ out = <<>>
        /\ size \in [File -> {Unknown}] /\ result \in [File -> {"none"}] /\ disturbed = {}
    BY ProgramsAssumption DEF Init
  <2>. QED BY <2>1, <2>4, <2>5 DEF TypeOK, Places
<1>2. /\ sq.head = 0 /\ sq.tail = 0 /\ cq.head = 0 /\ cq.tail = 0 /\ cursor = 0
      /\ 0 \in Counter
  BY <1>0 DEF Counter, cursor
<1>3. queued = {} /\ unread = {} /\ Used(sq) = 0 /\ Used(cq) = 0
  BY <1>2, SpanBasics DEF queued, unread, Used
<1>4. overflow = <<>> /\ DOMAIN overflow = {} /\ out = <<>> /\ DOMAIN out = {} /\ inflight = {}
  OBVIOUS
<1>5. Queued = {} /\ Unread = {} /\ Kept = {} /\ PrintedFiles = {}
  BY <1>3, <1>4 DEF Queued, Unread, Kept, PrintedFiles
<1>6. CountersInv
  BY <1>0, <1>3 DEF CountersInv
<1>7. PlaceInv
  BY <1>3 DEF PlaceInv
<1>8. OncePlacedInv
  BY <1>3, <1>4, <1>5 DEF OncePlacedInv
<1>9. SubmittedInv
  BY <1>4, <1>5 DEF SubmittedInv
<1>10. ResultInv
  BY <1>3, <1>4 DEF ResultInv, EachReadPrintedOnce
<1>11. OrderInv
  <2>1. Len(out) = 0 /\ arg - 1 = 0 /\ 1 .. 0 = {}
    BY <1>4
  <2>. QED BY <2>1 DEF OrderInv, InOrder
<1>. QED BY <1>1, <1>6, <1>7, <1>8, <1>9, <1>10, <1>11 DEF IInv

--------------------------------------------------------------------------------
(* Steps that leave every read where it is.                                *)
LEMMA SamePlaces ==
  ASSUME OncePlacedInv, SubmittedInv, ResultInv,
         sq' = sq, cq'.cqes = cq.cqes, unread' = unread,
         UNCHANGED <<program, inflight, overflow, out, result>>,
         Submitted \subseteq Submitted'
  PROVE  OncePlacedInv' /\ SubmittedInv' /\ ResultInv'
<1>1. queued' = queued
  BY DEF queued
<1>2. (\A p : SqeAt(p)' = SqeAt(p)) /\ (\A p : CqeAt(p)' = CqeAt(p))
  BY DEF SqeAt, CqeAt
<1>3. Queued' = Queued /\ Unread' = Unread /\ Kept' = Kept /\ PrintedFiles' = PrintedFiles
  BY <1>1, <1>2 DEF Queued, Unread, Kept, PrintedFiles
<1>4. OncePlacedInv'
  BY <1>1, <1>2, <1>3 DEF OncePlacedInv
<1>5. SubmittedInv'
  BY <1>3 DEF SubmittedInv
<1>6. ResultInv'
  BY <1>2 DEF ResultInv, EachReadPrintedOnce
<1>. QED BY <1>4, <1>5, <1>6

(* The file main is at is put into the SQ.                                 *)
LEMMA SubmitPlaces ==
  ASSUME IInv, arg \in File, pc = "open", pc' \in {"enter", "submit"}, Used(sq) < SQ_ENTRIES,
         sq' = published(arg),
         UNCHANGED <<program, arg, cq, inflight, overflow, out, result>>
  PROVE  OncePlacedInv' /\ SubmittedInv' /\ ResultInv' /\ CountersInv'
<1>. USE DEF IInv
<1>0. /\ SQ_ENTRIES \in Nat \ {0} /\ CQ_ENTRIES \in Nat \ {0}
      /\ COUNTERS \in Nat \ {0} /\ SQ_ENTRIES < COUNTERS
      /\ COUNTERS % SQ_ENTRIES = 0
  BY CatAssumption
<1>. PICK h, t, i : h = sq.head /\ t = sq.tail /\ i = t % SQ_ENTRIES
  OBVIOUS
<1>t. /\ h \in Counter /\ t \in Counter /\ i \in 0 .. SQ_ENTRIES - 1
      /\ sq.array \in [0 .. SQ_ENTRIES - 1 -> 0 .. SQ_ENTRIES - 1]
      /\ sq.sqes \in [0 .. SQ_ENTRIES - 1 -> File]
  BY RingTypes, Slots
<1>1. /\ sq'.head = h /\ sq'.tail = Inc(t)
      /\ sq'.array = [sq.array EXCEPT ![i] = i]
      /\ sq'.sqes = [sq.sqes EXCEPT ![i] = arg]
  BY DEF published, TypeOK
<1>u. (t - h) % COUNTERS < SQ_ENTRIES /\ (t - h) % COUNTERS \in 0 .. COUNTERS - 1
  BY <1>t, SpanBasics DEF Used
<1>2. /\ queued' = queued \union {t} /\ t \notin queued
      /\ Used(sq)' = Used(sq) + 1
  <2>1. (t - h) % COUNTERS < COUNTERS - 1
    BY <1>0, <1>u
  <2>. QED BY <1>1, <1>t, <2>1, SpanTail DEF queued, Used
<1>3. ASSUME NEW p \in queued PROVE p \in Counter /\ p % SQ_ENTRIES # i
  <2>1. p \in Counter /\ (p - h) % COUNTERS < SQ_ENTRIES
    <3>1. p \in Counter /\ (p - h) % COUNTERS < (t - h) % COUNTERS
      BY DEF queued, Span
    <3>2. (p - h) % COUNTERS \in 0 .. COUNTERS - 1
      BY <1>t, <3>1, SpanBasics
    <3>. QED BY <1>0, <1>u, <3>1, <3>2
  <2>2. p # t
    BY <1>2
  <2>. QED BY <1>0, <1>t, <1>u, <2>1, <2>2, SlotsApart
<1>4. /\ \A p \in queued : SqeAt(p)' = SqeAt(p) /\ sq'.array[p % SQ_ENTRIES] = p % SQ_ENTRIES
      /\ SqeAt(t)' = arg /\ sq'.array[i] = i
  <2>1. \A p \in queued : p % SQ_ENTRIES \in 0 .. SQ_ENTRIES - 1 /\ p % SQ_ENTRIES # i
    BY <1>3, Slots
  <2>2. \A p \in queued : sq.array[p % SQ_ENTRIES] = p % SQ_ENTRIES
    BY DEF CountersInv
  <2>3. ASSUME NEW p \in queued
        PROVE  SqeAt(p)' = SqeAt(p) /\ sq'.array[p % SQ_ENTRIES] = p % SQ_ENTRIES
    <3>. PICK k : k = p % SQ_ENTRIES
      OBVIOUS
    <3>1. k \in 0 .. SQ_ENTRIES - 1 /\ k # i /\ sq.array[k] = k
      BY <2>1, <2>2
    <3>2. sq'.array[k] = k /\ sq'.sqes[k] = sq.sqes[k]
      BY <1>1, <1>t, <3>1
    <3>. QED BY <3>1, <3>2 DEF SqeAt
  <2>4. sq'.array[i] = i /\ sq'.sqes[i] = arg
    BY <1>1, <1>t
  <2>5. SqeAt(t)' = arg
    BY <2>4 DEF SqeAt
  <2>. QED BY <2>3, <2>4, <2>5
<1>5. Queued' = Queued \union {arg}
  BY <1>2, <1>4 DEF Queued
<1>6. /\ unread' = unread /\ (\A p : CqeAt(p)' = CqeAt(p)) /\ Unread' = Unread
      /\ Kept' = Kept /\ PrintedFiles' = PrintedFiles
  BY DEF unread, cursor, CqeAt, Unread, Kept, PrintedFiles
<1>7. arg \notin Queued \union inflight \union Unread \union Kept \union PrintedFiles
  <2>1. arg \notin Submitted
    BY DEF Submitted, File
  <2>. QED BY <2>1 DEF SubmittedInv
<1>8. OncePlacedInv'
  <2>1. \A p, q \in queued' : SqeAt(p)' = SqeAt(q)' => p = q
    BY <1>2, <1>4, <1>7 DEF OncePlacedInv, Queued
  <2>. QED BY <1>5, <1>6, <1>7, <2>1 DEF OncePlacedInv
<1>9. SubmittedInv'
  <2>1. Submitted \subseteq Submitted' /\ arg \in Submitted'
    BY DEF Submitted, File
  <2>. QED BY <1>5, <1>6, <2>1 DEF SubmittedInv
<1>10. ResultInv'
  BY <1>6 DEF ResultInv, EachReadPrintedOnce
<1>11. CountersInv'
  <2>1. Used(sq)' <= SQ_ENTRIES
    BY <1>0, <1>2, <1>u DEF Used
  <2>. QED BY <1>2, <1>4, <2>1 DEF CountersInv, Used
<1>. QED BY <1>8, <1>9, <1>10, <1>11

(* The kernel takes the SQE at the head.                                   *)
LEMMA ConsumePlaces ==
  ASSUME IInv, Consume
  PROVE  IInv'
<1>. USE DEF IInv
<1>0. COUNTERS \in Nat \ {0} /\ SQ_ENTRIES \in Nat \ {0}
  BY CatAssumption
<1>. PICK h, t, f : h = sq.head /\ t = sq.tail /\ f = SqeAt(sq.head)
  OBVIOUS
<1>1. /\ h \in Counter /\ t \in Counter /\ f \in File /\ h # t
  <2>1. h \in Counter /\ t \in Counter
    BY RingTypes
  <2>2. f \in File
    BY <2>1, AtSlots
  <2>3. (t - h) % COUNTERS # 0
    BY <1>0 DEF Consume, Used
  <2>. QED BY <2>1, <2>2, <2>3, SpanBasics
<1>2. /\ sq'.head = Inc(h) /\ sq'.tail = t /\ sq'.array = sq.array /\ sq'.sqes = sq.sqes
      /\ sq' \in [head : Counter, tail : Counter,
                  array : [0 .. SQ_ENTRIES - 1 -> 0 .. SQ_ENTRIES - 1],
                  sqes : [0 .. SQ_ENTRIES - 1 -> File]]
      /\ inflight' = inflight \union {f}
      /\ UNCHANGED <<program, proc, pc, arg, size, cq, overflow, head, out, result, disturbed>>
  BY <1>1, SpanHead DEF Consume, SqeAt, TypeOK
<1>3. /\ queued' = queued \ {h} /\ h \in queued /\ Used(sq)' = Used(sq) - 1
      /\ \A p : SqeAt(p)' = SqeAt(p)
  BY <1>1, <1>2, SpanHead, SpanBasics DEF queued, Used, SqeAt
<1>4. Queued' = Queued \ {f} /\ f \in Queued
  BY <1>3 DEF Queued, OncePlacedInv
<1>5. /\ unread' = unread /\ (\A p : CqeAt(p)' = CqeAt(p)) /\ Unread' = Unread
      /\ Kept' = Kept /\ PrintedFiles' = PrintedFiles
  BY <1>2 DEF unread, cursor, CqeAt, Unread, Kept, PrintedFiles
<1>6. TypeOK'
  BY <1>1, <1>2 DEF TypeOK
<1>u. Used(sq) \in 0 .. COUNTERS - 1 /\ Used(sq) > 0
  BY <1>0, <1>1, SpanBasics DEF Consume, Used
<1>7. CountersInv'
  <2>1. Used(sq)' <= SQ_ENTRIES
    BY <1>0, <1>3, <1>u DEF CountersInv
  <2>. QED BY <1>2, <1>3, <2>1 DEF CountersInv, Used
<1>8. PlaceInv'
  <2>1. pc \in {"enter", "submit"}
    BY DEF Consume
  <2>. QED BY <1>2, <2>1 DEF PlaceInv
<1>9. OncePlacedInv'
  BY <1>2, <1>3, <1>4, <1>5 DEF OncePlacedInv
<1>10. SubmittedInv'
  BY <1>2, <1>4, <1>5 DEF SubmittedInv, Submitted
<1>11. ResultInv'
  BY <1>2, <1>5 DEF ResultInv, EachReadPrintedOnce
<1>12. OrderInv'
  BY <1>2 DEF OrderInv, Blocked, InOrder, CqeAt
<1>. QED BY <1>6, <1>7, <1>8, <1>9, <1>10, <1>11, <1>12

(* A CQE is put into the ring: over none that was not read.                *)
LEMMA PostedFacts ==
  ASSUME IInv, NEW q \in Cqe, Used(cq) < CQ_ENTRIES, cq' = Posted(q),
         UNCHANGED <<pc, head>>, NEW h, NEW t, h = cq.head, t = cq.tail
  PROVE  /\ cq' \in [head : Counter, tail : Counter, cqes : [0 .. CQ_ENTRIES - 1 -> Cqe]]
         /\ cq'.head = h /\ cq'.head # cq'.tail
         /\ unread' = unread \union {t} /\ t \notin unread
         /\ CqeAt(t)' = q
         /\ \A p \in Span(h, t) : CqeAt(p)' = CqeAt(p)
         /\ unread \subseteq Span(h, t)
         /\ Unread' = Unread \union {q.data}
         /\ Used(cq)' <= CQ_ENTRIES
         /\ pc = "reap" => (head - cq'.head) % COUNTERS <= Used(cq)' /\ head # cq'.tail
<1>. USE DEF IInv
<1>0. /\ CQ_ENTRIES \in Nat \ {0} /\ COUNTERS \in Nat \ {0} /\ CQ_ENTRIES < COUNTERS
      /\ COUNTERS % CQ_ENTRIES = 0
  BY CatAssumption
<1>. PICK c, i, u : c = cursor /\ i = t % CQ_ENTRIES /\ u = Inc(t)
  OBVIOUS
<1>t. /\ h \in Counter /\ t \in Counter /\ c \in Counter /\ i \in 0 .. CQ_ENTRIES - 1
      /\ cq.cqes \in [0 .. CQ_ENTRIES - 1 -> Cqe]
  BY RingTypes, Slots
<1>1. /\ cq'.head = h /\ cq'.tail = u /\ cq'.cqes = [cq.cqes EXCEPT ![i] = q]
  BY DEF Posted, TypeOK
<1>u. /\ (t - h) % COUNTERS < CQ_ENTRIES /\ (t - h) % COUNTERS \in 0 .. COUNTERS - 1
      /\ (t - h) % COUNTERS < COUNTERS - 1
  BY <1>0, <1>t, SpanBasics DEF Used
<1>2. /\ u \in Counter /\ Span(h, u) = Span(h, t) \union {t} /\ t \notin Span(h, t)
      /\ (u - h) % COUNTERS = ((t - h) % COUNTERS) + 1
  BY <1>t, <1>u, SpanTail
<1>3. (c - h) % COUNTERS <= (t - h) % COUNTERS
  <2>1. CASE pc = "reap"
    BY <2>1 DEF CountersInv, cursor, Used
  <2>2. CASE pc # "reap"
    <3>1. c = h /\ (h - h) % COUNTERS = 0
      BY <1>t, <2>2, SpanBasics DEF cursor
    <3>. QED BY <1>u, <3>1
  <2>. QED BY <2>1, <2>2
<1>4. /\ Span(c, t) \subseteq Span(h, t)
      /\ (t - c) % COUNTERS <= (t - h) % COUNTERS
  BY <1>t, <1>3, SpanFrom
<1>5. /\ Span(c, u) = Span(c, t) \union {t} /\ t \notin Span(c, t)
      /\ (u - c) % COUNTERS = ((t - c) % COUNTERS) + 1
  <2>1. (t - c) % COUNTERS \in 0 .. COUNTERS - 1
    BY <1>t, SpanBasics
  <2>2. (t - c) % COUNTERS < COUNTERS - 1
    BY <1>0, <1>u, <1>4, <2>1
  <2>. QED BY <1>t, <2>2, SpanTail
<1>6. cursor' = c /\ unread' = unread \union {t} /\ t \notin unread /\ unread = Span(c, t)
  BY <1>1, <1>5 DEF cursor, unread
<1>7. ASSUME NEW p \in Span(h, t) PROVE CqeAt(p)' = CqeAt(p)
  <2>1. p \in Counter /\ (p - h) % COUNTERS < (t - h) % COUNTERS
    BY DEF Span
  <2>2. (p - h) % COUNTERS \in 0 .. COUNTERS - 1
    BY <1>t, <2>1, SpanBasics
  <2>3. (p - h) % COUNTERS < CQ_ENTRIES /\ p # t
    BY <1>0, <1>u, <1>2, <2>1, <2>2
  <2>4. p % CQ_ENTRIES # i /\ p % CQ_ENTRIES \in 0 .. CQ_ENTRIES - 1
    BY <1>0, <1>t, <1>u, <2>1, <2>3, SlotsApart, Slots
  <2>. QED BY <1>1, <1>t, <2>4 DEF CqeAt
<1>8. CqeAt(t)' = q
  BY <1>1, <1>t DEF CqeAt
<1>9. Unread' = Unread \union {q.data}
  <2>1. \A p \in unread : CqeAt(p)' = CqeAt(p)
    BY <1>4, <1>6, <1>7
  <2>. QED BY <1>6, <1>8, <2>1 DEF Unread
<1>10. Used(cq)' <= CQ_ENTRIES
  BY <1>0, <1>1, <1>2, <1>u DEF Used
<1>11. pc = "reap" => (head - h) % COUNTERS <= (u - h) % COUNTERS /\ head # u
  <2>. SUFFICES ASSUME pc = "reap" PROVE (head - h) % COUNTERS <= (u - h) % COUNTERS /\ head # u
    OBVIOUS
  <2>1. head = c /\ head \in Counter
    BY <1>t DEF cursor
  <2>2. c # u
    <3>1. (u - c) % COUNTERS # 0
      <4>1. (t - c) % COUNTERS \in 0 .. COUNTERS - 1
        BY <1>t, SpanBasics
      <4>. QED BY <1>0, <1>5, <4>1
    <3>. QED BY <1>t, <1>2, <3>1, SpanBasics
  <2>3. (c - h) % COUNTERS \in 0 .. COUNTERS - 1
    BY <1>t, SpanBasics
  <2>. QED BY <1>0, <1>2, <1>3, <1>u, <2>1, <2>2, <2>3
<1>12. h # u
  <2>1. (u - h) % COUNTERS # 0
    BY <1>0, <1>2, <1>u
  <2>. QED BY <1>t, <1>2, <2>1, SpanBasics
<1>13. cq' \in [head : Counter, tail : Counter, cqes : [0 .. CQ_ENTRIES - 1 -> Cqe]]
  BY <1>t, <1>2 DEF Posted, TypeOK
<1>14. unread \subseteq Span(h, t)
  BY <1>4, <1>6
<1>15. (u - h) % COUNTERS = Used(cq)'
  BY <1>1 DEF Used
<1>16. cq'.head = h /\ cq'.head # cq'.tail
  BY <1>1, <1>12
<1>17. pc = "reap" => (head - cq'.head) % COUNTERS <= Used(cq)' /\ head # cq'.tail
  BY <1>1, <1>11, <1>15
<1>. QED BY <1>6, <1>7, <1>8, <1>9, <1>10, <1>13, <1>14, <1>16, <1>17

(* What a completion of f moves, into the ring or among what is kept.      *)
LEMMA KeptFacts ==
  ASSUME TypeOK, NEW q \in Cqe, overflow' = Append(overflow, q)
  PROVE  /\ overflow' \in Seq(Cqe) /\ Kept' = Kept \union {q.data}
         /\ \A i \in DOMAIN overflow' :
              \/ i \in DOMAIN overflow /\ overflow'[i] = overflow[i]
              \/ i = Len(overflow) + 1 /\ overflow'[i] = q
<1>1. /\ Len(overflow) \in Nat /\ DOMAIN overflow = 1 .. Len(overflow)
      /\ DOMAIN overflow' = 1 .. (Len(overflow) + 1)
      /\ \A i \in DOMAIN overflow : overflow'[i] = overflow[i]
      /\ overflow'[Len(overflow) + 1] = q /\ overflow' \in Seq(Cqe)
  BY DEF TypeOK
<1>2. \A i \in DOMAIN overflow' : i \in DOMAIN overflow \/ i = Len(overflow) + 1
  BY <1>1
<1>3. \A i \in DOMAIN overflow : i \in DOMAIN overflow'
  BY <1>1
<1>4. Len(overflow) + 1 \in DOMAIN overflow'
  BY <1>1
<1>5. Kept' = Kept \union {q.data}
  BY <1>1, <1>2, <1>3, <1>4 DEF Kept
<1>. QED BY <1>1, <1>2, <1>5

(* Undisturbed, what has come out stays in order while CQEs are posted.    *)
LEMMA PostedOrder ==
  ASSUME IInv, NEW q \in Cqe, Used(cq) < CQ_ENTRIES, cq' = Posted(q),
         UNCHANGED <<program, pc, arg, head, out, disturbed>>
  PROVE  OrderInv'
<1>. PICK h, t : h = cq.head /\ t = cq.tail
  OBVIOUS
<1>1. /\ cq'.head = h /\ cq'.head # cq'.tail
      /\ pc = "reap" => head # cq'.tail
      /\ \A p \in Span(h, t) : CqeAt(p)' = CqeAt(p)
  BY PostedFacts
<1>2. h # t => CqeAt(h)' = CqeAt(h)
  <2>1. h # t => h \in Span(h, t)
    BY RingTypes, SpanBasics DEF IInv
  <2>. QED BY <1>1, <2>1
<1>3. Blocked => Blocked'
  <2>1. CqeAt(cq.head) = CqeAt(h) /\ CqeAt(cq.head)' = CqeAt(h)'
    BY <1>1 DEF CqeAt
  <2>2. \A n : InOrder(n)' <=> InOrder(n)
    BY DEF InOrder
  <2>3. InOrder(CqeAt(cq.head).data - 1)' <=> InOrder(CqeAt(h)'.data - 1)
    BY <2>1 DEF InOrder
  <2>. QED BY <1>1, <1>2, <2>1, <2>2, <2>3 DEF Blocked
<1>4. \A n : InOrder(n)' <=> InOrder(n)
  BY DEF InOrder
<1>5. InOrder(arg - 1)' <=> InOrder(arg - 1)
  BY DEF InOrder
<1>. QED BY <1>1, <1>3, <1>4, <1>5 DEF IInv, OrderInv, InOrder

LEMMA CompletePlaces ==
  ASSUME IInv, NEW f \in File, Complete(f)
  PROVE  IInv'
<1>. USE DEF IInv
<1>0. PICK res \in Reads(f) :
        /\ result' = [result EXCEPT ![f] = res]
        /\ IF Used(cq) < CQ_ENTRIES /\ overflow = <<>>
           THEN cq' = Posted([data |-> f, res |-> res]) /\ UNCHANGED overflow
           ELSE overflow' = Append(overflow, [data |-> f, res |-> res]) /\ UNCHANGED cq
  BY DEF Complete
<1>1. /\ f \in inflight /\ inflight' = inflight \ {f}
      /\ UNCHANGED <<program, proc, pc, arg, size, sq, head, out, disturbed>>
  BY DEF Complete
<1>2. res \in Results
  BY DEF Reads, Results
<1>. PICK q : q = [data |-> f, res |-> res]
  OBVIOUS
<1>q. q \in Cqe /\ q.data = f /\ q.res = res
  BY <1>2 DEF Cqe
<1>3. /\ result' \in [File -> Results \union {"none"}]
      /\ result'[f] = res /\ \A g \in File \ {f} : result'[g] = result[g]
  BY <1>0, <1>2 DEF TypeOK
<1>4. f \notin Queued \union Unread \union Kept \union PrintedFiles
  BY <1>1 DEF OncePlacedInv
<1>5. queued' = queued /\ (\A p : SqeAt(p)' = SqeAt(p)) /\ Queued' = Queued
      /\ PrintedFiles' = PrintedFiles
  BY <1>1 DEF queued, SqeAt, Queued, PrintedFiles
<1>6. PlaceInv'
  BY <1>1 DEF PlaceInv, Used
<1>7. EachReadPrintedOnce'
  <2>1. \A i \in DOMAIN out : out[i].file \in File /\ out[i].file # f
    BY <1>4, Lines DEF PrintedFiles
  <2>. QED BY <1>1, <1>3, <2>1 DEF ResultInv, EachReadPrintedOnce
<1>8. f \in Submitted /\ Submitted' = Submitted
  BY <1>1 DEF SubmittedInv, Submitted
<1>9. CASE Used(cq) < CQ_ENTRIES /\ overflow = <<>>
  <2>0. cq' = Posted(q) /\ UNCHANGED <<pc, head, overflow>>
    BY <1>0, <1>1, <1>9
  <2>. PICK h, t : h = cq.head /\ t = cq.tail
    OBVIOUS
  <2>1. /\ cq' \in [head : Counter, tail : Counter, cqes : [0 .. CQ_ENTRIES - 1 -> Cqe]]
        /\ unread' = unread \union {t} /\ t \notin unread
        /\ CqeAt(t)' = q
        /\ \A p \in unread : CqeAt(p)' = CqeAt(p)
        /\ Unread' = Unread \union {f}
        /\ Used(cq)' <= CQ_ENTRIES
        /\ pc = "reap" => (head - cq'.head) % COUNTERS <= Used(cq)'
    BY <1>9, <1>q, <2>0, PostedFacts
  <2>2. Kept' = Kept
    BY <2>0 DEF Kept
  <2>3. TypeOK'
    BY <1>1, <1>3, <2>0, <2>1 DEF TypeOK
  <2>4. CountersInv'
    BY <1>1, <1>5, <2>1 DEF CountersInv, Used
  <2>5. \A p \in unread : CqeAt(p).data # f /\ CqeAt(p).data \in File
    <3>1. \A p \in unread : CqeAt(p) \in Cqe
      BY AtSlots DEF unread, Span
    <3>. QED BY <1>4, <3>1 DEF Unread, Cqe
  <2>6. OncePlacedInv'
    <3>0. CqeAt(t)'.data = f /\ \A p \in unread : CqeAt(p)'.data = CqeAt(p).data
      BY <1>q, <2>1
    <3>1. \A p, r \in unread' : CqeAt(p)'.data = CqeAt(r)'.data => p = r
      BY <2>1, <2>5, <3>0 DEF OncePlacedInv
    <3>. QED BY <1>1, <1>4, <1>5, <2>0, <2>1, <2>2, <3>1 DEF OncePlacedInv
  <2>7. SubmittedInv'
    BY <1>1, <1>5, <1>8, <2>1, <2>2 DEF SubmittedInv
  <2>8. ResultInv'
    <3>1. ASSUME NEW p \in unread' PROVE result'[CqeAt(p)'.data] = CqeAt(p)'.res
      <4>1. CASE p = t
        BY <1>3, <1>q, <2>1, <4>1
      <4>2. CASE p \in unread
        <5>1. CqeAt(p)' = CqeAt(p) /\ result'[CqeAt(p).data] = result[CqeAt(p).data]
          BY <1>3, <2>1, <2>5, <4>2
        <5>. QED BY <4>2, <5>1 DEF ResultInv
      <4>. QED BY <2>1, <4>1, <4>2
    <3>2. \A i \in DOMAIN overflow' : result'[overflow'[i].data] = overflow'[i].res
      BY <1>9, <2>0
    <3>. QED BY <1>7, <3>1, <3>2 DEF ResultInv
  <2>9. OrderInv'
    BY <1>1, <1>9, <1>q, <2>0, PostedOrder
  <2>. QED BY <1>6, <2>3, <2>4, <2>6, <2>7, <2>8, <2>9
<1>10. CASE ~(Used(cq) < CQ_ENTRIES /\ overflow = <<>>)
  <2>0. overflow' = Append(overflow, q) /\ UNCHANGED cq
    BY <1>0, <1>10
  <2>1. /\ overflow' \in Seq(Cqe) /\ Kept' = Kept \union {f}
        /\ \A i \in DOMAIN overflow' :
             \/ i \in DOMAIN overflow /\ overflow'[i] = overflow[i]
             \/ i = Len(overflow) + 1 /\ overflow'[i] = q
    BY <1>q, <2>0, KeptFacts
  <2>2. unread' = unread /\ (\A p : CqeAt(p)' = CqeAt(p)) /\ Unread' = Unread
    BY <1>1, <2>0 DEF unread, cursor, CqeAt, Unread
  <2>3. TypeOK'
    BY <1>1, <1>3, <2>0, <2>1 DEF TypeOK
  <2>4. CountersInv'
    BY <1>1, <1>5, <2>0 DEF CountersInv, Used
  <2>5. \A i \in DOMAIN overflow : overflow[i].data # f /\ overflow[i].data \in File
    <3>1. \A i \in DOMAIN overflow : overflow[i] \in Cqe
      BY DEF TypeOK
    <3>. QED BY <1>4, <3>1 DEF Kept, Cqe
  <2>6. OncePlacedInv'
    <3>1. \A i, j \in DOMAIN overflow' : overflow'[i].data = overflow'[j].data => i = j
      BY <1>q, <2>1, <2>5 DEF OncePlacedInv
    <3>. QED BY <1>1, <1>4, <1>5, <2>1, <2>2, <3>1 DEF OncePlacedInv
  <2>7. SubmittedInv'
    BY <1>1, <1>5, <1>8, <2>1, <2>2 DEF SubmittedInv
  <2>8. ResultInv'
    <3>1. \A p \in unread : CqeAt(p).data # f /\ CqeAt(p).data \in File
      <4>1. \A p \in unread : CqeAt(p) \in Cqe
        BY AtSlots DEF unread, Span
      <4>. QED BY <1>4, <4>1 DEF Unread, Cqe
    <3>2. \A p \in unread' : result'[CqeAt(p)'.data] = CqeAt(p)'.res
      BY <1>3, <2>2, <3>1 DEF ResultInv
    <3>3. \A i \in DOMAIN overflow' : result'[overflow'[i].data] = overflow'[i].res
      BY <1>3, <1>q, <2>1, <2>5 DEF ResultInv
    <3>. QED BY <1>7, <3>2, <3>3 DEF ResultInv
  <2>9. OrderInv'
    BY <1>1, <2>0 DEF OrderInv, Blocked, InOrder, CqeAt
  <2>. QED BY <1>6, <2>3, <2>4, <2>6, <2>7, <2>8, <2>9
<1>. QED BY <1>9, <1>10

(* The oldest CQE that was kept goes into the ring.                        *)
LEMMA FlushPlaces ==
  ASSUME IInv, FlushOverflow
  PROVE  IInv'
<1>. USE DEF IInv
<1>0. /\ overflow # <<>> /\ Used(cq) < CQ_ENTRIES
      /\ cq' = Posted(Head(overflow)) /\ overflow' = Tail(overflow)
      /\ UNCHANGED <<program, proc, pc, arg, size, sq, inflight, head, out, result, disturbed>>
  BY DEF FlushOverflow
<1>. PICK q, h, t : q = Head(overflow) /\ h = cq.head /\ t = cq.tail
  OBVIOUS
<1>1. /\ q \in Cqe /\ q = overflow[1] /\ 1 \in DOMAIN overflow
      /\ overflow' \in Seq(Cqe)
      /\ \A i \in DOMAIN overflow' : i + 1 \in DOMAIN overflow /\ overflow'[i] = overflow[i + 1]
      /\ \A i \in DOMAIN overflow :
           i = 1 \/ (i - 1 \in DOMAIN overflow' /\ overflow'[i - 1] = overflow[i])
      /\ \A i \in DOMAIN overflow' : i \in Nat /\ i + 1 # 1
  <2>1. /\ Len(overflow) \in Nat \ {0} /\ DOMAIN overflow = 1 .. Len(overflow)
        /\ q = overflow[1] /\ 1 \in DOMAIN overflow /\ overflow' \in Seq(Cqe)
        /\ DOMAIN overflow' = 1 .. (Len(overflow) - 1)
        /\ \A i \in DOMAIN overflow' : overflow'[i] = overflow[i + 1]
    BY <1>0 DEF TypeOK
  <2>2. q \in Cqe
    BY <2>1 DEF TypeOK
  <2>. QED BY <2>1, <2>2
<1>2. /\ cq' \in [head : Counter, tail : Counter, cqes : [0 .. CQ_ENTRIES - 1 -> Cqe]]
      /\ unread' = unread \union {t} /\ t \notin unread
      /\ CqeAt(t)' = q
      /\ \A p \in unread : CqeAt(p)' = CqeAt(p)
      /\ Unread' = Unread \union {q.data}
      /\ Used(cq)' <= CQ_ENTRIES
      /\ pc = "reap" => (head - cq'.head) % COUNTERS <= Used(cq)'
  BY <1>0, <1>1, PostedFacts
<1>3. Kept' = Kept \ {q.data} /\ q.data \in Kept
  <2>1. \A i \in DOMAIN overflow : overflow[i].data = q.data => i = 1
    BY <1>1 DEF OncePlacedInv
  <2>2. \A i \in DOMAIN overflow' : overflow'[i].data # q.data /\ overflow'[i].data \in Kept
    BY <1>1, <2>1 DEF Kept
  <2>3. \A i \in DOMAIN overflow : i # 1 => overflow[i].data \in Kept'
    BY <1>1 DEF Kept
  <2>. QED BY <1>1, <2>2, <2>3 DEF Kept
<1>4. queued' = queued /\ (\A p : SqeAt(p)' = SqeAt(p)) /\ Queued' = Queued
      /\ PrintedFiles' = PrintedFiles
  BY <1>0 DEF queued, SqeAt, Queued, PrintedFiles
<1>5. TypeOK'
  BY <1>0, <1>1, <1>2 DEF TypeOK
<1>6. CountersInv'
  BY <1>0, <1>2, <1>4 DEF CountersInv, Used
<1>7. PlaceInv'
  BY <1>0 DEF PlaceInv, Used
<1>8. OncePlacedInv'
  <2>1. CqeAt(t)'.data = q.data /\ \A p \in unread : CqeAt(p)'.data = CqeAt(p).data
    BY <1>2
  <2>2. \A p \in unread : CqeAt(p).data # q.data
    BY <1>3 DEF OncePlacedInv, Unread
  <2>3. \A p, r \in unread' : CqeAt(p)'.data = CqeAt(r)'.data => p = r
    BY <1>2, <2>1, <2>2 DEF OncePlacedInv
  <2>4. \A i, j \in DOMAIN overflow' : overflow'[i].data = overflow'[j].data => i = j
    <3>1. \A i, j \in DOMAIN overflow' : overflow'[i].data = overflow'[j].data => i + 1 = j + 1
      BY <1>1 DEF OncePlacedInv
    <3>. QED BY <1>1, <3>1
  <2>. QED BY <1>0, <1>2, <1>3, <1>4, <2>3, <2>4 DEF OncePlacedInv
<1>9. SubmittedInv'
  <2>1. Submitted' = Submitted
    BY <1>0 DEF Submitted
  <2>. QED BY <1>0, <1>2, <1>3, <1>4, <2>1 DEF SubmittedInv
<1>10. ResultInv'
  <2>1. ASSUME NEW p \in unread' PROVE result[CqeAt(p)'.data] = CqeAt(p)'.res
    <3>1. CASE p = t
      BY <1>1, <1>2, <3>1 DEF ResultInv
    <3>2. CASE p \in unread
      BY <1>2, <3>2 DEF ResultInv
    <3>. QED BY <1>2, <3>1, <3>2
  <2>2. \A i \in DOMAIN overflow' : result[overflow'[i].data] = overflow'[i].res
    BY <1>1 DEF ResultInv
  <2>. QED BY <1>0, <2>1, <2>2 DEF ResultInv, EachReadPrintedOnce
<1>11. OrderInv'
  BY <1>0, <1>1, PostedOrder
<1>. QED BY <1>5, <1>6, <1>7, <1>8, <1>9, <1>10, <1>11

--------------------------------------------------------------------------------
(* A CQE is printed: the one at the cursor.                                *)
LEMMA PrintPlaces ==
  ASSUME IInv, NEW c, c = cursor, NEW q, q = CqeAt(c), c # cq.tail,
         out' = Printed(q), q.res # "err" \/ program = "uring_cat",
         unread' = unread \ {c}, cq'.cqes = cq.cqes,
         Submitted' = Submitted,
         UNCHANGED <<program, sq, inflight, overflow, result>>
  PROVE  /\ OncePlacedInv' /\ SubmittedInv' /\ ResultInv'
         /\ out' \in Seq([file : File, as : {"whole", "garbage"}])
         /\ q \in Cqe /\ q.data \in Submitted /\ q.data \notin PrintedFiles
         /\ Len(out)' = Len(out) + 1 /\ out'[Len(out) + 1].file = q.data
         /\ \A i \in DOMAIN out : out'[i] = out[i]
<1>. USE DEF IInv
<1>c. c \in Counter /\ c \in unread /\ q \in Cqe
  BY RingTypes, SpanBasics, AtSlots DEF unread
<1>q. q.data \in File /\ q.res \in Results /\ q.data \in Unread
  BY <1>c DEF Cqe, Unread
<1>. PICK n, l : n = Len(out) + 1
                 /\ l = [file |-> q.data, as |-> IF q.res = "ok" THEN "whole" ELSE "garbage"]
  OBVIOUS
<1>l. l.file = q.data /\ l.as = (IF q.res = "ok" THEN "whole" ELSE "garbage")
  OBVIOUS
<1>1. /\ out' = Append(out, l) /\ l \in [file : File, as : {"whole", "garbage"}]
  BY <1>q DEF Printed
<1>2. /\ Len(out)' = n /\ n \in Nat /\ out'[n] = l /\ DOMAIN out' = 1 .. n
      /\ DOMAIN out = 1 .. Len(out) /\ Len(out) \in Nat
      /\ \A i \in DOMAIN out : out'[i] = out[i] /\ i \in DOMAIN out' /\ i # n
      /\ \A i \in DOMAIN out' : i \in DOMAIN out \/ i = n
      /\ out' \in Seq([file : File, as : {"whole", "garbage"}])
  <2> DEFINE Line == [file : File, as : {"whole", "garbage"}]
  <2>1. out \in Seq(Line) /\ l \in Line
    BY <1>1 DEF TypeOK
  <2>. HIDE DEF Line
  <2>2. /\ Len(out)' = n /\ n \in Nat /\ out'[n] = l /\ DOMAIN out' = 1 .. n
        /\ DOMAIN out = 1 .. Len(out) /\ Len(out) \in Nat
        /\ \A i \in DOMAIN out : out'[i] = out[i]
        /\ out' \in Seq(Line)
    BY <1>1, <2>1
  <2>3. /\ \A i \in DOMAIN out : i \in DOMAIN out' /\ i # n
        /\ \A i \in DOMAIN out' : i \in DOMAIN out \/ i = n
    BY <2>2
  <2>. QED BY <2>2, <2>3 DEF Line
<1>3. PrintedFiles' = PrintedFiles \union {q.data} /\ q.data \notin PrintedFiles
  <2>1. n \in DOMAIN out' /\ out'[n].file = q.data
    BY <1>2, <1>l
  <2>2. q.data \notin PrintedFiles
    BY <1>q DEF OncePlacedInv
  <2>. QED BY <1>2, <2>1, <2>2 DEF PrintedFiles
<1>4. (\A p : CqeAt(p)' = CqeAt(p)) /\ Unread' = Unread \ {q.data}
  <2>1. \A p : CqeAt(p)' = CqeAt(p)
    BY DEF CqeAt
  <2>2. \A p \in unread : CqeAt(p).data = q.data => p = c
    BY <1>c DEF OncePlacedInv
  <2>. QED BY <1>c, <2>1, <2>2 DEF Unread
<1>5. /\ queued' = queued /\ (\A p : SqeAt(p)' = SqeAt(p)) /\ Queued' = Queued
      /\ Kept' = Kept
  BY DEF queued, SqeAt, Queued, Kept
<1>6. OncePlacedInv'
  <2>1. \A i \in DOMAIN out : out[i].file # q.data
    BY <1>3 DEF PrintedFiles
  <2>2. \A i, j \in DOMAIN out' : out'[i].file = out'[j].file => i = j
    BY <1>2, <1>l, <2>1 DEF OncePlacedInv
  <2>. QED BY <1>3, <1>4, <1>5, <1>q, <2>2 DEF OncePlacedInv
<1>7. SubmittedInv'
  BY <1>3, <1>4, <1>5, <1>q DEF SubmittedInv
<1>8. ResultInv'
  <2>1. result[q.data] = q.res
    BY <1>c DEF ResultInv
  <2>2. \A i \in DOMAIN out' :
          \/ result[out'[i].file] \in {"ok", "short"}
          \/ program = "uring_cat" /\ result[out'[i].file] = "err"
    BY <1>2, <1>l, <1>q, <2>1 DEF ResultInv, EachReadPrintedOnce, Results
  <2>3. \A i \in DOMAIN out' : out'[i].as = "whole" <=> result[out'[i].file] = "ok"
    BY <1>2, <1>l, <1>q, <2>1 DEF ResultInv, EachReadPrintedOnce
  <2>4. EachReadPrintedOnce'
    BY <1>6, <2>2, <2>3 DEF OncePlacedInv, EachReadPrintedOnce
  <2>. QED BY <1>4, <2>4 DEF ResultInv
<1>9. q.data \in Submitted
  BY <1>q DEF SubmittedInv
<1>. QED BY <1>2, <1>3, <1>6, <1>7, <1>8, <1>9, <1>c, <1>l

(* Undisturbed, the file that comes out is the one main is at, the only    *)
(* one submitted that was not printed.                                     *)
LEMMA NextInOrder ==
  ASSUME TypeOK, NEW f \in Submitted, f \notin PrintedFiles, InOrder(arg - 1),
         Len(out)' = Len(out) + 1, out'[Len(out) + 1].file = f,
         \A i \in DOMAIN out : out'[i] = out[i]
  PROVE  /\ f = arg
         /\ Len(out)' = arg /\ \A i \in 1 .. arg : out'[i].file = i
<1>1. /\ arg \in Nat /\ arg >= 1 /\ f \in 1 .. arg
  BY CatAssumption DEF TypeOK, Submitted
<1>2. Len(out) = arg - 1 /\ DOMAIN out = 1 .. (arg - 1) /\ \A i \in DOMAIN out : out[i].file = i
  BY Lines DEF InOrder
<1>3. f \notin 1 .. (arg - 1)
  BY <1>2 DEF PrintedFiles
<1>4. f = arg
  BY <1>1, <1>3
<1>5. ASSUME NEW i \in 1 .. arg PROVE out'[i].file = i
  <2>1. i = arg \/ i \in DOMAIN out
    BY <1>1, <1>2
  <2>2. arg = Len(out) + 1
    BY <1>1, <1>2
  <2>. QED BY <1>2, <1>4, <2>1, <2>2
<1>6. Len(out)' = arg
  BY <1>1, <1>2
<1>. QED BY <1>4, <1>5, <1>6

LEMMA AllOut ==
  ASSUME TypeOK, InOrder(arg), NEW f \in Submitted
  PROVE  f \in PrintedFiles
<1>1. /\ arg \in Nat /\ f \in 1 .. arg
  BY CatAssumption DEF TypeOK, Submitted
<1>2. f \in DOMAIN out /\ out[f].file = f
  BY <1>1, Lines DEF InOrder
<1>. QED BY <1>2 DEF PrintedFiles

(* uring_cat prints the CQE at its own copy of the head.                   *)
LEMMA ReadFromCq ==
  ASSUME IInv, read_from_cq
  PROVE  IInv'
<1>. USE DEF IInv
<1>0. /\ pc = "reap" /\ head # cq.tail
      /\ out' = Printed(CqeAt(head)) /\ head' = Inc(head)
      /\ UNCHANGED <<program, proc, pc, arg, size, sq, cq, inflight, overflow, result, disturbed>>
  BY DEF read_from_cq, ringVars
<1>. PICK q, n : q = CqeAt(head) /\ n = Len(out) + 1
  OBVIOUS
<1>1. head = cursor /\ program = "uring_cat"
  BY <1>0 DEF cursor, PlaceInv
<1>2. /\ head' \in Counter /\ unread' = unread \ {head}
      /\ (head' - cq.head) % COUNTERS <= Used(cq)
  <2>1. head \in Counter /\ cq.tail \in Counter /\ cq.head \in Counter
    BY RingTypes
  <2>2. Inc(head) \in Counter /\ Span(Inc(head), cq.tail) = Span(head, cq.tail) \ {head}
    BY <1>0, <2>1, SpanHead
  <2>3. cursor' = Inc(head)
    BY <1>0 DEF cursor
  <2>4. (Inc(head) - cq.head) % COUNTERS <= Used(cq)
    BY <1>0, <2>1, SpanFrom DEF CountersInv, Used
  <2>. QED BY <1>0, <1>1, <2>2, <2>3, <2>4 DEF unread
<1>3. Submitted' = Submitted
  BY <1>0 DEF Submitted
<1>4. /\ OncePlacedInv' /\ SubmittedInv' /\ ResultInv'
      /\ out' \in Seq([file : File, as : {"whole", "garbage"}])
      /\ q \in Cqe /\ q.data \in Submitted /\ q.data \notin PrintedFiles
      /\ Len(out)' = Len(out) + 1 /\ out'[Len(out) + 1].file = q.data
      /\ \A i \in DOMAIN out : out'[i] = out[i]
  BY <1>0, <1>1, <1>2, <1>3, PrintPlaces
<1>5. TypeOK'
  BY <1>0, <1>2, <1>4 DEF TypeOK
<1>6. CountersInv'
  BY <1>0, <1>2 DEF CountersInv, Used, queued
<1>7. PlaceInv'
  BY <1>0 DEF PlaceInv, Used
<1>8. OrderInv'
  <2>. SUFFICES ASSUME disturbed = {} PROVE InOrder(arg)'
    BY <1>0 DEF OrderInv
  <2>1. ~InOrder(arg)
    BY <1>4, AllOut
  <2>2. InOrder(arg - 1)
    BY <1>1, <2>1 DEF OrderInv, Blocked
  <2>. QED BY <1>0, <1>4, <2>2, NextInOrder DEF InOrder
<1>. QED BY <1>4, <1>5, <1>6, <1>7, <1>8

(* Then the head is published.                                             *)
LEMMA EndOfCqStep ==
  ASSUME IInv, EndOfCq
  PROVE  IInv'
<1>. USE DEF IInv
<1>0. /\ pc = "reap" /\ head = cq.tail /\ pc' = "open" /\ arg' = arg + 1
      /\ UNCHANGED <<program, proc, size, sq, inflight, overflow, head, out, result, disturbed>>
      /\ cq' = [cq EXCEPT !.head = head]
  BY DEF EndOfCq, NextFile, seen
<1>a. arg \in File /\ program = "uring_cat" /\ Used(sq) = 0 /\ arg + 1 - 1 = arg /\ arg \in Nat
      /\ proc = "up"
  BY <1>0 DEF PlaceInv, File, EndOfCq
<1>t. head \in Counter /\ cq.tail \in Counter
  BY RingTypes
<1>1. /\ cq'.head = head /\ cq'.tail = cq.tail /\ cq'.cqes = cq.cqes
      /\ cq' \in [head : Counter, tail : Counter, cqes : [0 .. CQ_ENTRIES - 1 -> Cqe]]
  BY <1>0, <1>t DEF TypeOK
<1>2. unread' = unread
  BY <1>0, <1>1 DEF unread, cursor
<1>3. Submitted' = Submitted
  BY <1>0, <1>a DEF Submitted
<1>4. OncePlacedInv' /\ SubmittedInv' /\ ResultInv'
  BY <1>0, <1>1, <1>2, <1>3, SamePlaces
<1>5. TypeOK'
  <2>1. arg + 1 \in 1 .. ARGS + 1
    BY <1>a, CatAssumption DEF File
  <2>. QED BY <1>0, <1>1, <2>1 DEF TypeOK, Places
<1>6. CountersInv'
  <2>1. Used(cq)' = 0
    BY <1>0, <1>1, <1>t, SpanBasics DEF Used
  <2>2. 0 <= CQ_ENTRIES
    BY CatAssumption
  <2>. QED BY <1>0, <2>1, <2>2 DEF CountersInv, Used, queued
<1>7. PlaceInv'
  BY <1>0, <1>a DEF PlaceInv, Used
<1>8. OrderInv'
  BY <1>0, <1>a DEF OrderInv, Blocked, InOrder
<1>. QED BY <1>4, <1>5, <1>6, <1>7, <1>8

(* liburing_cat prints the oldest CQE, or stops at that of a failed read.  *)
LEMMA GetCompletion ==
  ASSUME IInv, get_completion_and_print
  PROVE  IInv'
<1>. USE DEF IInv
<1>. PICK c, q : c = cq.head /\ q = CqeAt(c)
  OBVIOUS
<1>0. /\ pc = "wait" /\ proc = "up" /\ Used(cq) > 0
      /\ IF q.res = "err" THEN UNCHANGED <<cq, out>>
         ELSE out' = Printed(q) /\ cq' = seen(Inc(c))
      /\ pc' = "open" /\ arg' = arg + 1
      /\ UNCHANGED <<program, proc, size, sq, inflight, overflow, head, result, disturbed>>
  BY DEF get_completion_and_print, NextFile
<1>a. arg \in File /\ program = "liburing_cat" /\ arg + 1 - 1 = arg /\ arg \in Nat
      /\ arg + 1 \in 1 .. ARGS + 1 /\ cursor = c
  BY <1>0, CatAssumption DEF PlaceInv, File, cursor
<1>t. c \in Counter /\ cq.tail \in Counter /\ c # cq.tail
  <2>1. c \in Counter /\ cq.tail \in Counter
    BY RingTypes
  <2>2. (cq.tail - c) % COUNTERS # 0
    BY <1>0, CatAssumption DEF Used
  <2>. QED BY <2>1, <2>2, SpanBasics
<1>3. Submitted' = Submitted
  BY <1>0, <1>a DEF Submitted
<1>7. PlaceInv'
  BY <1>0, <1>a DEF PlaceInv, Used
<1>q. q \in Cqe /\ q.data \in Submitted /\ q.data \notin PrintedFiles
  <2>1. c \in unread /\ q \in Cqe
    BY <1>a, <1>t, SpanBasics, AtSlots DEF unread
  <2>2. q.data \in Unread
    BY <2>1 DEF Unread
  <2>. QED BY <2>1, <2>2 DEF SubmittedInv, OncePlacedInv
<1>8. CASE q.res = "err"
  <2>0. UNCHANGED <<cq, out>>
    BY <1>0, <1>8
  <2>1. unread' = unread
    BY <1>0, <2>0 DEF unread, cursor
  <2>2. OncePlacedInv' /\ SubmittedInv' /\ ResultInv'
    BY <1>0, <1>3, <2>0, <2>1, SamePlaces
  <2>3. TypeOK'
    BY <1>0, <1>a, <2>0 DEF TypeOK, Places
  <2>4. CountersInv'
    BY <1>0, <2>0 DEF CountersInv, Used, queued
  <2>5. OrderInv'
    <3>. SUFFICES ASSUME disturbed = {} PROVE Blocked'
      BY <1>0 DEF OrderInv
    <3>1. Blocked
      <4>. SUFFICES ASSUME InOrder(arg - 1) PROVE Blocked
        BY <1>0, <1>a DEF OrderInv
      <4>1. q.data = arg
        <5>1. /\ Len(out) = arg - 1 /\ DOMAIN out = 1 .. (arg - 1)
              /\ \A i \in DOMAIN out : out[i].file = i
          BY Lines DEF InOrder
        <5>2. q.data \in 1 .. arg
          BY <1>0, <1>q DEF Submitted
        <5>3. q.data \notin 1 .. (arg - 1)
          BY <1>q, <5>1 DEF PrintedFiles
        <5>. QED BY <1>a, <5>2, <5>3
      <4>. QED BY <1>8, <1>a, <1>t, <4>1 DEF Blocked
    <3>. QED BY <1>0, <2>0, <3>1 DEF Blocked, InOrder, CqeAt
  <2>. QED BY <1>7, <2>2, <2>3, <2>4, <2>5
<1>9. CASE q.res # "err"
  <2>0. /\ out' = Printed(q) /\ cq' = [cq EXCEPT !.head = Inc(c)]
    BY <1>0, <1>9 DEF seen
  <2>i. /\ Inc(c) \in Counter /\ Span(Inc(c), cq.tail) = Span(c, cq.tail) \ {c}
        /\ (cq.tail - Inc(c)) % COUNTERS = ((cq.tail - c) % COUNTERS) - 1
    BY <1>t, SpanHead
  <2>1. /\ cq'.head = Inc(c) /\ cq'.tail = cq.tail /\ cq'.cqes = cq.cqes
        /\ cq' \in [head : Counter, tail : Counter, cqes : [0 .. CQ_ENTRIES - 1 -> Cqe]]
    BY <2>0, <2>i DEF TypeOK
  <2>2. unread' = unread \ {c}
    BY <1>0, <1>a, <2>1, <2>i DEF unread, cursor
  <2>3. /\ OncePlacedInv' /\ SubmittedInv' /\ ResultInv'
        /\ out' \in Seq([file : File, as : {"whole", "garbage"}])
        /\ Len(out)' = Len(out) + 1 /\ out'[Len(out) + 1].file = q.data
        /\ \A i \in DOMAIN out : out'[i] = out[i]
    BY <1>0, <1>3, <1>9, <1>a, <1>t, <2>0, <2>1, <2>2, PrintPlaces
  <2>4. TypeOK'
    BY <1>0, <1>a, <2>1, <2>3 DEF TypeOK, Places
  <2>5. CountersInv'
    <3>1. Used(cq)' <= CQ_ENTRIES
      <4>1. (cq.tail - c) % COUNTERS \in 0 .. COUNTERS - 1
        BY <1>t, SpanBasics
      <4>2. (cq.tail - c) % COUNTERS <= CQ_ENTRIES /\ CQ_ENTRIES \in Nat /\ COUNTERS \in Nat
        BY CatAssumption DEF CountersInv, Used
      <4>3. Used(cq)' = ((cq.tail - c) % COUNTERS) - 1
        BY <2>1, <2>i DEF Used
      <4>. QED BY <4>1, <4>2, <4>3
    <3>. QED BY <1>0, <3>1 DEF CountersInv, Used, queued
  <2>6. OrderInv'
    <3>. SUFFICES ASSUME disturbed = {}
                  PROVE  Len(out)' = arg /\ \A i \in 1 .. arg : out'[i].file = i
      BY <1>0, <1>a DEF OrderInv, InOrder
    <3>1. InOrder(arg - 1)
      BY <1>0, <1>9 DEF OrderInv, Blocked
    <3>. QED BY <1>q, <2>3, <3>1, NextInOrder
  <2>. QED BY <1>7, <2>3, <2>4, <2>5, <2>6
<1>. QED BY <1>8, <1>9

--------------------------------------------------------------------------------
(* Steps that touch neither the rings nor what is in them.                 *)
LEMMA QuietStep ==
  ASSUME IInv, UNCHANGED <<program, ringVars, out, result>>,
         TypeOK', PlaceInv', unread' = unread, Submitted' = Submitted,
         pc' = "reap" => (head' - cq.head) % COUNTERS <= Used(cq),
         disturbed' = {} => disturbed = {},
         disturbed' = {} => \/ pc # "reap" /\ pc' # "reap" /\ arg' = arg
                            \/ pc = "reap" /\ UNCHANGED <<pc, arg, head>>
                            \/ pc # "reap" /\ arg' = arg /\ head' # cq.tail
  PROVE  IInv'
<1>. USE DEF IInv, ringVars
<1>1. OncePlacedInv' /\ SubmittedInv' /\ ResultInv'
  BY SamePlaces
<1>2. CountersInv'
  BY DEF CountersInv, Used, queued
<1>3. OrderInv'
  <2>. SUFFICES ASSUME disturbed' = {} PROVE OrderInv'
    BY DEF OrderInv
  <2>1. Blocked => Blocked'
    BY DEF Blocked, InOrder, CqeAt
  <2>. QED BY <2>1 DEF OrderInv, InOrder
<1>. QED BY <1>1, <1>2, <1>3

(* The process ends, where it is.                                          *)
LEMMA ExitStep ==
  ASSUME IInv, NEW how \in Ended, Exit(how), how = "done" => pc = "open" /\ arg = ARGS + 1,
         size' \in [File -> Sizes \union {NotRegular, Unknown}]
  PROVE  IInv'
<1>. USE DEF Exit, ringVars
<1>1. TypeOK'
  BY DEF TypeOK, IInv
<1>2. PlaceInv'
  BY DEF PlaceInv, IInv, Used
<1>3. unread' = unread /\ Submitted' = Submitted
  BY DEF unread, cursor, Submitted
<1>4. pc' = "reap" => (head' - cq.head) % COUNTERS <= Used(cq)
  BY DEF IInv, CountersInv
<1>. QED BY <1>1, <1>2, <1>3, <1>4, QuietStep

(* Both programs start with no SQE in the ring.                            *)
LEMMA SetupStep ==
  ASSUME IInv, app_setup_uring \/ io_uring_queue_init
  PROVE  IInv'
<1>1. CASE Exit("failed") /\ UNCHANGED size
  BY <1>1, ExitStep DEF Ended, IInv, TypeOK
<1>2. CASE ~(Exit("failed") /\ UNCHANGED size)
  <2>0. /\ proc = "up" /\ pc = "setup" /\ pc' = "open"
        /\ UNCHANGED <<program, proc, arg, ringVars, head, out, result, size>>
        /\ disturbed' \in {disturbed, disturbed \union ({"setup"} \intersect Faults)}
    BY <1>2 DEF app_setup_uring, io_uring_queue_init
  <2>1. TypeOK'
    BY <2>0 DEF IInv, TypeOK, Places, ringVars
  <2>2. PlaceInv'
    BY <2>0 DEF IInv, PlaceInv, Used, ringVars
  <2>3. unread' = unread /\ Submitted' = Submitted
    BY <2>0 DEF unread, cursor, Submitted, ringVars
  <2>. QED BY <2>0, <2>1, <2>2, <2>3, QuietStep
<1>. QED BY <1>1, <1>2

LEMMA SizeType ==
  ASSUME TypeOK, NEW n \in Sizes \union {NotRegular}, size' = [size EXCEPT ![arg] = n]
  PROVE  size' \in [File -> Sizes \union {NotRegular, Unknown}]
BY DEF TypeOK

(* A file is submitted, by either program.                                 *)
LEMMA PublishStep ==
  ASSUME IInv, proc = "up", pc = "open", arg \in File, Used(sq) < SQ_ENTRIES,
         size' \in [File -> Sizes \union {NotRegular, Unknown}],
         sq' = published(arg),
         \/ pc' = "enter" /\ program = "uring_cat"
         \/ pc' = "submit" /\ program = "liburing_cat",
         UNCHANGED <<program, proc, arg, cq, inflight, overflow, head, out, result, disturbed>>
  PROVE  IInv'
<1>. USE DEF IInv
<1>1. OncePlacedInv' /\ SubmittedInv' /\ ResultInv' /\ CountersInv'
  BY SubmitPlaces
<1>2. TypeOK'
  <2>1. sq' \in [head : Counter, tail : Counter,
                 array : [0 .. SQ_ENTRIES - 1 -> 0 .. SQ_ENTRIES - 1],
                 sqes : [0 .. SQ_ENTRIES - 1 -> File]]
    <3>. PICK i : i = sq.tail % SQ_ENTRIES
      OBVIOUS
    <3>1. i \in 0 .. SQ_ENTRIES - 1 /\ Inc(sq.tail) \in Counter
      BY RingTypes, Slots, Incremented
    <3>2. sq' = [sq EXCEPT !.sqes[i] = arg, !.array[i] = i, !.tail = Inc(sq.tail)]
      BY DEF published
    <3>. DEFINE D == 0 .. SQ_ENTRIES - 1
    <3>3. /\ sq.array \in [D -> D] /\ sq.sqes \in [D -> File] /\ sq.head \in Counter
          /\ sq = [head |-> sq.head, tail |-> sq.tail, array |-> sq.array, sqes |-> sq.sqes]
      BY DEF TypeOK
    <3>. HIDE DEF D
    <3>4. sq' = [head |-> sq.head, tail |-> Inc(sq.tail),
                 array |-> [sq.array EXCEPT ![i] = i], sqes |-> [sq.sqes EXCEPT ![i] = arg]]
      BY <3>2, <3>3
    <3>5. i \in D
      BY <3>1 DEF D
    <3>6. /\ [sq.array EXCEPT ![i] = i] \in [D -> D]
          /\ [sq.sqes EXCEPT ![i] = arg] \in [D -> File]
      BY <3>3, <3>5
    <3>7. sq' \in [head : Counter, tail : Counter, array : [D -> D], sqes : [D -> File]]
      BY <3>1, <3>3, <3>4, <3>6
    <3>. QED BY <3>7 DEF D
  <2>. QED BY <2>1 DEF TypeOK, Places
<1>3. PlaceInv'
  BY DEF PlaceInv
<1>4. OrderInv'
  BY DEF OrderInv, Blocked, InOrder, CqeAt
<1>. QED BY <1>1, <1>2, <1>3, <1>4

LEMMA SubmitStep ==
  ASSUME IInv, submit_to_sq \/ submit_read_request
  PROVE  IInv'
<1>. USE DEF IInv
<1>0. proc = "up" /\ pc = "open" /\ arg \in File
  BY DEF submit_to_sq, submit_read_request
<1>1. ASSUME NEW how \in {"failed", "overrun", "null"}, Exit(how),
             size' \in [File -> Sizes \union {NotRegular, Unknown}]
      PROVE  IInv'
  BY <1>1, ExitStep DEF Ended
<1>3. CASE submit_to_sq
  <2>1. Used(sq) < SQ_ENTRIES /\ program = "uring_cat"
    BY <1>0, <1>3, CatAssumption DEF PlaceInv, submit_to_sq
  <2>2. CASE Exit("failed") /\ UNCHANGED size
    BY <1>1, <2>2 DEF TypeOK
  <2>3. ASSUME NEW n \in Sizes \union {NotRegular}, size' = [size EXCEPT ![arg] = n],
               IF n = NotRegular \/ NoMemory(n) THEN Exit("failed")
               ELSE IF Overruns(n) THEN Exit("overrun")
               ELSE /\ sq' = published(arg)
                    /\ pc' = "enter"
                    /\ UNCHANGED <<program, proc, arg, cq, inflight, overflow, head,
                                   out, result, disturbed>>
        PROVE  IInv'
    <3>1. size' \in [File -> Sizes \union {NotRegular, Unknown}]
      BY <2>3, SizeType
    <3>2. CASE Exit("failed") \/ Exit("overrun")
      BY <1>1, <3>1, <3>2
    <3>. QED BY <1>0, <2>1, <2>3, <3>1, <3>2, PublishStep
  <2>. QED BY <1>3, <2>2, <2>3 DEF submit_to_sq
<1>4. CASE submit_read_request
  <2>1. program = "liburing_cat"
    BY <1>4 DEF submit_read_request
  <2>2. CASE Exit("failed") /\ UNCHANGED size
    BY <1>1, <2>2 DEF TypeOK
  <2>3. ASSUME NEW n \in Sizes \union {NotRegular}, size' = [size EXCEPT ![arg] = n],
               IF NoMemory(n) \/ (NoSqe /\ ~Overruns(n)) THEN Exit("null")
               ELSE IF Overruns(n) THEN Exit("overrun")
               ELSE /\ sq' = published(arg)
                    /\ pc' = "submit"
                    /\ UNCHANGED <<program, proc, arg, cq, inflight, overflow, head,
                                   out, result, disturbed>>
        PROVE  IInv'
    <3>1. size' \in [File -> Sizes \union {NotRegular, Unknown}]
      BY <2>3, SizeType
    <3>2. CASE Exit("null") \/ Exit("overrun")
      BY <1>1, <3>1, <3>2
    <3>3. CASE ~(Exit("null") \/ Exit("overrun"))
      <4>1. ~NoSqe
        BY <2>3, <3>3
      <4>2. Used(sq) < SQ_ENTRIES
        <5>a. sq.tail \in Counter /\ sq.head \in Counter /\ COUNTERS \in Nat \ {0}
          BY RingTypes, CatAssumption
        <5>b. (sq.tail - sq.head) % COUNTERS \in Int
          BY <5>a, SpanBasics
        <5>1. Used(sq) \in Int /\ SQ_ENTRIES \in Int
          BY <5>b, CatAssumption DEF Used
        <5>. QED BY <4>1, <5>1 DEF NoSqe
      <4>. QED BY <1>0, <2>1, <2>3, <3>1, <3>3, <4>2, PublishStep
    <3>. QED BY <3>2, <3>3
  <2>. QED BY <1>4, <2>2, <2>3 DEF submit_read_request
<1>. QED BY <1>3, <1>4

(* io_uring_enter returns; uring_cat copies the head.                      *)
LEMMA EnterStep ==
  ASSUME IInv, EnterReturns \/ EnterInterrupted
  PROVE  IInv'
<1>. USE DEF IInv
<1>0. /\ pc = "enter" /\ program = "uring_cat" /\ Used(sq) = 0 /\ proc = "up"
      /\ pc' = "reap" /\ head' = cq.head
      /\ UNCHANGED <<program, proc, arg, size, ringVars, out, result>>
      /\ \/ Used(cq) >= min_complete /\ UNCHANGED disturbed
         \/ "interrupt" \in Faults /\ disturbed' = disturbed \union {"interrupt"}
  BY DEF EnterReturns, EnterInterrupted, Entered, Reap
<1>1. cq.head \in Counter /\ cq.tail \in Counter
  BY RingTypes
<1>2. TypeOK'
  BY <1>0, <1>1 DEF TypeOK, Places, ringVars
<1>3. PlaceInv'
  BY <1>0 DEF PlaceInv, Used, ringVars
<1>4. unread' = unread /\ Submitted' = Submitted
  BY <1>0 DEF unread, cursor, Submitted, ringVars
<1>5. (head' - cq.head) % COUNTERS <= Used(cq)
  <2>1. (cq.head - cq.head) % COUNTERS = 0 /\ Used(cq) \in 0 .. COUNTERS - 1
    BY <1>1, SpanBasics DEF Used
  <2>2. COUNTERS \in Nat
    BY CatAssumption
  <2>. QED BY <1>0, <2>1, <2>2
<1>6. disturbed' = {} => disturbed = {} /\ head' # cq.tail
  <2>1. Used(cq) >= min_complete => cq.head # cq.tail
    <3>1. Used(cq) >= 1 => (cq.tail - cq.head) % COUNTERS # 0
      BY DEF Used
    <3>. QED BY <1>1, <3>1, SpanBasics DEF min_complete
  <2>. QED BY <1>0, <2>1
<1>. QED BY <1>0, <1>2, <1>3, <1>4, <1>5, <1>6, QuietStep

(* io_uring_submit returns; a wait of liburing_cat is interrupted.         *)
LEMMA SubmitsStep ==
  ASSUME IInv, Submits \/ WaitInterrupted
  PROVE  IInv'
<1>. USE DEF IInv
<1>1. CASE Submits
  <2>0. /\ pc = "submit" /\ pc' = "wait" /\ proc = "up"
        /\ UNCHANGED <<program, proc, arg, size, ringVars, head, out, result>>
        /\ disturbed' \in {disturbed, disturbed \union ({"submit"} \intersect Faults)}
    BY <1>1 DEF Submits
  <2>1. TypeOK'
    BY <2>0 DEF TypeOK, Places, ringVars
  <2>2. PlaceInv'
    BY <2>0 DEF PlaceInv, Used, ringVars
  <2>3. unread' = unread /\ Submitted' = Submitted
    BY <2>0 DEF unread, cursor, Submitted, ringVars
  <2>. QED BY <2>0, <2>1, <2>2, <2>3, QuietStep
<1>2. CASE WaitInterrupted
  <2>0. /\ pc = "wait" /\ pc' = "open" /\ proc = "up" /\ arg' = arg + 1
        /\ "interrupt" \in Faults /\ disturbed' = disturbed \union {"interrupt"}
        /\ UNCHANGED <<program, proc, size, ringVars, head, out, result>>
    BY <1>2 DEF WaitInterrupted, NextFile
  <2>a. /\ arg \in File /\ program = "liburing_cat" /\ (arg + 1) - 1 = arg
        /\ arg + 1 \in 1 .. ARGS + 1
    BY <2>0, CatAssumption DEF PlaceInv, File
  <2>1. TypeOK'
    BY <2>0, <2>a DEF TypeOK, Places, ringVars
  <2>2. PlaceInv'
    BY <2>0, <2>a DEF PlaceInv, Used, ringVars
  <2>3. unread' = unread
    BY <2>0 DEF unread, cursor, ringVars
  <2>5. Submitted' = Submitted
    <3>1. Submitted = 1 .. arg
      BY <2>0 DEF Submitted
    <3>2. Submitted' = 1 .. arg' - 1
      BY <2>0 DEF Submitted
    <3>3. arg' = arg + 1
      BY <2>0
    <3>4. (arg + 1) - 1 = arg
      BY <2>a
    <3>. QED BY <3>1, <3>2, <3>3, <3>4
  <2>4. disturbed' # {}
    BY <2>0
  <2>. QED BY <2>0, <2>1, <2>2, <2>3, <2>4, <2>5, QuietStep
<1>. QED BY <1>1, <1>2

LEMMA NextIInv == IInv /\ [CatNext]_vars => IInv'
<1>. SUFFICES ASSUME IInv, [CatNext]_vars PROVE IInv'
  OBVIOUS
<1>1. CASE app_setup_uring \/ io_uring_queue_init
  BY <1>1, SetupStep
<1>2. CASE submit_to_sq \/ submit_read_request
  BY <1>2, SubmitStep
<1>3. CASE EnterReturns \/ EnterInterrupted
  BY <1>3, EnterStep
<1>4. CASE EnterFails
  BY <1>4, ExitStep DEF EnterFails, Ended, IInv, TypeOK
<1>5. CASE read_from_cq
  BY <1>5, ReadFromCq
<1>6. CASE EndOfCq
  BY <1>6, EndOfCqStep
<1>7. CASE Submits \/ WaitInterrupted
  BY <1>7, SubmitsStep
<1>8. CASE get_completion_and_print
  BY <1>8, GetCompletion
<1>9. CASE Return
  BY <1>9, ExitStep DEF Return, Ended, IInv, TypeOK
<1>10. CASE Consume
  BY <1>10, ConsumePlaces
<1>11. CASE FlushOverflow
  BY <1>11, FlushPlaces
<1>12. ASSUME NEW f \in File, Complete(f) PROVE IInv'
  BY <1>12, CompletePlaces
<1>13. CASE UNCHANGED vars
  <2>1. TypeOK'
    BY <1>13 DEF vars, ringVars, IInv, TypeOK
  <2>2. PlaceInv'
    BY <1>13 DEF vars, ringVars, IInv, PlaceInv, Used
  <2>3. unread' = unread /\ Submitted' = Submitted
    BY <1>13 DEF vars, ringVars, unread, cursor, Submitted
  <2>4. pc' = "reap" => (head' - cq.head) % COUNTERS <= Used(cq)
    BY <1>13 DEF vars, IInv, CountersInv
  <2>. QED BY <1>13, <2>1, <2>2, <2>3, <2>4, QuietStep DEF vars
<1>. QED
  BY <1>1, <1>2, <1>3, <1>4, <1>5, <1>6, <1>7, <1>8, <1>9, <1>10, <1>11, <1>12, <1>13
     DEF CatNext, UringCatSteps, UringCatFaults, LiburingCatSteps

(* Where each read is, in every reachable state, for any number of files,  *)
(* sizes of the rings and width of their counters.                         *)
THEOREM Invariance == Spec => []IInv
<1>. QED BY InitIInv, NextIInv, PTL DEF Spec

(* Every variable keeps its type.                                          *)
THEOREM TypeCorrect == Spec => []TypeOK
<1>1. IInv => TypeOK
  BY DEF IInv
<1>. QED BY <1>1, Invariance, PTL

(* No CQE is taken twice or overwritten before it was read, although the   *)
(* counters wrap, and each is printed for what its own read has returned.  *)
THEOREM EachReadIsPrintedOnce == Spec => []EachReadPrintedOnce
<1>1. IInv => EachReadPrintedOnce
  BY DEF IInv, ResultInv
<1>. QED BY <1>1, Invariance, PTL

(* Undisturbed, the files come out in order, and all of them, or all those *)
(* before the first read that failed in the case of liburing_cat.          *)
THEOREM AllArePrintedInOrder == Spec => []AllPrintedInOrder
<1>1. IInv => AllPrintedInOrder
  <2>. SUFFICES ASSUME IInv, disturbed = {}
                PROVE  /\ \A i, j \in DOMAIN out : i < j => out[i].file < out[j].file
                       /\ proc = "done" => \A f \in File :
                            \/ IsPrinted(f)
                            \/ program = "liburing_cat" /\ \E g \in 1 .. f : result[g] = "err"
    BY DEF AllPrintedInOrder
  <2>. USE DEF IInv
  <2>l. Len(out) \in Nat /\ DOMAIN out = 1 .. Len(out)
    BY Lines
  <2>1. PICK n : InOrder(n)
    BY DEF OrderInv, Blocked
  <2>2. \A i \in DOMAIN out : out[i].file = i /\ i \in Nat
    BY <2>1, <2>l DEF InOrder
  <2>3. ASSUME proc = "done", NEW f \in File, ~IsPrinted(f)
        PROVE  program = "liburing_cat" /\ \E g \in 1 .. f : result[g] = "err"
    <3>1. pc = "open" /\ arg = ARGS + 1 /\ ARGS \in Nat /\ f \in 1 .. ARGS
      BY <2>3, CatAssumption DEF PlaceInv, File
    <3>2. f \notin DOMAIN out
      BY <2>2, <2>3 DEF IsPrinted
    <3>3. ~InOrder(arg - 1)
      <4>1. arg - 1 = ARGS
        BY <3>1
      <4>2. ~InOrder(ARGS)
        BY <2>l, <3>1, <3>2 DEF InOrder
      <4>. QED BY <4>1, <4>2
    <3>4. Blocked
      BY <3>1, <3>3 DEF OrderInv
    <3>. PICK q : q = CqeAt(cq.head)
      OBVIOUS
    <3>5. q \in Cqe /\ cq.head \in unread
      BY <3>1, <3>4, RingTypes, AtSlots, SpanBasics DEF Blocked, unread, cursor
    <3>6. q.data \in 1 .. ARGS /\ result[q.data] = "err" /\ Len(out) = q.data - 1
      BY <3>4, <3>5 DEF Cqe, File, Blocked, ResultInv, InOrder
    <3>7. q.data \in 1 .. f
      BY <2>l, <3>1, <3>2, <3>6
    <3>. QED BY <3>4, <3>6, <3>7 DEF Blocked
  <2>. QED BY <2>2, <2>3
<1>. QED BY <1>1, Invariance, PTL

================================================================================
