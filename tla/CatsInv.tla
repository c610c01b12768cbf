--------------------------------- MODULE CatsInv --------------------------------
(***************************************************************************)
(* The inductive invariant behind the safety properties of Cats: where     *)
(* each read is, from when it is put into the SQ to when it is printed.    *)
(***************************************************************************)
EXTENDS Cats

(* The counters from h up to t, t excluded.                                *)
Span(h, t) == {p \in Counter : (p - h) % COUNTERS < (t - h) % COUNTERS}

(* The SQEs the kernel has not consumed, the CQEs the program has not read.*)
queued == Span(sq.head, sq.tail)
cursor == IF pc = "reap" THEN head ELSE cq.head
unread == Span(cursor, cq.tail)

SqeAt(p) == sq.sqes[sq.array[p % SQ_ENTRIES]]

Queued == {SqeAt(p) : p \in queued}
Unread == {CqeAt(p).data : p \in unread}
Kept == {overflow[i].data : i \in DOMAIN overflow}
PrintedFiles == {out[i].file : i \in DOMAIN out}

(* The rings hold no more than they have room for; the program's own copy  *)
(* of the head is between the head and the tail.                           *)
CountersInv ==
  /\ Used(sq) <= SQ_ENTRIES /\ Used(cq) <= CQ_ENTRIES
  /\ pc = "reap" => (head - cq.head) % COUNTERS <= Used(cq)
  /\ \A p \in queued : sq.array[p % SQ_ENTRIES] = p % SQ_ENTRIES

(* uring_cat waits for the kernel to take each SQE before it goes on.      *)
PlaceInv ==
  /\ pc \in {"enter", "reap"} => program = "uring_cat" /\ arg \in File
  /\ pc \in {"submit", "wait"} => program = "liburing_cat" /\ arg \in File
  /\ program = "uring_cat" /\ pc \in {"setup", "open", "reap"} => Used(sq) = 0
  /\ proc = "done" => pc = "open" /\ arg = ARGS + 1

(* A file is in one place only, and there once.                            *)
OncePlacedInv ==
  /\ \A p, q \in queued : SqeAt(p) = SqeAt(q) => p = q
  /\ \A p, q \in unread : CqeAt(p).data = CqeAt(q).data => p = q
  /\ \A i, j \in DOMAIN overflow : overflow[i].data = overflow[j].data => i = j
  /\ \A i, j \in DOMAIN out : out[i].file = out[j].file => i = j
  /\ Queued \intersect (inflight \union Unread \union Kept \union PrintedFiles) = {}
  /\ inflight \intersect (Unread \union Kept \union PrintedFiles) = {}
  /\ Unread \intersect (Kept \union PrintedFiles) = {}
  /\ Kept \intersect PrintedFiles = {}

(* What has been submitted: the file main is at only after the open.       *)
Submitted == 1 .. (IF pc \in {"setup", "open"} THEN arg - 1 ELSE arg)

SubmittedInv ==
  Queued \union inflight \union Unread \union Kept \union PrintedFiles \subseteq Submitted

(* A completion says what the read has returned.                           *)
ResultInv ==
  /\ \A p \in unread : result[CqeAt(p).data] = CqeAt(p).res
  /\ \A i \in DOMAIN overflow : result[overflow[i].data] = overflow[i].res
  /\ EachReadPrintedOnce

(* Undisturbed, the files that were printed are the first ones, and the    *)
(* next to be printed is the one main is at; or liburing_cat has come upon *)
(* a read that failed.                                                     *)
InOrder(n) == Len(out) = n /\ \A i \in 1 .. n : out[i].file = i

Blocked ==
  /\ program = "liburing_cat" /\ cq.head # cq.tail
  /\ CqeAt(cq.head).res = "err" /\ InOrder(CqeAt(cq.head).data - 1)

OrderInv ==
  disturbed = {} =>
    \/ Blocked
    \/ InOrder(arg - 1) /\ (pc = "reap" => head # cq.tail)
    \/ InOrder(arg) /\ pc = "reap"

IInv ==
  /\ TypeOK
  /\ CountersInv
  /\ PlaceInv
  /\ OncePlacedInv
  /\ SubmittedInv
  /\ ResultInv
  /\ OrderInv

================================================================================
