--------------------------------- MODULE CatRing --------------------------------
(***************************************************************************)
(* What the two versions of cat share: file_info with its iovecs, and the  *)
(* rings between the program and the kernel.  demo/uring_cat.c handles the *)
(* rings itself; liburing does it for demo/liburing_cat.c, in the same way.*)
(*                                                                         *)
(* Heads and tails are counters that run freely, modulo 2^32, and are      *)
(* masked on use.  Neither program asks for a polling kernel thread, so    *)
(* SQEs are only consumed within a system call, which is a barrier too;    *)
(* completions are posted at any time.                                     *)
(***************************************************************************)
EXTENDS Integers, Sequences

CONSTANTS
  ARGS,        \* file names on the command line: without one, main ends at once
  Sizes,       \* sizes of files
  BLOCK_SZ,    \* bytes of a block: 1024
  INT,         \* values of an int: - INT .. INT - 1, with INT = 2^31
  IOV_MAX,     \* iovecs that readv takes: 1024
  SQ_ENTRIES,  \* QUEUE_DEPTH: 1
  CQ_ENTRIES,  \* twice as many
  COUNTERS,    \* values of a head or a tail: 2^32
  Faults       \* "setup", "open", "read", "short", "submit", "interrupt"

ASSUME CatAssumption ==
  /\ ARGS \in Nat \ {0} /\ Sizes \subseteq Nat
  /\ BLOCK_SZ \in Nat \ {0, 1} /\ INT \in Nat \ {0} /\ IOV_MAX \in Nat
  /\ SQ_ENTRIES \in Nat \ {0} /\ CQ_ENTRIES \in Nat \ {0}
  /\ COUNTERS \in Nat /\ COUNTERS > SQ_ENTRIES /\ COUNTERS > CQ_ENTRIES
  /\ COUNTERS % SQ_ENTRIES = 0 /\ COUNTERS % CQ_ENTRIES = 0
  /\ Faults \subseteq {"setup", "open", "read", "short", "submit", "interrupt"}

File == 1 .. ARGS
Counter == 0 .. COUNTERS - 1

VARIABLES
  program,   \* which of the two programs this is
  proc,      \* "up", or how it has ended
  pc,        \* where it is: see Places
  arg,       \* the file it is at: i of main
  size,      \* fi->file_sz of each file, Unknown at first
  sq, cq,    \* the rings
  inflight,  \* files being read
  overflow,  \* completions the CQ has no room for, kept by the kernel
  head,      \* read_from_cq's own copy of the CQ's head
  out,       \* what has been printed
  result,    \* what each read has returned: nothing in the program
  disturbed  \* faults that have happened: nothing in the program

ringVars == <<sq, cq, inflight, overflow>>
vars == <<program, proc, pc, arg, size, ringVars, head, out, result, disturbed>>

Places == {"setup", "open",    \* both
           "enter", "reap",    \* uring_cat
           "submit", "wait"}   \* liburing_cat
Ended == {"done",      \* main has returned
          "failed",    \* "Error reading file"
          "overrun",   \* an iovec was written past the end of file_info
          "null"}      \* a pointer that is NULL or was never set was used

Unknown == -2          \* a size that was not asked for yet
NotRegular == -1       \* what get_file_size says of a directory
Results == {"ok", "short", "err"}
Cqe == [data : File, res : Results]

TypeOK ==
  /\ program \in {"uring_cat", "liburing_cat"}
  /\ proc \in {"up"} \union Ended
  /\ pc \in Places /\ arg \in 1 .. ARGS + 1
  /\ size \in [File -> Sizes \union {NotRegular, Unknown}]
  /\ sq \in [head : Counter, tail : Counter,
             array : [0 .. SQ_ENTRIES - 1 -> 0 .. SQ_ENTRIES - 1],
             sqes : [0 .. SQ_ENTRIES - 1 -> File]]
  /\ cq \in [head : Counter, tail : Counter, cqes : [0 .. CQ_ENTRIES - 1 -> Cqe]]
  /\ inflight \subseteq File /\ overflow \in Seq(Cqe)
  /\ head \in Counter
  /\ out \in Seq([file : File, as : {"whole", "garbage"}])
  /\ result \in [File -> Results \union {"none"}]
  /\ disturbed \subseteq Faults

--------------------------------------------------------------------------------
(* (int) file_sz / BLOCK_SZ: the cast comes first, and C divides towards   *)
(* zero.  The rest is taken from the file_sz that is not cast.             *)
ToInt(n) == ((n + INT) % (2 * INT)) - INT
Quotient(n, d) == IF n >= 0 THEN n \div d ELSE -((-n) \div d)

(* Bug variant: a last block that is not full is not counted.              *)
RoundedDown_blocks(n) == Quotient(ToInt(n), BLOCK_SZ)
blocks(n) == Quotient(ToInt(n), BLOCK_SZ) + (IF n % BLOCK_SZ = 0 THEN 0 ELSE 1)

(* Turns of the loop that fills in an iovec for each block.  A size of -1  *)
(* takes one turn, with a length of -1.                                    *)
filled(n) == IF n = NotRegular THEN 1 ELSE (n + BLOCK_SZ - 1) \div BLOCK_SZ

(* malloc's argument is huge when the number of blocks is negative.        *)
NoMemory(n) == blocks(n) < 0
Overruns(n) == ~NoMemory(n) /\ filled(n) > blocks(n)

--------------------------------------------------------------------------------
(* Bug variant: a counter wider than the one in the ring.                  *)
Wider_Inc(n) == n + 1
Inc(n) == (n + 1) % COUNTERS
Used(ring) == (ring.tail - ring.head) % COUNTERS

(* The SQE at the tail, its index in the array, the new tail.              *)
(* Bug variant: the tail is not moved.                                     *)
Unmoved_published(f) ==
  LET index == sq.tail % SQ_ENTRIES IN
  [sq EXCEPT !.sqes[index] = f, !.array[index] = index]
published(f) ==
  LET index == sq.tail % SQ_ENTRIES IN
  [sq EXCEPT !.sqes[index] = f, !.array[index] = index, !.tail = Inc(sq.tail)]

CqeAt(n) == cq.cqes[n % CQ_ENTRIES]

(* Bug variant: the CQE is left in the ring.                               *)
Unseen_seen(n) == cq
seen(n) == [cq EXCEPT !.head = n]

(* output_to_console: what the iovecs hold, whatever the read has put there.*)
Printed(q) ==
  Append(out, [file |-> q.data, as |-> IF q.res = "ok" THEN "whole" ELSE "garbage"])

NextFile == pc' = "open" /\ arg' = arg + 1

Exit(how) ==
  /\ proc' = how
  /\ UNCHANGED <<program, pc, arg, ringVars, head, out, result, disturbed>>

--------------------------------------------------------------------------------
(* The kernel.  readv fails on what is not a file, and on too many iovecs. *)
Reads(f) ==
  IF size[f] = NotRegular \/ blocks(size[f]) > IOV_MAX THEN {"err"}
  ELSE {"ok"} \union (IF "read" \in Faults THEN {"err"} ELSE {})
              \union (IF "short" \in Faults /\ size[f] > 0 THEN {"short"} ELSE {})

Consume ==
  /\ proc = "up" /\ pc \in {"enter", "submit"} /\ Used(sq) > 0
  /\ inflight' = inflight \union {sq.sqes[sq.array[sq.head % SQ_ENTRIES]]}
  /\ sq' = [sq EXCEPT !.head = Inc(sq.head)]
  /\ UNCHANGED <<program, proc, pc, arg, size, cq, overflow, head, out, result, disturbed>>

Posted(q) ==
  [cq EXCEPT !.cqes[cq.tail % CQ_ENTRIES] = q, !.tail = Inc(cq.tail)]

Complete(f) ==
  /\ proc = "up" /\ f \in inflight
  /\ inflight' = inflight \ {f}
  /\ \E res \in Reads(f) :
       LET q == [data |-> f, res |-> res] IN
       /\ result' = [result EXCEPT ![f] = res]
       /\ IF Used(cq) < CQ_ENTRIES /\ overflow = <<>>
          THEN cq' = Posted(q) /\ UNCHANGED overflow
          ELSE overflow' = Append(overflow, q) /\ UNCHANGED cq
  /\ UNCHANGED <<program, proc, pc, arg, size, sq, head, out, disturbed>>

(* A wait first moves what was kept back into the CQ.                      *)
FlushOverflow ==
  /\ proc = "up" /\ pc \in {"enter", "wait"}
  /\ overflow # <<>> /\ Used(cq) < CQ_ENTRIES
  /\ cq' = Posted(Head(overflow)) /\ overflow' = Tail(overflow)
  /\ UNCHANGED <<program, proc, pc, arg, size, sq, inflight, head, out, result, disturbed>>

================================================================================
