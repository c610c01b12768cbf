------------------------------- MODULE LiburingCat ------------------------------
(***************************************************************************)
(* demo/liburing_cat.c: cat over liburing.  main looks at the result of    *)
(* submit_read_request, not at that of get_completion_and_print.           *)
(***************************************************************************)
EXTENDS CatRing

(* Its result is not looked at.                                            *)
io_uring_queue_init ==
  /\ proc = "up" /\ program = "liburing_cat" /\ pc = "setup"
  /\ pc' = "open"
  /\ disturbed' \in {disturbed, disturbed \union ({"setup"} \intersect Faults)}
  /\ UNCHANGED <<program, proc, arg, size, ringVars, head, out, result>>

(* io_uring_get_sqe: NULL when the kernel has not taken the last SQE; of a *)
(* ring that was not set up, not even that.                                *)
NoSqe == Used(sq) >= SQ_ENTRIES \/ "setup" \in disturbed

(* submit_read_request up to io_uring_submit.  The size is not checked:    *)
(* what is not a regular file is submitted with one iovec of length -1.    *)
submit_read_request ==
  /\ proc = "up" /\ program = "liburing_cat" /\ pc = "open" /\ arg \in File
  /\ \/ "open" \in Faults /\ Exit("failed") /\ UNCHANGED size
     \/ \E n \in Sizes \union {NotRegular} :
          /\ size' = [size EXCEPT ![arg] = n]
          /\ IF NoMemory(n) \/ (NoSqe /\ ~Overruns(n)) THEN Exit("null")
             ELSE IF Overruns(n) THEN Exit("overrun")
             ELSE /\ sq' = published(arg)
                  /\ pc' = "submit"
                  /\ UNCHANGED <<program, proc, arg, cq, inflight, overflow, head,
                                 out, result, disturbed>>

(* io_uring_submit; its result is not looked at.  It also fails, on some   *)
(* kernels, while completions are kept back.                               *)
Submits ==
  /\ proc = "up" /\ pc = "submit"
  /\ \/ Used(sq) = 0 /\ UNCHANGED disturbed
     \/ /\ Used(sq) > 0 /\ ("submit" \in Faults \/ overflow # <<>>)
        /\ disturbed' = disturbed \union ({"submit"} \intersect Faults)
  /\ pc' = "wait"
  /\ UNCHANGED <<program, proc, arg, size, ringVars, head, out, result>>

(* get_completion_and_print: io_uring_wait_cqe has a CQE.  After a failed  *)
(* read it returns before io_uring_cqe_seen.                               *)
get_completion_and_print ==
  /\ proc = "up" /\ pc = "wait" /\ Used(cq) > 0
  /\ LET q == CqeAt(cq.head) IN
       IF q.res = "err" THEN UNCHANGED <<cq, out>>
       ELSE out' = Printed(q) /\ cq' = seen(Inc(cq.head))
  /\ NextFile
  /\ UNCHANGED <<program, proc, size, sq, inflight, overflow, head, result, disturbed>>

(* io_uring_wait_cqe returns -EINTR.                                       *)
WaitInterrupted ==
  /\ proc = "up" /\ pc = "wait" /\ Used(cq) = 0 /\ "interrupt" \in Faults
  /\ disturbed' = disturbed \union {"interrupt"}
  /\ NextFile
  /\ UNCHANGED <<program, proc, size, ringVars, head, out, result>>

LiburingCatSteps ==
  \/ io_uring_queue_init
  \/ submit_read_request \/ Submits
  \/ get_completion_and_print

================================================================================
