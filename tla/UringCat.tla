-------------------------------- MODULE UringCat --------------------------------
(***************************************************************************)
(* demo/uring_cat.c: cat over raw rings.  Each file is submitted by one    *)
(* io_uring_enter, which also waits for a completion; read_from_cq then    *)
(* prints every completion it finds, while the kernel may post more.       *)
(***************************************************************************)
EXTENDS CatRing

(* Any of the calls may fail; then main returns.  The rings are zero-filled.*)
app_setup_uring ==
  /\ proc = "up" /\ program = "uring_cat" /\ pc = "setup"
  /\ \/ pc' = "open"
        /\ UNCHANGED <<program, proc, arg, ringVars, head, out, result, disturbed>>
     \/ "setup" \in Faults /\ Exit("failed")
  /\ UNCHANGED size

(* submit_to_sq up to io_uring_enter: one step, since the kernel looks at  *)
(* none of it before.  Each error is an exit of main.                      *)
submit_to_sq ==
  /\ proc = "up" /\ program = "uring_cat" /\ pc = "open" /\ arg \in File
  /\ \/ "open" \in Faults /\ Exit("failed") /\ UNCHANGED size
     \/ \E n \in Sizes \union {NotRegular} :
          /\ size' = [size EXCEPT ![arg] = n]
          /\ IF n = NotRegular \/ NoMemory(n) THEN Exit("failed")
             ELSE IF Overruns(n) THEN Exit("overrun")
             ELSE /\ sq' = published(arg)
                  /\ pc' = "enter"
                  /\ UNCHANGED <<program, proc, arg, cq, inflight, overflow, head,
                                 out, result, disturbed>>

(* io_uring_enter(ring_fd, 1, 1, IORING_ENTER_GETEVENTS) returns when the  *)
(* SQE was consumed and a CQE is there.  A wait that is interrupted then   *)
(* returns 1 all the same; a call that fails consumes nothing.             *)
(* Bug variant: min_complete is 0.                                         *)
NoWait_min_complete == 0
min_complete == 1

Entered == proc = "up" /\ program = "uring_cat" /\ pc = "enter"

Reap == /\ pc' = "reap" /\ head' = cq.head
        /\ UNCHANGED <<program, proc, arg, size, ringVars, out, result>>

EnterReturns ==
  /\ Entered /\ Used(sq) = 0 /\ Used(cq) >= min_complete
  /\ Reap /\ UNCHANGED disturbed

EnterInterrupted ==
  /\ Entered /\ Used(sq) = 0 /\ Used(cq) = 0 /\ "interrupt" \in Faults
  /\ Reap /\ disturbed' = disturbed \union {"interrupt"}

EnterFails ==
  /\ Entered /\ Used(sq) > 0 /\ "submit" \in Faults
  /\ Exit("failed") /\ UNCHANGED size

(* A turn of read_from_cq's loop; the tail is read anew in each.  An error *)
(* is reported, and the blocks are printed as after any read.              *)
read_from_cq ==
  /\ proc = "up" /\ pc = "reap" /\ head # cq.tail
  /\ out' = Printed(CqeAt(head))
  /\ head' = Inc(head)
  /\ UNCHANGED <<program, proc, pc, arg, size, ringVars, result, disturbed>>

(* Its end: the head is published after the entries were read.             *)
EndOfCq ==
  /\ proc = "up" /\ pc = "reap" /\ head = cq.tail
  /\ cq' = seen(head)
  /\ NextFile
  /\ UNCHANGED <<program, proc, size, sq, inflight, overflow, head, out, result, disturbed>>

UringCatSteps ==
  \/ app_setup_uring \/ submit_to_sq
  \/ EnterReturns
  \/ read_from_cq \/ EndOfCq

UringCatFaults == EnterInterrupted \/ EnterFails

================================================================================
