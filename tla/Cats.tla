---------------------------------- MODULE Cats ----------------------------------
(***************************************************************************)
(* The two versions of cat, each with the kernel, on any files: what they  *)
(* print, and what they promise alike.                                     *)
(***************************************************************************)
EXTENDS UringCat, LiburingCat

CONSTANT Programs  \* {"uring_cat", "liburing_cat"}, or one of them

ASSUME ProgramsAssumption == Programs \subseteq {"uring_cat", "liburing_cat"}

(* main of either, before the rings are set up.                            *)
Init ==
  /\ program \in Programs
  /\ proc = "up" /\ pc = "setup" /\ arg = 1
  /\ size = [f \in File |-> Unknown]
  /\ sq = [head |-> 0, tail |-> 0, array |-> [i \in 0 .. SQ_ENTRIES - 1 |-> 0],
           sqes |-> [i \in 0 .. SQ_ENTRIES - 1 |-> 1]]
  /\ cq = [head |-> 0, tail |-> 0,
           cqes |-> [i \in 0 .. CQ_ENTRIES - 1 |-> [data |-> 1, res |-> "ok"]]]
  /\ inflight = {} /\ overflow = <<>>
  /\ head = 0 /\ out = <<>>
  /\ result = [f \in File |-> "none"]
  /\ disturbed = {}

(* main returns after the last file, whatever is still outstanding.        *)
Return ==
  /\ proc = "up" /\ pc = "open" /\ arg = ARGS + 1
  /\ Exit("done") /\ UNCHANGED size

CatNext ==
  \/ UringCatSteps \/ LiburingCatSteps \/ Return
  \/ UringCatFaults \/ WaitInterrupted
  \/ Consume \/ FlushOverflow
  \/ \E f \in File : Complete(f)

(* The one thread runs; the kernel consumes, reads files, which does not   *)
(* depend on others, and gives back what it has kept.  Nothing interrupts  *)
(* a wait or fails because it must.                                        *)
Fairness ==
  /\ WF_vars(UringCatSteps) /\ WF_vars(LiburingCatSteps) /\ WF_vars(Return)
  /\ WF_vars(Consume) /\ WF_vars(FlushOverflow)
  /\ \A f \in File : WF_vars(Complete(f))

Spec == Init /\ [][CatNext]_vars /\ Fairness

--------------------------------------------------------------------------------
IsPrinted(f) == \E i \in DOMAIN out : out[i].file = f

(* Each read is printed at most once, after it has completed, and for what *)
(* it returned: no CQE is taken twice, none is overwritten before it was   *)
(* read, although the counters wrap and a wait may be interrupted          *)
(* (uring_cat.c:216-243).  A failed read is printed by uring_cat alone.    *)
EachReadPrintedOnce ==
  /\ \A i, j \in DOMAIN out : out[i].file = out[j].file => i = j
  /\ \A i \in DOMAIN out :
       /\ out[i].as = "whole" <=> result[out[i].file] = "ok"
       /\ \/ result[out[i].file] \in {"ok", "short"}
          \/ program = "uring_cat" /\ result[out[i].file] = "err"

(* Files come out in the order of the command line, and a program that     *)
(* ends normally has printed every one, unless a call failed or a wait was *)
(* interrupted, with two reads outstanding; but liburing_cat prints only   *)
(* those before the first read that failed: the CQE of that one stays in   *)
(* the ring, and every later wait finds it again (liburing_cat.c:65-68).   *)
AllPrintedInOrder ==
  disturbed = {} =>
    /\ \A i, j \in DOMAIN out : i < j => out[i].file < out[j].file
    /\ proc = "done" => \A f \in File :
         IsPrinted(f) \/ (program = "liburing_cat" /\ \E g \in 1 .. f : result[g] = "err")

(* The iovecs fit into the block that was allocated for them unless the    *)
(* size of the file is no int (uring_cat.c:267, liburing_cat.c:93).        *)
IovecsFit == proc = "overrun" => \E f \in File : size[f] >= INT

(* The program ends, whatever fails; only a submission that failed leaves  *)
(* liburing_cat waiting for what was not submitted (liburing_cat.c:131).   *)
Ends == <>(proc # "up" \/ (program = "liburing_cat" /\ "submit" \in disturbed))

(* "Wait for a completion to be available, fetch the data from the readv   *)
(* operation and print it to the console" (liburing_cat.c:53-56): what     *)
(* was read is printed before the program returns.                         *)
FetchedAndPrinted ==
  proc = "done" => \A f \in File : result[f] = "ok" => IsPrinted(f)

================================================================================
