--------------------------------- MODULE RingInv --------------------------------
(***************************************************************************)
(* The number of operations of a kind that are outstanding, for the        *)
(* inductive invariants of the servers.                                    *)
(***************************************************************************)
EXTENDS IoUring

(* How many operations of kind E are outstanding.                          *)
Some(E) ==
  \/ \E i \in DOMAIN sq : sq[i] \in E
  \/ \E e \in inflight : e \in E
  \/ \E q \in cq : q.op \in E

AtMostOne(E) ==
  /\ \A i, j \in DOMAIN sq : sq[i] \in E /\ sq[j] \in E => i = j
  /\ \A e, d \in inflight : e \in E /\ d \in E => e = d
  /\ \A q, r \in cq : q.op \in E /\ r.op \in E => q = r
  /\ \A i \in DOMAIN sq, e \in inflight : ~(sq[i] \in E /\ e \in E)
  /\ \A i \in DOMAIN sq, q \in cq : ~(sq[i] \in E /\ q.op \in E)
  /\ \A e \in inflight, q \in cq : ~(e \in E /\ q.op \in E)

One(E) == Some(E) /\ AtMostOne(E)

================================================================================
