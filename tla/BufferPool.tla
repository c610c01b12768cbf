------------------------------ MODULE BufferPool ------------------------------
(***************************************************************************)
(* What a server of this repository promises of its provided buffers: a    *)
(* buffer is lent to one connection at a time, a connection has at most    *)
(* one, only the borrower gives it back, and only then does it return to   *)
(* the pool, from which it is lent again.                                  *)
(***************************************************************************)
CONSTANTS Conn, Buffer, Pool

VARIABLES
  owner,     \* the borrower of each buffer, or Pool
  released   \* buffers their borrower is done with, on their way back

vars == <<owner, released>>

TypeOK ==
  /\ owner \in [Buffer -> Conn \union {Pool}]
  /\ released \subseteq Buffer

Init ==
  /\ owner = [b \in Buffer |-> Pool]
  /\ released = {}

Lend(c, b) ==
  /\ owner[b] = Pool
  /\ \A d \in Buffer : owner[d] = c => d \in released
  /\ owner' = [owner EXCEPT ![b] = c]
  /\ UNCHANGED released

Release(b) ==
  /\ owner[b] # Pool /\ b \notin released
  /\ released' = released \union {b}
  /\ UNCHANGED owner

Return(b) ==
  /\ b \in released
  /\ owner' = [owner EXCEPT ![b] = Pool]
  /\ released' = released \ {b}

Next ==
  \/ \E c \in Conn, b \in Buffer : Lend(c, b)
  \/ \E b \in Buffer : Release(b) \/ Return(b)

Spec == Init /\ [][Next]_vars

(* No buffer leaks: a borrower releases it and it returns to the pool.     *)
FairSpec == Spec /\ \A b \in Buffer : WF_vars(Release(b)) /\ WF_vars(Return(b))

================================================================================
