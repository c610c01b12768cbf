----------------------------- MODULE EchoCoroutineInv ---------------------------
(***************************************************************************)
(* The inductive invariant behind the safety properties of EchoCoroutine.  *)
(* The operations, descriptors and buffers are accounted for as in         *)
(* EchoServer; to that come the frames of the coroutines and the map that  *)
(* leads to them.                                                          *)
(***************************************************************************)
EXTENDS EchoCoroutine, EchoServerInv

Waiting(c) == co[c] \in {"read", "write"}

(* A coroutine waits exactly while its connection has a transfer           *)
(* outstanding, and the map leads to the coroutines that wait and to no    *)
(* other, each under its own descriptor.                                   *)
WaitingInv ==
  \A c \in Client :
    /\ Waiting(c) <=> Some(Wakeups(c))
    /\ Waiting(c) => /\ info[c].fd \in Fd /\ open[info[c].fd] = c
                     /\ connections[info[c].fd] = c
    /\ Fresh(c) => co[c] = "none"

MapInv ==
  \A f \in Fd : connections[f] # None =>
    open[f] = connections[f] /\ Waiting(connections[f])

(* A read asks for no part of a message, and a buffer is given back with   *)
(* the descriptor it was received from.                                    *)
PayloadInv ==
  /\ \A q \in cq : q.op.type = "READ" => q.res # "short"
  /\ \A e \in Operations : e.type = "PROV_BUF" => e.fd \in Fd /\ open[e.fd] = e.conn

FrameInv == FramesAlive /\ WaitingInv /\ MapInv /\ PayloadInv

CoInv == CoroutineTypeOK /\ LendInv /\ FrameInv

================================================================================
