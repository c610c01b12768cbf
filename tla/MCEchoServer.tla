------------------------------ MODULE MCEchoServer -----------------------------
(***************************************************************************)
(* EchoServer on small instances; the values are in the .cfg files.        *)
(***************************************************************************)
EXTENDS EchoServer, TLC

(* Connections, descriptors and buffers are only compared with each other; *)
(* the messages of a connection are numbered.                              *)
Symmetric == Permutations(Client) \union Permutations(Fd) \union Permutations(Bid)

================================================================================
