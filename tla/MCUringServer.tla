----------------------------- MODULE MCUringServer -----------------------------
(***************************************************************************)
(* UringServer on small instances; the values are in the .cfg files.       *)
(***************************************************************************)
EXTENDS UringServerInv, TLC

(* Connections, descriptors and buffers are only compared with each other. *)
Symmetric == Permutations(Client) \union Permutations(Fd) \union Permutations(Bid)

================================================================================
