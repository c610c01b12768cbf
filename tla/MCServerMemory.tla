----------------------------- MODULE MCServerMemory ----------------------------
(***************************************************************************)
(* ServerMemory on small instances; the values are in the .cfg files.      *)
(***************************************************************************)
EXTENDS ServerMemory, TLC

(* Buffers are not interchangeable, they have neighbours; clients are.     *)
Symmetric == Permutations(Client)

================================================================================
