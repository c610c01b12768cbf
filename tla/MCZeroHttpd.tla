------------------------------- MODULE MCZeroHttpd -----------------------------
(***************************************************************************)
(* ZeroHttpd on small instances; the values are in the .cfg files.         *)
(***************************************************************************)
EXTENDS ZeroHttpd

================================================================================
