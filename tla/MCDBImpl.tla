------------------------------ MODULE MCDBImpl ------------------------------
(* Small instances of DBImpl. *)
EXTENDS DBImplInv, TLC

Symmetry == Permutations(Clients)
=============================================================================
