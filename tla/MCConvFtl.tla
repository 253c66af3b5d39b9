----------------------------- MODULE MCConvFtl -------------------------------
(* Small instances of ConvFtl for TLC. *)
EXTENDS ConvFtl, TLC

(* Logical pages are interchangeable. *)
LpnSymmetry == Permutations(Lpns)
=============================================================================
