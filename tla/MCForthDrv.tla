----------------------------- MODULE MCForthDrv -----------------------------
(* TLC instances of ForthDrv.                                              *)
EXTENDS ForthDrv, TLC

ProcSymmetry == Permutations(Procs)
=============================================================================
