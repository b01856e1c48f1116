----------------------------- MODULE MCFifthDrv -----------------------------
(* TLC instance of FifthDrv.                                               *)
EXTENDS FifthDrv
=============================================================================
