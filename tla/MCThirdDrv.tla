----------------------------- MODULE MCThirdDrv -----------------------------
(* TLC instances of ThirdDrv.                                              *)
EXTENDS ThirdDrv
=============================================================================
