------------------------------ MODULE MCButtons ------------------------------
(* TLC instances of Buttons.                                               *)
EXTENDS Buttons
=============================================================================
