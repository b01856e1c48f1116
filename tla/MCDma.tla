------------------------------- MODULE MCDma -------------------------------
(* TLC instance of Dma.                                                    *)
EXTENDS Dma
=============================================================================
