------------------------------ MODULE MCJffs2 ------------------------------
(* Jffs2 with a few blocks; see README.md for the bounds. *)
EXTENDS Jffs2, TLC
CONSTANTS b1, b2, b3, b4, n1, n2
MCBlocks == {b1, b2, b3, b4}
MCNames == {n1, n2}
Symmetry == Permutations(MCBlocks) \cup Permutations(MCNames)
=============================================================================
