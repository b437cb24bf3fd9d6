------------------------------ MODULE MCControl -----------------------------
(* A small instance of Control.                                            *)
EXTENDS Control, TLC

CONSTANTS t1, t2

MCTag == {t1, t2}

TagSymmetry == Permutations(MCTag)

=============================================================================
