------------------------------- MODULE MCDevtools -------------------------------
(* Devtools with spans that can be exchanged for one another.               *)
EXTENDS Devtools, TLC

Symmetry == Permutations(Span)
================================================================================
