------------------------------- MODULE MCKeyPool -------------------------------
(* KeyPool on a small instance: a pooled model with one fallback of        *)
(* another provider and one more of the same.                              *)
EXTENDS KeyPool, TLC

MCChain == <<"pool", "bare", "pool">>

Symmetry == Permutations(Callers)

=============================================================================
