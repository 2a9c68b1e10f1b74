----------------------------- MODULE MCTransform -----------------------------
(* Transform on small instances.                                           *)
EXTENDS Transform, TLC

Symmetry == Permutations(Clients) \union Permutations(Contents)

=============================================================================
