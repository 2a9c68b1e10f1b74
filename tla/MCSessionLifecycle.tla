-------------------------- MODULE MCSessionLifecycle --------------------------
(* SessionLifecycle on small instances.                                    *)
EXTENDS SessionLifecycle, TLC

Symmetry == Permutations(Requests) \union Permutations(Sweepers)

=============================================================================
