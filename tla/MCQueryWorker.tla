----------------------------- MODULE MCQueryWorker -----------------------------
(* QueryWorker on a small instance.                                        *)
EXTENDS QueryWorker

=============================================================================
