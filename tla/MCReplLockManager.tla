------------------------ MODULE MCReplLockManager ---------------------------
(* ReplLockManager on small sets of clients and locks. *)
EXTENDS ReplLockManager, TLC

\* The peers are interchangeable.
Symmetry == Permutations(Clients)
=============================================================================
