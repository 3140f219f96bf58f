---------------------------- MODULE MCRaftGroup -----------------------------
(* RaftGroup with three and with four trusted peers: see the cfg files. *)
EXTENDS RaftGroup, TLC

\* The peers are interchangeable.
Symmetry == Permutations(Nodes)
=============================================================================
