------------------------------ MODULE MCPoller ------------------------------
(* Poller with small numbers of polls and answers: see the cfg files. *)
EXTENDS Poller
=============================================================================
