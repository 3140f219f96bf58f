----------------------------- MODULE MCStartup ------------------------------
(* Startup with two processes and a peer: see the cfg file. *)
EXTENDS Startup
=============================================================================
