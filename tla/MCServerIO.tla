----------------------------- MODULE MCServerIO -----------------------------
(* ServerIO with small channels: see the cfg file. *)
EXTENDS ServerIO
=============================================================================
