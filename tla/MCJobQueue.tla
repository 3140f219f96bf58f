----------------------------- MODULE MCJobQueue -----------------------------
(* Small instances of JobQueue for TLC: the cfg files choose the constants. *)
EXTENDS JobQueue
=============================================================================
