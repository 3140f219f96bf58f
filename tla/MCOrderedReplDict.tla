------------------------- MODULE MCOrderedReplDict --------------------------
(* OrderedReplDict on small sets of keys, and its refinement of OrderedQueue. *)
EXTENDS OrderedReplDict
=============================================================================
