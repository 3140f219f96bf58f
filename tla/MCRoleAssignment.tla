-------------------------- MODULE MCRoleAssignment --------------------------
(* RoleAssignment with two trusted peers and a listener: see the cfg files. *)
EXTENDS RoleAssignment

CONSTANTS t1, t2, l1

\* The listener is connected to one trusted peer only, which relays.
Line == {<<t1, t2>>, <<t2, l1>>}

\* Everybody is connected to everybody.
Mesh == {<<t1, t2>>, <<t2, l1>>, <<t1, l1>>}
=============================================================================
