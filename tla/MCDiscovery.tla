----------------------------- MODULE MCDiscovery ----------------------------
EXTENDS Discovery

CONSTANTS a, b
MCHosts == {a, b}
MCLossy == {<<a, b>>}
MCNone  == {}
=============================================================================
