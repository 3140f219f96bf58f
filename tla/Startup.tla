------------------------------ MODULE Startup -------------------------------
(***************************************************************************)
(* What main() of main.go does before the server: it loads or generates    *)
(* the keys (KeyFiles) and then looks for peers (PeerDiscovery).  Several  *)
(* processes use the key files; the discovery is that of one of them, the  *)
(* Server, each time it is started.                                        *)
(***************************************************************************)
EXTENDS KeyFiles

CONSTANTS Server, Self, Peers, Bootstraps, Methods

ASSUME ServerAssumption == Server \in Procs /\ Self \notin Peers
ASSUME MethodsAssumption == Methods \subseteq {"MDNS", "DHT"}

VARIABLES method, main, search, pending, handling, found, met

D == INSTANCE PeerDiscovery

discoveryVars == <<method, main, search, pending, handling, found, met>>

startupVars == <<vars, discoveryVars>>

StartupInit == Init /\ D!Init

\* The server ends in whatever it does.
EndServer ==
    /\ End(Server)
    /\ IF main = "off" THEN UNCHANGED discoveryVars ELSE D!Stop

\* main gets to discovery.New when it has its keys.
Discover == job[Server] = "run" /\ D!New /\ UNCHANGED vars

StartupNext ==
    \/ \E p \in Procs : Step(p) /\ UNCHANGED discoveryVars
    \/ \E p \in Procs \ {Server} : End(p) /\ UNCHANGED discoveryVars
    \/ EndServer \/ Discover
    \/ D!Step /\ UNCHANGED vars

StartupSpec == StartupInit /\ [][StartupNext]_startupVars /\ D!Fairness

-----------------------------------------------------------------------------
(* Properties of the parts, where they are together *)

\* The variables of both parts have their types, and only a server that has its
\* keys looks for peers.
StartupTypeOK == TypeOK /\ D!TypeOK /\ (main # "off" => job[Server] = "run")

\* AwaitReady returns without error only after Connect has succeeded, in this
\* life of the process.
ReadyMeansMet == D!ReadyMeansMet

\* With MDNS a notification that finds both goroutines waiting makes the server
\* ready, in this life of the process.
HeardBecomesReady == D!HeardBecomesReady

\* A server that has found its peers, by MDNS or the DHT, does not end with
\* "Error connecting to peers" (main.go; docs/process-architecture.md, Discovery).
FoundMeansReady == D!FoundMeansReady
=============================================================================
