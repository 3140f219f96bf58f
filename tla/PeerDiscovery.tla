--------------------------- MODULE PeerDiscovery ----------------------------
(***************************************************************************)
(* How a server finds the first peer before it starts anything else:       *)
(*                                                                         *)
(*   discovery/discovery.go  New, HandlePeerFound, notify, AwaitReady,     *)
(*                           discoverPeersMDNS, discoverPeersDHT, initDHT  *)
(*   main.go                 the call of AwaitReady with a timeout         *)
(*                                                                         *)
(* The main goroutine waits for onReady, the discovery goroutine for       *)
(* newConn.  Both channels are unbuffered and notify does not wait: it is  *)
(* heard only by a goroutine that already waits.  MDNS calls               *)
(* HandlePeerFound in goroutines of its own, one per peer; with the DHT    *)
(* the discovery goroutine calls it itself.                                *)
(***************************************************************************)
EXTENDS FiniteSets

CONSTANTS
    Self,        \* this host
    Peers,       \* the hosts that use the rendezvous string
    Bootstraps,  \* bootstrapPeers of the DHT
    Methods      \* the values of -local to look at

VARIABLES
    method,    \* the discovery method
    main,      \* where the main goroutine is; "off": New is not called yet
    search,    \* where the discovery goroutine is
    pending,   \* the bootstrap peers that wg still waits for
    handling,  \* handling[p]: where HandlePeerFound(p) is; "done": MDNS has called it
    found,     \* what the current peerChan of FindPeers still has
    met        \* the peers Connect has succeeded with

vars == <<method, main, search, pending, handling, found, met>>

Hosts == Peers \cup {Self}

TypeOK ==
    /\ method \in Methods
    /\ main \in {"off", "begin", "await", "ready", "panic"}
    /\ search \in {"start", "bootstrap", "select", "heard", "find", "range", "end"}
    /\ pending \subseteq Bootstraps
    /\ handling \in [Hosts -> {"no", "connect", "notify", "done"}]
    /\ found \subseteq Hosts
    /\ met \subseteq Peers

Init ==
    /\ method \in Methods
    /\ main = "off" /\ search = "start"
    /\ pending = {} /\ found = {} /\ met = {}
    /\ handling = [p \in Hosts |-> "no"]

-----------------------------------------------------------------------------
(* New and AwaitReady *)

\* Starts the discovery goroutine.
New ==
    /\ main = "off" /\ main' = "begin"
    /\ method' \in Methods
    /\ UNCHANGED <<search, pending, handling, found, met>>

\* The process ends, and with it all goroutines.
Stop ==
    /\ main # "off" /\ main' = "off" /\ search' = "start"
    /\ pending' = {} /\ found' = {} /\ met' = {}
    /\ handling' = [p \in Hosts |-> "no"]
    /\ UNCHANGED method

\* A panic of main ends all goroutines.
Runs == main \notin {"off", "panic"}

Await ==
    /\ main = "begin" /\ main' = "await"
    /\ UNCHANGED <<method, search, pending, handling, found, met>>

\* -connectTimeout is over: main panics.
Timeout ==
    /\ main = "await" /\ main' = "panic"
    /\ UNCHANGED <<method, search, pending, handling, found, met>>

-----------------------------------------------------------------------------
(* HandlePeerFound *)

\* It returns.  MDNS has each host once, FindPeers may have it again.
Handled(p) == handling' = [handling EXCEPT ![p] = IF method = "MDNS" THEN "done" ELSE "no"]

\* Mutant: a failure to connect is notified, too.
ConnectAnyway(p) ==
    /\ Runs /\ handling[p] = "connect"
    /\ \/ met' = met \cup ({p} \ {Self})
       \/ UNCHANGED met
    /\ handling' = [handling EXCEPT ![p] = "notify"]
    /\ UNCHANGED <<method, main, search, pending, found>>

\* Returns at once for this host, and if there is no connection.
Connect(p) ==
    /\ Runs /\ handling[p] = "connect"
    /\ \/ /\ p # Self
          /\ met' = met \cup {p}
          /\ handling' = [handling EXCEPT ![p] = "notify"]
       \/ Handled(p) /\ UNCHANGED met
    /\ UNCHANGED <<method, main, search, pending, found>>

\* Only a goroutine that waits in its select hears of it.
NotifyNewConn(p) ==
    /\ Runs /\ handling[p] = "notify"
    /\ Handled(p)
    /\ search' = IF search = "select" THEN "heard" ELSE search
    /\ UNCHANGED <<method, main, pending, found, met>>

\* Mutant: newConn is notified again, in place of onReady.
NotifyOnReadyWrong ==
    /\ Runs /\ search = "heard" /\ search' = "end"
    /\ UNCHANGED <<method, main, pending, handling, found, met>>

\* The same for onReady.  The discovery goroutine returns.
NotifyOnReady ==
    /\ Runs /\ search = "heard" /\ search' = "end"
    /\ main' = IF main = "await" THEN "ready" ELSE main
    /\ UNCHANGED <<method, pending, handling, found, met>>

-----------------------------------------------------------------------------
(* discoverPeersMDNS *)

\* The service has started and the goroutine waits in its select.
StartMDNS ==
    /\ Runs /\ method = "MDNS" /\ search = "start"
    /\ search' = "select"
    /\ UNCHANGED <<method, main, pending, handling, found, met>>

\* The service reports a host, also before the goroutine that started it gets to
\* its select.  It does so once: again only when its records have expired, which
\* takes longer than -connectTimeout.
FoundMDNS(p) ==
    /\ Runs /\ method = "MDNS"
    /\ handling[p] = "no"
    /\ handling' = [handling EXCEPT ![p] = "connect"]
    /\ UNCHANGED <<method, main, search, pending, found, met>>

-----------------------------------------------------------------------------
(* discoverPeersDHT *)

\* initDHT starts a goroutine for every bootstrap peer and waits for all.
StartDHT ==
    /\ Runs /\ method = "DHT" /\ search = "start"
    /\ search' = "bootstrap"
    /\ pending' = Bootstraps
    /\ UNCHANGED <<method, main, handling, found, met>>

\* Whether it connects or warns.
BootstrapPeer(b) ==
    /\ Runs /\ b \in pending
    /\ pending' = pending \ {b}
    /\ UNCHANGED <<method, main, search, handling, found, met>>

InitDHT ==
    /\ Runs /\ search = "bootstrap" /\ pending = {}
    /\ search' = "find"
    /\ UNCHANGED <<method, main, pending, handling, found, met>>

\* The select finds nobody that sends, as notify does not wait; the default
\* goes on to FindPeers.
FindPeers ==
    /\ Runs /\ search = "find"
    /\ search' = "range"
    /\ found' \in SUBSET Hosts
    /\ UNCHANGED <<method, main, pending, handling, met>>

\* The discovery goroutine calls HandlePeerFound, one peer after the other.
RangePeers ==
    /\ Runs /\ search = "range"
    /\ \A p \in Hosts : handling[p] = "no"
    /\ IF found = {}
       THEN search' = "find" /\ UNCHANGED <<handling, found>>
       ELSE \E p \in found : /\ found' = found \ {p}
                             /\ handling' = [handling EXCEPT ![p] = "connect"]
                             /\ UNCHANGED search
    /\ UNCHANGED <<method, main, pending, met>>

-----------------------------------------------------------------------------
HandlePeerFound(p) == Connect(p) \/ NotifyNewConn(p)

Search == StartMDNS \/ StartDHT \/ InitDHT \/ FindPeers \/ RangePeers \/ NotifyOnReady

Step ==
    \/ Await \/ Timeout \/ Search
    \/ \E p \in Hosts : HandlePeerFound(p) \/ FoundMDNS(p)
    \/ \E b \in Bootstraps : BootstrapPeer(b)

Next == New \/ Stop \/ Step

\* Goroutines that can run do; whom MDNS reports and whether Connect succeeds is
\* open.  No one answers for the time that passes: the timeout may come at any
\* moment.
Fairness ==
    /\ WF_vars(Await) /\ WF_vars(Search)
    /\ \A p \in Hosts : WF_vars(HandlePeerFound(p))
    /\ \A b \in Bootstraps : WF_vars(BootstrapPeer(b))

Spec == Init /\ [][Next]_vars /\ Fairness

-----------------------------------------------------------------------------
(* Properties *)

\* AwaitReady returns without error only after Connect has succeeded with a
\* peer, however many were found, failed and notified at the same time.
ReadyMeansMet == main = "ready" => met # {}

\* A notification that is sent while both goroutines wait ends AwaitReady, unless
\* the timeout or the end of the process comes first: it does whatever was
\* found, failed or was notified to nobody before it.
HeardBecomesReady ==
    method = "MDNS" /\ main = "await" /\ search = "select" /\ (\E p \in Peers : handling[p] = "notify")
    ~> main \in {"ready", "panic", "off"}

\* docs/process-architecture.md: peers are discovered "either [by] MDNS for LAN
\* queues or via DHT for WAN queues", and the server goes on when "peers have been
\* found".  So AwaitReady fails only if this host has connected to nobody, or has
\* not yet been told of it.  Does not hold: see the README (StartupDHT.cfg,
\* StartupMDNS.cfg).
FoundMeansReady ==
    main = "panic" => \/ met = {} \/ search = "heard"
                      \/ \E p \in Peers : handling[p] = "notify"
=============================================================================
