------------------------------ MODULE Discovery -----------------------------
(***************************************************************************)
(* P2PDiscovery (discovery.py) and the callbacks of LANPrintQueue          *)
(* (lan_queue.py): hosts that broadcast pings to find each other, and the  *)
(* membership each of them asks of its queue.                              *)
(*                                                                         *)
(* One step of Tick is the resolution of the clocks.  The loop of a host   *)
(* wakes up five times a second, so what it can do it does before the next *)
(* Tick; Slack is what it may be late beyond that.                         *)
(***************************************************************************)
EXTENDS Integers

CONSTANTS
    Hosts,       \* addresses of the hosts of one namespace
    Lossy,       \* environment: pairs <<from, to>> between which pings may be lost
    Pd,          \* min_broadcast_pd
    Ttl,         \* ttl
    Slack,       \* environment: how late the loop may be
    MaxClock,    \* bound: the clock
    MaxStarts    \* bound: how often hosts are started

ASSUME BoundsAssumption ==
    /\ Pd \in Nat \ {0} /\ Ttl \in Nat /\ Slack \in Nat
    /\ MaxClock \in Nat /\ MaxStarts \in Nat
\* 20 seconds are longer than the 5 to 10 seconds between two pings.
ASSUME TtlAssumption == 2 * Pd + Slack <= Ttl

VARIABLES
    now,      \* the time
    proc,     \* proc[n]: where the thread of n is
    startup,  \* startup[n]: when it began
    next,     \* next[n]: next_broadcast
    heard,    \* heard[n][m]: host_timestamps
    inbox,    \* inbox[n]: the hosts whose pings wait at the socket of n
    started,  \* started[n]: the queue exists
    asked,    \* asked[n]: the hosts the queue was told of by connect or addPeer
              \* and not by removePeer since
    starts,   \* how often hosts were started
    around,   \* history: around[n] is who was spinning when n began, and ever since
    forgot,   \* history: forgot[n] is who did not list n when n began
    lost      \* history: the pairs between which a ping was lost

vars ==
    <<now, proc, startup, next, heard, inbox, started, asked, starts, around, forgot, lost>>

-----------------------------------------------------------------------------
(* Data *)

Never == -1      \* no entry in host_timestamps
MaxWait == 2 * Pd + Slack

TypeOK ==
    /\ now \in 0..MaxClock
    /\ proc \in [Hosts -> {"off", "spinning", "ending"}]
    /\ startup \in [Hosts -> 0..MaxClock]
    /\ next \in [Hosts -> Nat]
    /\ heard \in [Hosts -> [Hosts -> Never..MaxClock]]
    /\ inbox \in [Hosts -> SUBSET Hosts]
    /\ started \in [Hosts -> BOOLEAN]
    /\ asked \in [Hosts -> SUBSET Hosts]
    /\ starts \in 0..MaxStarts
    /\ around \in [Hosts -> SUBSET Hosts]
    /\ forgot \in [Hosts -> SUBSET Hosts]
    /\ lost \subseteq Lossy

Init ==
    /\ now = 0
    /\ proc = [n \in Hosts |-> "off"]
    /\ startup = [n \in Hosts |-> 0]
    /\ next = [n \in Hosts |-> 0]
    /\ heard = [n \in Hosts |-> [m \in Hosts |-> Never]]
    /\ inbox = [n \in Hosts |-> {}]
    /\ started = [n \in Hosts |-> FALSE]
    /\ asked = [n \in Hosts |-> {}]
    /\ starts = 0
    /\ around = [n \in Hosts |-> {}]
    /\ forgot = [n \in Hosts |-> {}]
    /\ lost = {}

Known(n) == {m \in Hosts : heard[n][m] # Never}

\* The socket is bound as long as the process runs.
Listening(n) == proc[n] # "off"

-----------------------------------------------------------------------------
(* Processes and time *)

Start(n) ==
    /\ proc[n] = "off" /\ starts < MaxStarts
    /\ proc' = [proc EXCEPT ![n] = "spinning"]
    /\ startup' = [startup EXCEPT ![n] = now]
    /\ next' = [next EXCEPT ![n] = 0]
    /\ starts' = starts + 1
    /\ around' = [around EXCEPT ![n] = {m \in Hosts : proc[m] = "spinning"}]
    /\ forgot' = [forgot EXCEPT ![n] = {m \in Hosts : n \notin Known(m)}]
    /\ UNCHANGED <<now, heard, inbox, started, asked, lost>>

\* The process is gone, with its memory.
Gone(n) ==
    /\ proc' = [proc EXCEPT ![n] = "off"]
    /\ heard' = [heard EXCEPT ![n] = [m \in Hosts |-> Never]]
    /\ inbox' = [inbox EXCEPT ![n] = {}]
    /\ started' = [started EXCEPT ![n] = FALSE]
    /\ asked' = [asked EXCEPT ![n] = {}]
    /\ startup' = [startup EXCEPT ![n] = 0]
    /\ next' = [next EXCEPT ![n] = 0]
    /\ around' = [m \in Hosts |-> IF m = n THEN {} ELSE around[m] \ {n}]
    /\ forgot' = [forgot EXCEPT ![n] = {}]
    /\ UNCHANGED <<now, starts, lost>>

Crash(n) == Listening(n) /\ Gone(n)

\* destroy: the thread ends when it next looks at running.
Destroy(n) ==
    /\ proc[n] = "spinning"
    /\ proc' = [proc EXCEPT ![n] = "ending"]
    /\ around' = [m \in Hosts |-> around[m] \ {n}]
    /\ UNCHANGED <<now, startup, next, heard, inbox, started, asked, starts, forgot, lost>>

SpinEnds(n) == proc[n] = "ending" /\ now >= next[n] /\ Gone(n)

\* Nobody has anything to do at this time.
Tick ==
    /\ now < MaxClock
    /\ \A n \in Hosts : Listening(n) => inbox[n] = {} /\ now < next[n]
    /\ now' = now + 1
    /\ UNCHANGED <<proc, startup, next, heard, inbox, started, asked, starts, around, forgot, lost>>

-----------------------------------------------------------------------------
(* LANPrintQueue: what the callbacks ask of the queue *)

\* The members the queue is made with.
OnStartupComplete(n) == Known(n)

OnHostAdded(n, m) == IF started[n] THEN asked[n] \cup {m} ELSE asked[n]

\* Mutant: the queue is not told.
OnHostRemovedSilently(isUp, members, gone) == members

OnHostRemoved(isUp, members, gone) == IF isUp THEN members \ gone ELSE members

-----------------------------------------------------------------------------
(* P2PDiscovery *)

\* Mutant: a new host is not answered at once.
HandlePingQuietly(n, m) ==
    IF m = n
    THEN UNCHANGED <<asked, next, heard>>
    ELSE /\ asked' = [asked EXCEPT ![n] = IF m \in Known(n) THEN @ ELSE OnHostAdded(n, m)]
         /\ next' = next
         /\ heard' = [heard EXCEPT ![n][m] = now]

\* Mutant: the time of a host is set only once.
HandlePingOnce(n, m) ==
    IF m = n \/ m \in Known(n)
    THEN UNCHANGED <<asked, next, heard>>
    ELSE /\ asked' = [asked EXCEPT ![n] = OnHostAdded(n, m)]
         /\ next' = [next EXCEPT ![n] = 0]
         /\ heard' = [heard EXCEPT ![n][m] = now]

\* Mutant: the time of the next broadcast is stored instead of that of the ping.
HandlePingAhead(n, m) ==
    IF m = n
    THEN UNCHANGED <<asked, next, heard>>
    ELSE /\ asked' = [asked EXCEPT ![n] = IF m \in Known(n) THEN @ ELSE OnHostAdded(n, m)]
         /\ next' = [next EXCEPT ![n] = IF m \in Known(n) THEN @ ELSE 0]
         /\ heard' = [heard EXCEPT ![n][m] = next[n]]

\* _handlePing
HandlePing(n, m) ==
    IF m = n
    THEN UNCHANGED <<asked, next, heard>>
    ELSE /\ asked' = [asked EXCEPT ![n] = IF m \in Known(n) THEN @ ELSE OnHostAdded(n, m)]
         /\ next' = [next EXCEPT ![n] = IF m \in Known(n) THEN @ ELSE 0]
         /\ heard' = [heard EXCEPT ![n][m] = now]

\* The inner loop of spin reads a ping, also while the thread is ending.
Receive(n) ==
    /\ Listening(n) /\ now < next[n]
    /\ \E m \in inbox[n] :
          /\ inbox' = [inbox EXCEPT ![n] = @ \ {m}]
          /\ HandlePing(n, m)
    /\ UNCHANGED <<now, proc, startup, started, starts, around, forgot, lost>>

\* Everybody who listens hears the ping, the sender too.
Broadcast(n) ==
    \E missed \in SUBSET {m \in Hosts : Listening(m) /\ <<n, m>> \in Lossy} :
        /\ inbox' = [m \in Hosts |->
              IF Listening(m) /\ m \notin missed THEN inbox[m] \cup {n} ELSE inbox[m]]
        /\ lost' = lost \cup {<<n, m>> : m \in missed}

\* Mutant: silent hosts are kept for good.
ExpiredNever(n) == {}

\* The hosts that _prune removes.
Expired(n) == {m \in Known(n) : now > heard[n][m] + Ttl}

\* _on_startup_complete is called in this iteration.
CompletesStartup(n) == ~started[n] /\ 2 * (now - startup[n]) > Pd

\* One iteration of the outer loop of spin.
Spin(n) ==
    /\ proc[n] = "spinning" /\ now >= next[n]
    /\ LET isUp == started[n] \/ CompletesStartup(n)
           members == IF CompletesStartup(n) THEN OnStartupComplete(n) ELSE asked[n]
       IN  /\ started' = [started EXCEPT ![n] = isUp]
           /\ asked' = [asked EXCEPT ![n] = OnHostRemoved(isUp, members, Expired(n))]
    /\ Broadcast(n)
    /\ \E t \in (now + Pd)..(now + MaxWait) : next' = [next EXCEPT ![n] = t]
    /\ heard' = [heard EXCEPT ![n] = [m \in Hosts |-> IF m \in Expired(n) THEN Never ELSE @[m]]]
    /\ UNCHANGED <<now, proc, startup, starts, around, forgot>>

-----------------------------------------------------------------------------
Host(n) == Start(n) \/ Crash(n) \/ Destroy(n) \/ SpinEnds(n) \/ Receive(n) \/ Spin(n)

Next == Tick \/ \E n \in Hosts : Host(n)

Spec == Init /\ [][Next]_vars

-----------------------------------------------------------------------------
(* Properties *)

Reliable(n, m) == <<n, m>> \notin lost /\ <<m, n>> \notin lost

\* When _on_startup_complete is called, the hosts it gets are all that were
\* there when this one began, provided they had no entry for it from an earlier
\* life: only then does its first ping make them answer at once.
StartupKnowsAll ==
    [][\A n, m \in Hosts :
          ~started[n] /\ started'[n] /\ m \in around[n] \cap forgot[n] /\ Reliable(n, m)
              => m \in asked'[n]]_vars

Removes(n, m) ==
    /\ proc[n] = "spinning" /\ proc'[n] = "spinning"
    /\ heard[n][m] # Never /\ heard'[n][m] = Never

\* _prune takes no host out that is running and whose pings arrive.
LiveHostStays ==
    [][\A n, m \in Hosts :
          Removes(n, m) /\ <<m, n>> \notin lost
              => ~(proc[m] = "spinning" /\ startup[m] < now)]_vars

\* The queue is told of every host that is found and of every host that is
\* given up, before start-up is complete, at that moment and after it.
AskedIsKnown == \A n \in Hosts : started[n] => asked[n] = Known(n)

\* A host that went silent is given up in time, though _prune is only called
\* when a ping is sent.
SilentIsForgotten ==
    \A n \in Hosts : \A m \in Known(n) : now <= heard[n][m] + Ttl + MaxWait
=============================================================================
