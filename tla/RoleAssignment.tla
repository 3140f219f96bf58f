--------------------------- MODULE RoleAssignment ---------------------------
(***************************************************************************)
(* How the peers of a WAN queue get their roles when they start:           *)
(*                                                                         *)
(*   server/server.go    New, setup, Loop, handshakeRaft, handshakeListener*)
(*   server/handlers.go  CanHandleMessage, OnAssignmentRequest,            *)
(*                       OnAssignmentResponse, OnRaftAddrs...              *)
(*   topic_receiver/...  NewTopicChannel, destroy, ReceivedFrom            *)
(*                                                                         *)
(* A trusted peer takes its role itself and looks for the others in a      *)
(* goroutine of its own, while its main loop answers them.  Every other    *)
(* peer asks the leader for a role and waits for it before its main loop.  *)
(*                                                                         *)
(* A message is published on a topic and reaches the peers that subscribed *)
(* to it, directly or relayed by others (GossipSub), whoever brings it     *)
(* first; it may be lost, and what is sent again and again may arrive more *)
(* than once.  The channels between the goroutines are in ServerIO: here a *)
(* full one is a possibility.  Which raft group comes about is in          *)
(* RaftGroup.                                                              *)
(***************************************************************************)
EXTENDS Integers, FiniteSets

CONSTANTS
    Trusted,      \* the peers in trustedPeers
    Listeners,    \* the other peers
    NoNode,       \* nobody
    Links,        \* the pairs of peers that are connected
    Lossy,        \* the types of messages that may be lost
    MaxElections  \* bound: elections

Nodes == Trusted \cup Listeners

ASSUME PeersAssumption == NoNode \notin Nodes /\ Trusted \cap Listeners = {}
ASSUME LinksAssumption == Links \subseteq Nodes \X Nodes
ASSUME ElectionsAssumption == MaxElections \in Nat

VARIABLES
    main,       \* main[n]: where the main goroutine is; "down": the process has ended
    shake,      \* shake[n]: where handshakeRaft is
    topic,      \* topic[n]: status.Topic
    kind,       \* kind[n]: status.Type
    chan,       \* chan[n]: what sendPubsub has for each topic
    raft,       \* raft[n]: how far raft is set up; "broken": it never will be
    known,      \* known[n]: the leader by the raft server of n
    news,       \* news[n]: what newLeader holds
    net,        \* messages on their way
    elections   \* elections that may still happen

vars == <<main, shake, topic, kind, chan, raft, known, news, net, elections>>

Topics == {"ASSIGN", "0"}

\* A message of handlers.go; `to` and `assigned` are those of AssignmentResponse.
Message == [type : {"AssignmentRequest", "RaftAddrsRequest", "RaftAddrsResponse"},
            author : Nodes, to : {NoNode}, assigned : {"0"}]
      \cup [type : {"AssignmentResponse"}, author : Nodes, to : Nodes, assigned : Topics]

TypeOK ==
    /\ main \in [Nodes -> {"off", "asking", "asked", "loop", "down"}]
    /\ shake \in [Nodes -> {"none", "offset", "request", "wait", "done"}]
    /\ topic \in [Nodes -> Topics \cup {""}]
    /\ kind \in [Nodes -> {"UNKNOWN", "LISTENER", "ELECTABLE"}]
    /\ chan \in [Nodes -> [Topics -> {"none", "open", "closed"}]]
    /\ raft \in [Nodes -> {"none", "running", "broken"}]
    /\ known \in [Nodes -> Nodes \cup {NoNode}]
    /\ news \in [Nodes -> Nat]
    /\ net \subseteq Message
    /\ elections \in 0..MaxElections

Init ==
    /\ main = [n \in Nodes |-> "off"]
    /\ shake = [n \in Nodes |-> "none"]
    /\ topic = [n \in Nodes |-> ""]
    /\ kind = [n \in Nodes |-> "UNKNOWN"]
    /\ chan = [n \in Nodes |-> [t \in Topics |-> "none"]]
    /\ raft = [n \in Nodes |-> "none"]
    /\ known = [n \in Nodes |-> NoNode]
    /\ news = [n \in Nodes |-> 0]
    /\ net = {}
    /\ elections = MaxElections

-----------------------------------------------------------------------------
(* Topics *)

TopicOf(m) == IF m.type \in {"AssignmentRequest", "AssignmentResponse"} THEN "ASSIGN" ELSE "0"

Msg(type, author, to, assigned) ==
    [type |-> type, author |-> author, to |-> to, assigned |-> assigned]

Linked(a, b) == <<a, b>> \in Links \/ <<b, a>> \in Links

Subscribed(n, t) == main[n] \notin {"off", "down"} /\ chan[n][t] # "none"

Goto(n, step) == main' = [main EXCEPT ![n] = step]

HasRaft(n) == raft[n] = "running"

\* Sends to the channel of a topic.  To send to a closed channel is a panic.
Publish(n, m) ==
    IF chan[n][TopicOf(m)] = "open"
    THEN net' = net \cup {m} /\ UNCHANGED main
    ELSE Goto(n, "down") /\ UNCHANGED net

\* A send in a select, for which a full channel is a panic too.
Offer(n, m) == Publish(n, m) \/ (Goto(n, "down") /\ UNCHANGED net)

\* p can have a message of `author` without n having passed it on: it is in every
\* set that has the author and with each peer its neighbours among J.
Carries(p, author, n, J) ==
    \A S \in SUBSET (Nodes \ {n}) :
        /\ author \in S
        /\ \A x \in S, y \in J \ {n} : Linked(x, y) => y \in S
        => p \in S

\* The neighbour that brings a message first, which recvLoop takes for its
\* author: GossipSub passes messages on along the peers of the topic.
ReceivedFrom(n, m) ==
    LET Joined == {p \in Nodes : chan[p][TopicOf(m)] # "none"}
    IN  {p \in Nodes \ {n} : Linked(p, n) /\ Carries(p, m.author, n, Joined)}

\* The main loop, and nothing else, takes a message that recvLoop has read.
Receives(n, type, m, from) ==
    /\ main[n] = "loop" /\ m \in net
    /\ m.type = type /\ m.author # n
    /\ Subscribed(n, TopicOf(m))
    /\ from \in ReceivedFrom(n, m)

\* sendLoop finds its channel closed; destroy closes it again, which is a panic.
SendLoopEnds(n) ==
    /\ main[n] # "down"
    /\ \E t \in Topics : chan[n][t] = "closed"
    /\ Goto(n, "down")
    /\ UNCHANGED <<shake, topic, kind, chan, raft, known, news, net, elections>>

-----------------------------------------------------------------------------
(* New, setup and the two handshakes *)

\* Mutant: the override closes the assignment topic.
StartTrustedClosing(n) ==
    /\ n \in Trusted /\ main[n] = "off"
    /\ Goto(n, "loop")
    /\ shake' = [shake EXCEPT ![n] = "offset"]
    /\ topic' = [topic EXCEPT ![n] = "0"]
    /\ kind' = [kind EXCEPT ![n] = "ELECTABLE"]
    /\ chan' = [chan EXCEPT ![n] = [t \in Topics |-> IF t = "0" THEN "open" ELSE "closed"]]
    /\ UNCHANGED <<raft, known, news, net, elections>>

\* A trusted peer opens both topics, assigns itself, and starts handshakeRaft.
StartTrusted(n) ==
    /\ n \in Trusted /\ main[n] = "off"
    /\ Goto(n, "loop")
    /\ shake' = [shake EXCEPT ![n] = "offset"]
    /\ topic' = [topic EXCEPT ![n] = "0"]
    /\ kind' = [kind EXCEPT ![n] = "ELECTABLE"]
    /\ chan' = [chan EXCEPT ![n] = [t \in Topics |-> "open"]]
    /\ UNCHANGED <<raft, known, news, net, elections>>

StartListener(n) ==
    /\ n \in Listeners /\ main[n] = "off"
    /\ Goto(n, "asking")
    /\ topic' = [topic EXCEPT ![n] = "ASSIGN"]
    /\ chan' = [chan EXCEPT ![n]["ASSIGN"] = "open"]
    /\ UNCHANGED <<shake, kind, raft, known, news, net, elections>>

\* handshakeListener asks (a full channel is a panic), waits for roleAssigned or
\* the end of 10 seconds, and returns to Loop once its topic has changed.
AskAssignment(n) ==
    /\ main[n] = "asking"
    /\ \/ net' = net \cup {Msg("AssignmentRequest", n, NoNode, "0")} /\ Goto(n, "asked")
       \/ Goto(n, "down") /\ UNCHANGED net
    /\ UNCHANGED <<shake, topic, kind, chan, raft, known, news, elections>>

AskAgain(n) ==
    /\ main[n] = "asked"
    /\ Goto(n, IF topic[n] = "ASSIGN" THEN "asking" ELSE "loop")
    /\ UNCHANGED <<shake, topic, kind, chan, raft, known, news, net, elections>>

\* handshakeRaft: the initial offset, the request, and 5 seconds of waiting.
OffsetEnds(n) ==
    /\ main[n] = "loop" /\ shake[n] = "offset"
    /\ shake' = [shake EXCEPT ![n] = "request"]
    /\ UNCHANGED <<main, topic, kind, chan, raft, known, news, net, elections>>

RequestAddrs(n) ==
    /\ main[n] = "loop" /\ shake[n] = "request"
    /\ Offer(n, Msg("RaftAddrsRequest", n, NoNode, "0"))
    /\ shake' = [shake EXCEPT ![n] = "wait"]
    /\ UNCHANGED <<topic, kind, chan, raft, known, news, elections>>

\* Mutant: the handshake gives up when the 5 seconds are over.
RequestOnce(n) ==
    /\ main[n] = "loop" /\ shake[n] = "wait"
    /\ shake' = [shake EXCEPT ![n] = "done"]
    /\ UNCHANGED <<main, topic, kind, chan, raft, known, news, net, elections>>

RequestAgain(n) ==
    /\ main[n] = "loop" /\ shake[n] = "wait"
    /\ shake' = [shake EXCEPT ![n] = "request"]
    /\ UNCHANGED <<main, topic, kind, chan, raft, known, news, net, elections>>

\* The send on roleAssigned, which nobody receives unless the handshake waits.
RoleAssigned(n) ==
    shake' = [shake EXCEPT ![n] = IF @ = "wait" THEN "done" ELSE @]

-----------------------------------------------------------------------------
(* The handlers, called by the main loop *)

\* isTrusted; getLeader is not asked about a peer in trustedPeers.
IsTrusted(n, peer) == peer \in Trusted \/ known[n] = peer

\* Leader() before raft is set up is a nil pointer.
AskLeaderTooEarly(n, m, from) ==
    /\ Receives(n, m.type, m, from)
    /\ ~HasRaft(n)
    /\ \/ m.type = "AssignmentRequest"
       \/ from \notin Trusted /\ (m.type = "RaftAddrsResponse" => kind[n] = "ELECTABLE")
    /\ Goto(n, "down")
    /\ UNCHANGED <<shake, topic, kind, chan, raft, known, news, net, elections>>

\* The leader gives the role to whom it has the request from.
OnAssignmentRequest(n, m, from) ==
    /\ Receives(n, "AssignmentRequest", m, from)
    /\ HasRaft(n) /\ known[n] = n
    /\ Publish(n, Msg("AssignmentResponse", n, from, topic[n]))
    /\ UNCHANGED <<shake, topic, kind, chan, raft, known, news, elections>>

\* Mutant: every peer takes the role, whoever the response is for.
AddressedAnybody(n, m) == TRUE

\* CanHandleMessage of an AssignmentResponse observes only those sent to us.
Addressed(n, m) == m.to = n

\* Closes the old topic, which stays in sendPubsub, and opens the new one.
OnAssignmentResponse(n, m, from) ==
    /\ Receives(n, "AssignmentResponse", m, from)
    /\ IsTrusted(n, from) /\ Addressed(n, m)
    /\ IF chan[n][topic[n]] = "closed"
       THEN Goto(n, "down") /\ UNCHANGED <<shake, topic, kind, chan>>
       ELSE /\ chan' = [chan EXCEPT ![n] = [t \in Topics |->
                  CASE t = topic[n]                            -> "closed"
                    [] t = m.assigned /\ chan[n][t] = "none"   -> "open"
                    [] OTHER                                   -> chan[n][t]]]
            /\ topic' = [topic EXCEPT ![n] = m.assigned]
            /\ kind' = [kind EXCEPT ![n] = "LISTENER"]
            /\ RoleAssigned(n)
            /\ UNCHANGED main
    /\ UNCHANGED <<raft, known, news, net, elections>>

\* Connect without an error: the first one sets raft up, later ones do not look
\* whether that went well.
Connect(n) == raft' = [raft EXCEPT ![n] = IF @ = "none" THEN "running" ELSE @]

\* Connect with an error of setup after it has made the transport.  (An error
\* before that changes nothing here.)
SetupFails(n) == raft[n] = "none" /\ raft' = [raft EXCEPT ![n] = "broken"]

\* Connects to the author and answers, unless Connect returned an error.
OnRaftAddrsRequest(n, m, from) ==
    /\ Receives(n, "RaftAddrsRequest", m, from)
    /\ from \in Trusted /\ topic[n] = "0"
    /\ \/ Connect(n) /\ Publish(n, Msg("RaftAddrsResponse", n, NoNode, "0"))
       \/ SetupFails(n) /\ UNCHANGED <<main, net>>
    /\ UNCHANGED <<shake, topic, kind, chan, known, news, elections>>

OnRaftAddrsResponse(n, m, from) ==
    /\ Receives(n, "RaftAddrsResponse", m, from)
    /\ kind[n] = "ELECTABLE" /\ IsTrusted(n, from)
    /\ Connect(n) \/ SetupFails(n)
    /\ UNCHANGED <<main, shake, topic, kind, chan, known, news, net, elections>>

\* Mutant: takes a report that is not there.
OnLeaderChanAlways(n) ==
    /\ main[n] = "loop"
    /\ news' = [news EXCEPT ![n] = @ - 1]
    /\ RoleAssigned(n)
    /\ IF known[n] = n /\ chan[n][topic[n]] = "closed" THEN Goto(n, "down") ELSE UNCHANGED main
    /\ UNCHANGED <<topic, kind, chan, raft, known, net, elections>>

\* The LeaderChan case.  (What a leader publishes here assigns no role.)
OnLeaderChan(n) ==
    /\ main[n] = "loop" /\ news[n] > 0
    /\ news' = [news EXCEPT ![n] = @ - 1]
    /\ RoleAssigned(n)
    /\ IF known[n] = n /\ chan[n][topic[n]] = "closed" THEN Goto(n, "down") ELSE UNCHANGED main
    /\ UNCHANGED <<topic, kind, chan, raft, known, net, elections>>

-----------------------------------------------------------------------------
(* Raft and the network *)

\* n becomes leader with the vote of another; observeLeadership reports it.
Elect(n) ==
    /\ HasRaft(n) /\ main[n] = "loop" /\ known[n] # n
    /\ \E v \in Trusted \ {n} : HasRaft(v) /\ main[v] = "loop"
    /\ elections > 0 /\ elections' = elections - 1
    /\ known' = [known EXCEPT ![n] = n]
    /\ news' = [news EXCEPT ![n] = @ + 1]
    /\ UNCHANGED <<main, shake, topic, kind, chan, raft, net>>

\* n hears of another leader.
Learn(n, l) ==
    /\ HasRaft(n) /\ main[n] = "loop" /\ HasRaft(l) /\ known[l] = l /\ known[n] # l
    /\ known' = [known EXCEPT ![n] = l]
    /\ news' = [news EXCEPT ![n] = @ + 1]
    /\ UNCHANGED <<main, shake, topic, kind, chan, raft, net, elections>>

Lose(m) ==
    /\ m \in net /\ m.type \in Lossy
    /\ net' = net \ {m}
    /\ UNCHANGED <<main, shake, topic, kind, chan, raft, known, news, elections>>

-----------------------------------------------------------------------------
Handshake(n) == OffsetEnds(n) \/ RequestAddrs(n) \/ RequestAgain(n)

Ask(n) == StartListener(n) \/ AskAssignment(n) \/ AskAgain(n)

Handle(n) ==
    \E m \in net : \E from \in Nodes :
        \/ AskLeaderTooEarly(n, m, from) \/ OnAssignmentRequest(n, m, from)
        \/ OnAssignmentResponse(n, m, from)
        \/ OnRaftAddrsRequest(n, m, from) \/ OnRaftAddrsResponse(n, m, from)

Next ==
    \/ \E n \in Nodes :
          \/ StartTrusted(n) \/ Handshake(n) \/ Ask(n) \/ Handle(n)
          \/ OnLeaderChan(n) \/ SendLoopEnds(n) \/ Elect(n)
          \/ \E l \in Trusted \ {n} : Learn(n, l)
    \/ \E m \in net : Lose(m)

\* Goroutines that can run do and timers end.  Of a message that is sent again
\* and again one arrives.  Elections need not happen.
Fairness ==
    \A n \in Nodes :
        /\ WF_vars(StartTrusted(n)) /\ WF_vars(Handshake(n)) /\ WF_vars(Ask(n))
        /\ WF_vars(OnLeaderChan(n)) /\ WF_vars(SendLoopEnds(n))
        /\ SF_vars(\E m \in net, from \in Nodes : OnRaftAddrsRequest(n, m, from))
        /\ SF_vars(\E m \in net, from \in Nodes : OnRaftAddrsResponse(n, m, from))
        /\ SF_vars(\E m \in net, from \in Nodes : OnAssignmentRequest(n, m, from))
        /\ SF_vars(\E m \in net, from \in Nodes : OnAssignmentResponse(n, m, from))

Spec == Init /\ [][Next]_vars /\ Fairness

-----------------------------------------------------------------------------
(* Properties *)

\* A trusted peer loses its role only where it can have brought the request of a
\* listener to another trusted peer: nothing else makes OnAssignmentResponse
\* demote it, whatever was sent, lost, repeated or elected.
DemotedOnlyByRelay ==
    \A n \in Trusted : kind[n] = "LISTENER" =>
        \E t \in Trusted \ {n}, l \in Listeners : Linked(n, t) /\ Carries(n, l, t, Nodes)

\* A peer in trustedPeers is electable, as long as it runs.  Does not hold: see the
\* README (RoleAssignmentDemoted.cfg).
TrustedAreElectable == \A n \in Trusted : main[n] # "off" => kind[n] = "ELECTABLE"

\* A trusted peer goes down (closing a channel twice, sending to a closed or a
\* full one, asking for the leader too early) only without raft, demoted, or
\* while its handshake goes on.
DownIsExplained ==
    \A n \in Trusted :
        main[n] = "down" => ~HasRaft(n) \/ kind[n] = "LISTENER" \/ shake[n] # "done"

\* Trusted peers that stay up set raft up, although requests are lost and the
\* wake-ups on roleAssigned are: handshakeRaft goes on asking until then.  A setup
\* that fails halfway is for good and excepted.
RaftStarts ==
    (\A n \in Trusted : <>[](main[n] = "loop" /\ raft[n] # "broken"))
        => \A n \in Trusted : <>HasRaft(n)

\* The handshake of a trusted peer that stays up and has a leader for good ends:
\* LeaderChan is what it exits by.  Does not hold: see the README
\* (RoleAssignmentHandshake.cfg).
HandshakeEnds ==
    \A n \in Trusted :
        <>[](main[n] = "loop" /\ known[n] # NoNode) => <>(shake[n] = "done")

\* A listener that stays up while some trusted peer leads for good gets its role.
\* Does not hold: see the README (RoleAssignmentListener.cfg).
ListenersGetRoles ==
    \A l \in Listeners :
        /\ \E t \in Trusted : <>[](main[t] = "loop" /\ kind[t] = "ELECTABLE" /\ known[t] = t)
        /\ <>[](main[l] \notin {"off", "down"})
        => <>(kind[l] = "LISTENER")
=============================================================================
