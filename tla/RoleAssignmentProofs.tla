------------------------ MODULE RoleAssignmentProofs ------------------------
(***************************************************************************)
(* For any number of trusted peers and listeners and any connections       *)
(* between them: who may lose the role it took, when a trusted peer goes   *)
(* down, and that no listener gets a role.                                 *)
(***************************************************************************)
EXTENDS RoleAssignment, TLAPS

-----------------------------------------------------------------------------
(* The invariant *)

\* A listener is in handshakeListener, or has ended.
AsksForever(n) ==
    /\ kind[n] = "UNKNOWN"
    /\ main[n] \in {"off", "asking", "asked", "down"}
    /\ main[n] \in {"asking", "asked"} => topic[n] = "ASSIGN"

\* n can have brought the request of a listener to t.
Relays(n, t) == Linked(n, t) /\ \E l \in Listeners : Carries(n, l, t, Nodes)

\* A trusted peer is in its main loop with both topics open, or it was demoted;
\* it ends without that only if raft is not set up or in its handshake.
KeepsRole(n) ==
    /\ main[n] \in {"off", "loop", "down"}
    /\ main[n] = "off" => \A t \in Topics : chan[n][t] = "none"
    /\ main[n] # "off" => topic[n] \in Topics
    /\ main[n] # "off" => kind[n] = "LISTENER" \/ \A t \in Topics : chan[n][t] = "open"
    /\ main[n] = "down" => ~HasRaft(n) \/ kind[n] = "LISTENER" \/ shake[n] # "done"
    /\ kind[n] = "LISTENER" => \E t \in Trusted \ {n} : Relays(n, t)

\* Only listeners ask for a role; a response comes from a trusted peer and is for
\* a listener, or for a peer that relayed a request.
Meant(m) ==
    /\ m.type = "AssignmentRequest" => m.author \in Listeners
    /\ m.type = "AssignmentResponse" =>
          /\ m.author \in Trusted /\ m.to # m.author
          /\ m.to \in Listeners \/ Relays(m.to, m.author)

Inv ==
    /\ TypeOK
    /\ \A n \in Listeners : AsksForever(n)
    /\ \A n \in Trusted : KeepsRole(n)
    /\ \A m \in net : Meant(m)

\* Nobody has started.
LEMMA InitInv == Init => Inv
<1> SUFFICES ASSUME Init PROVE Inv
  OBVIOUS
<1>1. TypeOK
  <2>1. MaxElections \in 0..MaxElections
    BY ElectionsAssumption
  <2>2. chan \in [Nodes -> [Topics -> {"none", "open", "closed"}]]
    BY DEF Init
  <2> QED BY <2>1, <2>2 DEF Init, TypeOK
<1>2. \A n \in Nodes : /\ main[n] = "off" /\ kind[n] = "UNKNOWN"
                       /\ \A t \in Topics : chan[n][t] = "none"
  BY DEF Init
<1>3. net = {}
  BY DEF Init
<1> QED BY <1>1, <1>2, <1>3 DEF Inv, AsksForever, KeepsRole, Nodes

\* The messages that are published.
LEMMA Messages ==
    ASSUME NEW n \in Nodes, NEW k \in Nodes, NEW t \in Topics
    PROVE  /\ Msg("AssignmentRequest", n, NoNode, "0") \in Message
           /\ Msg("RaftAddrsRequest", n, NoNode, "0") \in Message
           /\ Msg("RaftAddrsResponse", n, NoNode, "0") \in Message
           /\ Msg("AssignmentResponse", n, k, t) \in Message
BY DEF Msg, Message

-----------------------------------------------------------------------------
(* Steps of one peer *)

\* What a step leaves alone, and what is asked of the peer that takes it.
LEMMA StepOf ==
    ASSUME Inv, NEW n \in Nodes, TypeOK',
           \A k \in Nodes \ {n} : /\ main'[k] = main[k] /\ topic'[k] = topic[k] /\ kind'[k] = kind[k]
                                  /\ chan'[k] = chan[k] /\ raft'[k] = raft[k]
                                  /\ shake'[k] = shake[k],
           n \in Listeners => AsksForever(n)',
           n \in Trusted => KeepsRole(n)',
           \A m \in net' \ net : Meant(m)
    PROVE  Inv'
<1>1. ASSUME NEW k \in Listeners PROVE AsksForever(k)'
  <2>1. CASE k = n
    BY <2>1
  <2>2. CASE k # n
    BY <2>2 DEF Inv, AsksForever, Nodes
  <2> QED BY <2>1, <2>2
<1>2. ASSUME NEW k \in Trusted PROVE KeepsRole(k)'
  <2>1. CASE k = n
    BY <2>1
  <2>2. CASE k # n
    BY <2>2 DEF Inv, KeepsRole, HasRaft, Nodes
  <2> QED BY <2>1, <2>2
<1>3. \A m \in net' : Meant(m)'
  BY DEF Inv, Meant
<1> QED BY <1>1, <1>2, <1>3 DEF Inv

\* A trusted peer starts, and a listener.
LEMMA StartStep ==
    ASSUME Inv, NEW n \in Nodes, StartTrusted(n) \/ Ask(n)
    PROVE  Inv'
<1>1. CASE StartTrusted(n)
  <2>1. TypeOK'
    BY <1>1 DEF StartTrusted, Inv, TypeOK, Goto, Topics
  <2>2. KeepsRole(n)'
    <3>1. /\ main'[n] = "loop" /\ topic'[n] = "0" /\ kind'[n] = "ELECTABLE"
          /\ chan'[n] = [t \in Topics |-> "open"]
      BY <1>1 DEF StartTrusted, Inv, TypeOK, Goto
    <3>2. "0" \in Topics /\ \A t \in Topics : chan'[n][t] = "open"
      BY <3>1 DEF Topics
    <3> QED BY <3>1, <3>2 DEF KeepsRole
  <2>3. n \notin Listeners
    BY <1>1, PeersAssumption DEF StartTrusted
  <2> QED BY <1>1, <2>1, <2>2, <2>3, StepOf DEF StartTrusted, Goto, Inv, TypeOK
<1>2. CASE StartListener(n)
  <2>1. TypeOK'
    BY <1>2 DEF StartListener, Inv, TypeOK, Goto, Topics
  <2>2. AsksForever(n)'
    BY <1>2 DEF StartListener, Inv, TypeOK, Goto, AsksForever, Topics
  <2>3. n \notin Trusted
    BY <1>2, PeersAssumption DEF StartListener
  <2> QED BY <1>2, <2>1, <2>2, <2>3, StepOf DEF StartListener, Goto, Inv, TypeOK
<1>3. ASSUME AskAssignment(n) \/ AskAgain(n) PROVE n \in Listeners /\ n \notin Trusted
  BY <1>3, PeersAssumption DEF AskAssignment, AskAgain, Inv, KeepsRole, Nodes
<1>4. CASE AskAssignment(n)
  <2>1. TypeOK'
    <3>1. Msg("AssignmentRequest", n, NoNode, "0") \in Message
      BY Messages DEF Topics
    <3>2. main' = [main EXCEPT ![n] = "asked"] \/ main' = [main EXCEPT ![n] = "down"]
      BY <1>4 DEF AskAssignment, Goto
    <3> QED BY <1>4, <3>1, <3>2 DEF AskAssignment, Inv, TypeOK
  <2>2. AsksForever(n)'
    BY <1>3, <1>4 DEF AskAssignment, Inv, TypeOK, Goto, AsksForever
  <2>3. \A m \in net' \ net : Meant(m)
    BY <1>3, <1>4 DEF AskAssignment, Msg, Meant
  <2>4. \A k \in Nodes \ {n} : /\ main'[k] = main[k] /\ topic'[k] = topic[k] /\ kind'[k] = kind[k]
                               /\ chan'[k] = chan[k] /\ raft'[k] = raft[k]
                               /\ shake'[k] = shake[k]
    BY <1>4 DEF AskAssignment, Goto, Inv, TypeOK
  <2> QED BY <1>3, <1>4, <2>1, <2>2, <2>3, <2>4, StepOf
<1>5. CASE AskAgain(n)
  <2>1. TypeOK'
    BY <1>5 DEF AskAgain, Inv, TypeOK, Goto
  <2>2. AsksForever(n)'
    BY <1>3, <1>5 DEF AskAgain, Inv, TypeOK, Goto, AsksForever
  <2> QED BY <1>3, <1>5, <2>1, <2>2, StepOf DEF AskAgain, Goto, Inv, TypeOK
<1> QED BY <1>1, <1>2, <1>4, <1>5 DEF Ask
\* Where a trusted peer is in its main loop it is known what goes wrong.
LEMMA InLoop ==
    ASSUME Inv, NEW n \in Nodes, main[n] = "loop"
    PROVE  /\ n \in Trusted /\ n \notin Listeners /\ KeepsRole(n) /\ topic[n] \in Topics
           /\ \A t \in Topics : chan[n][t] # "open" => kind[n] = "LISTENER"
<1>1. n \in Trusted
  BY DEF Inv, AsksForever, Nodes
<1>2. KeepsRole(n)
  BY <1>1 DEF Inv
<1> QED BY <1>1, <1>2, PeersAssumption DEF KeepsRole

\* Publishing: either the message is on its way or the peer is down.
LEMMA PublishStep ==
    ASSUME Inv, NEW n \in Nodes, main[n] = "loop", NEW m \in Message, Publish(n, m), Meant(m),
           UNCHANGED <<topic, kind, chan, known, news, elections>>,
           shake' \in [Nodes -> {"none", "offset", "request", "wait", "done"}],
           raft' \in [Nodes -> {"none", "running", "broken"}],
           \A k \in Nodes \ {n} : raft'[k] = raft[k] /\ shake'[k] = shake[k]
    PROVE  Inv'
<1>1. /\ n \in Trusted /\ n \notin Listeners /\ KeepsRole(n)
      /\ \A t \in Topics : chan[n][t] # "open" => kind[n] = "LISTENER"
  BY InLoop
<1>2. TopicOf(m) \in Topics
  BY DEF TopicOf, Topics
<1>3. CASE chan[n][TopicOf(m)] = "open"
  <2>1. net' = net \cup {m} /\ UNCHANGED main
    BY <1>3 DEF Publish
  <2>2. TypeOK'
    BY <2>1 DEF Inv, TypeOK
  <2>3. KeepsRole(n)'
    BY <1>1, <2>1 DEF KeepsRole
  <2> QED BY <1>1, <2>1, <2>2, <2>3, StepOf
<1>4. CASE chan[n][TopicOf(m)] # "open"
  <2>1. main' = [main EXCEPT ![n] = "down"] /\ UNCHANGED net
    BY <1>4 DEF Publish, Goto
  <2>2. TypeOK'
    BY <2>1 DEF Inv, TypeOK
  <2>3. kind[n] = "LISTENER"
    BY <1>1, <1>2, <1>4
  <2>4. KeepsRole(n)'
    <3>1. main'[n] = "down" /\ main[n] # "off"
      BY <2>1 DEF Inv, TypeOK
    <3> QED BY <1>1, <2>3, <3>1 DEF KeepsRole
  <2>5. \A k \in Nodes \ {n} : main'[k] = main[k]
    BY <2>1 DEF Inv, TypeOK
  <2> QED BY <1>1, <2>1, <2>2, <2>4, <2>5, StepOf
<1> QED BY <1>3, <1>4

\* Ways to end: asking for the leader too early, a channel closed twice, a full one.
LEMMA DownStep ==
    ASSUME Inv, NEW n \in Nodes, main[n] # "down",
           n \in Trusted => ~HasRaft(n) \/ kind[n] = "LISTENER" \/ shake'[n] # "done",
           Goto(n, "down"), UNCHANGED <<topic, kind, chan, raft, known, net, elections>>,
           shake' \in [Nodes -> {"none", "offset", "request", "wait", "done"}],
           \A k \in Nodes \ {n} : shake'[k] = shake[k],
           news' \in [Nodes -> Nat],
           n \in Trusted => main[n] # "off"
    PROVE  Inv'
<1>1. TypeOK' /\ main'[n] = "down" /\ \A k \in Nodes \ {n} : main'[k] = main[k]
  BY DEF Goto, Inv, TypeOK
<1>2. n \in Trusted => KeepsRole(n)'
  BY <1>1 DEF Inv, KeepsRole, HasRaft
<1>3. n \in Listeners => AsksForever(n)'
  BY <1>1 DEF Inv, AsksForever
<1> QED BY <1>1, <1>2, <1>3, StepOf

\* handshakeRaft
LEMMA HandshakeStep ==
    ASSUME Inv, NEW n \in Nodes, Handshake(n)
    PROVE  Inv'
<1>1. CASE OffsetEnds(n) \/ RequestAgain(n)
  <2>1. main[n] = "loop" /\ UNCHANGED <<main, topic, kind, chan, raft, known, news, net, elections>>
    BY <1>1 DEF OffsetEnds, RequestAgain
  <2>2. TypeOK' /\ \A k \in Nodes \ {n} : shake'[k] = shake[k]
    BY <1>1, <2>1 DEF OffsetEnds, RequestAgain, Inv, TypeOK
  <2>3. KeepsRole(n)' /\ n \notin Listeners
    BY <2>1, InLoop DEF KeepsRole
  <2> QED BY <2>1, <2>2, <2>3, StepOf
<1>2. CASE RequestAddrs(n)
  <2> DEFINE m == Msg("RaftAddrsRequest", n, NoNode, "0")
  <2>1. m \in Message /\ Meant(m)
    BY Messages DEF Meant, Msg, Topics
  <2>2. /\ main[n] = "loop" /\ Offer(n, m)
        /\ UNCHANGED <<topic, kind, chan, raft, known, news, elections>>
        /\ shake' = [shake EXCEPT ![n] = "wait"]
    BY <1>2 DEF RequestAddrs
  <2>3. /\ shake' \in [Nodes -> {"none", "offset", "request", "wait", "done"}]
        /\ raft' \in [Nodes -> {"none", "running", "broken"}]
        /\ \A k \in Nodes \ {n} : shake'[k] = shake[k]
        /\ shake'[n] = "wait" /\ news' \in [Nodes -> Nat]
    BY <2>2 DEF Inv, TypeOK
  <2> HIDE DEF m
  <2>4. CASE Publish(n, m)
    BY <2>1, <2>2, <2>3, <2>4, PublishStep
  <2>5. CASE Goto(n, "down") /\ UNCHANGED net
    BY <2>2, <2>3, <2>5, DownStep
  <2> QED BY <2>2, <2>4, <2>5 DEF Offer
<1> QED BY <1>1, <1>2 DEF Handshake

\* sendLoop of a topic that was closed.
LEMMA SendLoopStep ==
    ASSUME Inv, NEW n \in Nodes, SendLoopEnds(n)
    PROVE  Inv'
<1>1. PICK t \in Topics : chan[n][t] = "closed"
  BY DEF SendLoopEnds
<1>2. n \in Trusted => main[n] # "off" /\ kind[n] = "LISTENER"
  BY <1>1 DEF Inv, KeepsRole
<1>3. UNCHANGED <<shake, topic, kind, chan, raft, known, news, net, elections>>
  BY DEF SendLoopEnds
<1>4. shake' \in [Nodes -> {"none", "offset", "request", "wait", "done"}] /\ news' \in [Nodes -> Nat]
  BY <1>3 DEF Inv, TypeOK
<1> QED BY <1>2, <1>3, <1>4, DownStep DEF SendLoopEnds

\* What happens when roleAssigned is sent to.
LEMMA RoleAssignedTyped ==
    ASSUME TypeOK, NEW n \in Nodes, RoleAssigned(n)
    PROVE  /\ shake' \in [Nodes -> {"none", "offset", "request", "wait", "done"}]
           /\ \A k \in Nodes \ {n} : shake'[k] = shake[k]
BY DEF RoleAssigned, TypeOK

\* The LeaderChan case.
LEMMA LeaderChanStep ==
    ASSUME Inv, NEW n \in Nodes, OnLeaderChan(n)
    PROVE  Inv'
<1>0. main[n] = "loop" /\ UNCHANGED <<topic, kind, chan, raft, known, net, elections>> /\ TypeOK
  BY DEF OnLeaderChan, Inv
<1>1. /\ n \in Trusted /\ n \notin Listeners /\ KeepsRole(n) /\ topic[n] \in Topics
      /\ \A t \in Topics : chan[n][t] # "open" => kind[n] = "LISTENER"
  BY <1>0, InLoop
<1>2. /\ shake' \in [Nodes -> {"none", "offset", "request", "wait", "done"}]
      /\ \A k \in Nodes \ {n} : shake'[k] = shake[k]
  BY <1>0, RoleAssignedTyped DEF OnLeaderChan
<1>3. news' \in [Nodes -> Nat]
  <2>1. news[n] \in Nat /\ news[n] > 0 /\ news' = [news EXCEPT ![n] = news[n] - 1]
    BY <1>0 DEF OnLeaderChan, TypeOK
  <2>2. news[n] - 1 \in Nat
    BY <2>1
  <2> QED BY <1>0, <2>1, <2>2 DEF TypeOK
<1>4. CASE known[n] = n /\ chan[n][topic[n]] = "closed"
  <2>1. Goto(n, "down")
    BY <1>4 DEF OnLeaderChan
  <2>2. kind[n] = "LISTENER"
    BY <1>1, <1>4
  <2> QED BY <1>0, <1>2, <1>3, <2>1, <2>2, DownStep
<1>5. CASE ~(known[n] = n /\ chan[n][topic[n]] = "closed")
  <2>1. UNCHANGED main
    BY <1>5 DEF OnLeaderChan
  <2>2. TypeOK' /\ KeepsRole(n)'
    BY <1>0, <1>1, <1>2, <1>3, <2>1 DEF TypeOK, KeepsRole
  <2> QED BY <1>0, <1>1, <1>2, <2>1, <2>2, StepOf
<1> QED BY <1>4, <1>5

-----------------------------------------------------------------------------
(* The handlers *)

\* What peers on a topic can pass on, all peers can.
LEMMA CarriesMore ==
    ASSUME NEW p, NEW author, NEW n, NEW J \in SUBSET Nodes, Carries(p, author, n, J)
    PROVE  Carries(p, author, n, Nodes)
BY DEF Carries

\* Of what a main loop receives.
LEMMA Received ==
    ASSUME Inv, NEW n \in Nodes, NEW m \in net, NEW from \in Nodes, NEW type, Receives(n, type, m, from)
    PROVE  /\ main[n] = "loop" /\ m.type = type /\ m.author # n /\ m.author \in Nodes
           /\ m \in Message /\ Meant(m) /\ from # n
           /\ Linked(from, n) /\ Carries(from, m.author, n, Nodes)
<1>1. /\ main[n] = "loop" /\ m.type = type /\ m.author # n /\ m \in Message /\ Meant(m)
      /\ from \in ReceivedFrom(n, m)
  BY DEF Receives, Inv, TypeOK
<1>2. m.author \in Nodes
  BY <1>1 DEF Message
<1> DEFINE J == {p \in Nodes : chan[p][TopicOf(m)] # "none"}
<1>3. from # n /\ Linked(from, n) /\ Carries(from, m.author, n, J)
  BY <1>1 DEF ReceivedFrom
<1>4. Carries(from, m.author, n, Nodes)
  <2>1. J \in SUBSET Nodes
    OBVIOUS
  <2> HIDE DEF J
  <2> QED BY <1>3, <2>1, CarriesMore
<1> QED BY <1>1, <1>2, <1>3, <1>4

\* isTrusted or getLeader before raft is set up.
LEMMA TooEarlyStep ==
    ASSUME Inv, NEW n \in Nodes, NEW m \in net, NEW from \in Nodes, AskLeaderTooEarly(n, m, from)
    PROVE  Inv'
<1>1. main[n] = "loop" /\ ~HasRaft(n)
  BY DEF AskLeaderTooEarly, Receives
<1>2. UNCHANGED <<shake, topic, kind, chan, raft, known, news, net, elections>> /\ Goto(n, "down")
  BY DEF AskLeaderTooEarly
<1>3. shake' \in [Nodes -> {"none", "offset", "request", "wait", "done"}] /\ news' \in [Nodes -> Nat]
  BY <1>2 DEF Inv, TypeOK
<1> QED BY <1>1, <1>2, <1>3, DownStep

\* The leader answers the peer that it has the request from.
LEMMA AssignmentRequestStep ==
    ASSUME Inv, NEW n \in Nodes, NEW m \in net, NEW from \in Nodes, OnAssignmentRequest(n, m, from)
    PROVE  Inv'
<1> DEFINE r == Msg("AssignmentResponse", n, from, topic[n])
<1>1. Receives(n, "AssignmentRequest", m, from)
  BY DEF OnAssignmentRequest
<1>2. /\ main[n] = "loop" /\ m.author \in Listeners /\ from # n
      /\ Linked(from, n) /\ Carries(from, m.author, n, Nodes)
  BY <1>1, Received DEF Meant
<1>3. n \in Trusted /\ topic[n] \in Topics
  BY <1>2, InLoop
<1>4. r \in Message
  BY <1>3, Messages
<1>5. Meant(r)
  <2>1. r.type = "AssignmentResponse" /\ r.author = n /\ r.to = from
    BY DEF Msg
  <2>2. from \in Listeners \/ Relays(from, n)
    BY <1>2 DEF Relays
  <2> HIDE DEF r
  <2> QED BY <1>2, <1>3, <2>1, <2>2 DEF Meant
<1>6. /\ Publish(n, r) /\ UNCHANGED <<shake, topic, kind, chan, raft, known, news, elections>>
  BY DEF OnAssignmentRequest
<1>7. /\ shake' \in [Nodes -> {"none", "offset", "request", "wait", "done"}]
      /\ raft' \in [Nodes -> {"none", "running", "broken"}]
  BY <1>6 DEF Inv, TypeOK
<1> HIDE DEF r
<1> QED BY <1>2, <1>4, <1>5, <1>6, <1>7, PublishStep

\* The role is taken: by a peer that had relayed a request.
LEMMA AssignmentResponseStep ==
    ASSUME Inv, NEW n \in Nodes, NEW m \in net, NEW from \in Nodes, OnAssignmentResponse(n, m, from)
    PROVE  Inv'
<1>0. TypeOK /\ UNCHANGED <<raft, known, news, net, elections>>
  BY DEF Inv, OnAssignmentResponse
<1>1. Receives(n, "AssignmentResponse", m, from) /\ m.to = n
  BY DEF OnAssignmentResponse, Addressed
<1>2. /\ main[n] = "loop" /\ m.type = "AssignmentResponse" /\ m \in Message /\ Meant(m)
  BY <1>1, Received
<1>3. /\ n \in Trusted /\ n \notin Listeners /\ KeepsRole(n) /\ topic[n] \in Topics
      /\ \A t \in Topics : chan[n][t] # "open" => kind[n] = "LISTENER"
  BY <1>2, InLoop
<1>4. CASE chan[n][topic[n]] = "closed"
  <2>1. Goto(n, "down") /\ UNCHANGED <<shake, topic, kind, chan>>
    BY <1>4 DEF OnAssignmentResponse
  <2>2. kind[n] = "LISTENER"
    BY <1>3, <1>4
  <2>3. shake' \in [Nodes -> {"none", "offset", "request", "wait", "done"}] /\ news' \in [Nodes -> Nat]
    BY <1>0, <2>1 DEF TypeOK
  <2> QED BY <1>0, <1>2, <2>1, <2>2, <2>3, DownStep
<1>5. CASE chan[n][topic[n]] # "closed"
  <2>1. /\ topic' = [topic EXCEPT ![n] = m.assigned] /\ kind' = [kind EXCEPT ![n] = "LISTENER"]
        /\ RoleAssigned(n) /\ UNCHANGED main
    BY <1>5 DEF OnAssignmentResponse
  <2>2. PICK c \in [Topics -> {"none", "open", "closed"}] : chan' = [chan EXCEPT ![n] = c]
    <3> DEFINE e(t) == CASE t = topic[n]                          -> "closed"
                         [] t = m.assigned /\ chan[n][t] = "none" -> "open"
                         [] OTHER                                 -> chan[n][t]
    <3>1. \A t \in Topics : e(t) \in {"none", "open", "closed"}
      BY <1>0, <1>5 DEF TypeOK
    <3>2. [t \in Topics |-> e(t)] \in [Topics -> {"none", "open", "closed"}]
      <4> HIDE DEF e
      <4> QED BY <3>1
    <3>3. chan' = [chan EXCEPT ![n] = [t \in Topics |-> e(t)]]
      BY <1>5 DEF OnAssignmentResponse
    <3> QED BY <3>2, <3>3
  <2>3. m.assigned \in Topics
    BY <1>2 DEF Message
  <2>4. TypeOK'
    <3>1. shake' \in [Nodes -> {"none", "offset", "request", "wait", "done"}]
      BY <1>0, <2>1, RoleAssignedTyped
    <3>2. topic' \in [Nodes -> Topics \cup {""}]
      BY <1>0, <2>1, <2>3 DEF TypeOK
    <3>3. chan' \in [Nodes -> [Topics -> {"none", "open", "closed"}]]
      BY <1>0, <2>2 DEF TypeOK
    <3>4. kind' \in [Nodes -> {"UNKNOWN", "LISTENER", "ELECTABLE"}]
      BY <1>0, <2>1 DEF TypeOK
    <3> QED BY <1>0, <2>1, <3>1, <3>2, <3>3, <3>4 DEF TypeOK
  <2>5. Relays(n, m.author) /\ m.author \in Trusted \ {n}
    BY <1>1, <1>2, <1>3 DEF Meant
  <2>6. KeepsRole(n)'
    <3>1. topic'[n] \in Topics /\ kind'[n] = "LISTENER" /\ main'[n] = "loop"
      BY <1>0, <1>2, <2>1, <2>3 DEF TypeOK
    <3> QED BY <2>5, <3>1 DEF KeepsRole
  <2>7. \A k \in Nodes \ {n} : /\ topic'[k] = topic[k] /\ kind'[k] = kind[k]
                               /\ chan'[k] = chan[k] /\ shake'[k] = shake[k]
    BY <1>0, <2>1, <2>2, RoleAssignedTyped DEF TypeOK
  <2> QED BY <1>0, <1>3, <2>1, <2>4, <2>6, <2>7, StepOf
<1> QED BY <1>4, <1>5

\* Raft is set up, and the request is answered.
LEMMA RaftAddrsStep ==
    ASSUME Inv, NEW n \in Nodes, NEW m \in net, NEW from \in Nodes,
           OnRaftAddrsRequest(n, m, from) \/ OnRaftAddrsResponse(n, m, from)
    PROVE  Inv'
<1>0. TypeOK /\ main[n] = "loop"
  BY DEF Inv, OnRaftAddrsRequest, OnRaftAddrsResponse, Receives
<1>1. Connect(n) \/ SetupFails(n)
  BY DEF OnRaftAddrsRequest, OnRaftAddrsResponse
<1>2. raft' \in [Nodes -> {"none", "running", "broken"}] /\ \A k \in Nodes \ {n} : raft'[k] = raft[k]
  BY <1>0, <1>1 DEF TypeOK, Connect, SetupFails
<1>5. CASE UNCHANGED <<main, shake, topic, kind, chan, known, news, net, elections>>
  <2>1. TypeOK'
    BY <1>0, <1>2, <1>5 DEF TypeOK
  <2>2. n \notin Listeners /\ KeepsRole(n)'
    BY <1>0, <1>5, InLoop DEF KeepsRole
  <2> QED BY <1>2, <1>5, <2>1, <2>2, StepOf
<1>3. CASE OnRaftAddrsRequest(n, m, from)
  <2> DEFINE r == Msg("RaftAddrsResponse", n, NoNode, "0")
  <2>1. r \in Message /\ Meant(r)
    BY Messages DEF Meant, Msg, Topics
  <2>2. /\ Publish(n, r) \/ UNCHANGED <<main, net>>
        /\ UNCHANGED <<shake, topic, kind, chan, known, news, elections>>
    BY <1>3 DEF OnRaftAddrsRequest
  <2>3. shake' \in [Nodes -> {"none", "offset", "request", "wait", "done"}]
    BY <1>0, <2>2 DEF TypeOK
  <2> HIDE DEF r
  <2> QED BY <1>0, <1>2, <1>5, <2>1, <2>2, <2>3, PublishStep
<1>4. CASE OnRaftAddrsResponse(n, m, from)
  BY <1>4, <1>5 DEF OnRaftAddrsResponse
<1> QED BY <1>3, <1>4

\* Elections, and the loss of a message.
LEMMA RaftStep ==
    ASSUME Inv,
           \/ \E n \in Nodes : Elect(n) \/ \E l \in Trusted \ {n} : Learn(n, l)
           \/ \E m \in net : Lose(m)
    PROVE  Inv'
<1>1. UNCHANGED <<main, shake, topic, kind, chan, raft>> /\ net' \subseteq net /\ TypeOK
  BY DEF Elect, Learn, Lose, Inv
<1>0. news \in [Nodes -> Nat] /\ \A n \in Nodes : news[n] \in Nat /\ news[n] + 1 \in Nat
  <2>1. news \in [Nodes -> Nat]
    BY <1>1 DEF TypeOK
  <2> QED BY <2>1
<1>2. TypeOK'
  <2>1. ASSUME NEW n \in Nodes, Elect(n) PROVE TypeOK'
    <3>1. elections' \in 0..MaxElections
      <4>1. elections \in 0..MaxElections /\ elections > 0 /\ elections' = elections - 1
        BY <1>1, <2>1 DEF Elect, TypeOK
      <4> QED BY <4>1, ElectionsAssumption
    <3>2. news' \in [Nodes -> Nat]
      <4>1. news' = [news EXCEPT ![n] = news[n] + 1]
        BY <2>1 DEF Elect
      <4> QED BY <1>0, <4>1
    <3> QED BY <1>1, <2>1, <3>1, <3>2 DEF Elect, TypeOK
  <2>2. ASSUME NEW n \in Nodes, NEW l \in Trusted \ {n}, Learn(n, l) PROVE TypeOK'
    <3>1. news' \in [Nodes -> Nat]
      <4>1. news' = [news EXCEPT ![n] = news[n] + 1]
        BY <2>2 DEF Learn
      <4> QED BY <1>0, <4>1
    <3>2. known' \in [Nodes -> Nodes \cup {NoNode}]
      BY <1>1, <2>2 DEF Learn, TypeOK, Nodes
    <3> QED BY <1>1, <2>2, <3>1, <3>2 DEF Learn, TypeOK
  <2>3. ASSUME NEW m \in net, Lose(m) PROVE TypeOK'
    BY <1>1, <2>3 DEF Lose, TypeOK
  <2> QED BY <2>1, <2>2, <2>3
<1>3. \A n \in Listeners : AsksForever(n)'
  BY <1>1 DEF Inv, AsksForever
<1>4. \A n \in Trusted : KeepsRole(n)'
  BY <1>1 DEF Inv, KeepsRole, HasRaft
<1>5. \A m \in net' : Meant(m)'
  BY <1>1 DEF Inv, Meant
<1> QED BY <1>2, <1>3, <1>4, <1>5 DEF Inv

-----------------------------------------------------------------------------
(* The theorems *)

\* Every step keeps the invariant.
LEMMA Inductive == Inv /\ [Next]_vars => Inv'
<1> SUFFICES ASSUME Inv, [Next]_vars PROVE Inv'
  OBVIOUS
<1>1. ASSUME NEW n \in Nodes, NEW m \in net, NEW from \in Nodes,
             \/ AskLeaderTooEarly(n, m, from) \/ OnAssignmentRequest(n, m, from)
             \/ OnAssignmentResponse(n, m, from)
             \/ OnRaftAddrsRequest(n, m, from) \/ OnRaftAddrsResponse(n, m, from)
      PROVE  Inv'
  BY <1>1, TooEarlyStep, AssignmentRequestStep, AssignmentResponseStep, RaftAddrsStep
<1>2. ASSUME NEW n \in Nodes,
             \/ StartTrusted(n) \/ Handshake(n) \/ Ask(n) \/ Handle(n)
             \/ OnLeaderChan(n) \/ SendLoopEnds(n)
      PROVE  Inv'
  BY <1>1, <1>2, StartStep, HandshakeStep, LeaderChanStep, SendLoopStep DEF Handle
<1>3. CASE UNCHANGED vars
  BY <1>3 DEF vars, Inv, TypeOK, AsksForever, KeepsRole, HasRaft, Meant
<1> QED BY <1>2, <1>3, RaftStep DEF Next

\* The invariant holds always.
THEOREM Invariance == Spec => []Inv
<1> QED BY InitInv, Inductive, PTL DEF Spec

\* Type correctness: in particular the LeaderChan case never takes a report that
\* is not there.
THEOREM TypeCorrectness == Spec => []TypeOK
<1>1. Inv => TypeOK
  BY DEF Inv
<1> QED BY <1>1, Invariance, PTL

\* However the peers are connected and whoever brings a message first, a trusted
\* peer is demoted only where it lies on the way of a listener's request.
THEOREM DemotionByRelay == Spec => []DemotedOnlyByRelay
<1>1. Inv => DemotedOnlyByRelay
  BY DEF Inv, KeepsRole, Relays, DemotedOnlyByRelay
<1> QED BY <1>1, Invariance, PTL

\* A trusted peer goes down only without raft, demoted, or in its handshake.
THEOREM DownExplained == Spec => []DownIsExplained
<1>1. Inv => DownIsExplained
  BY DEF Inv, KeepsRole, DownIsExplained
<1> QED BY <1>1, Invariance, PTL

\* A listener is still without its role and out of its main loop.
ListenersWait == \A n \in Listeners : kind[n] = "UNKNOWN" /\ main[n] # "loop"

\* No listener ever gets a role in any network: whatever arrives,
\* handshakeListener does not return.
THEOREM ListenersWaitForever == Spec => []ListenersWait
<1>1. Inv => ListenersWait
  BY DEF Inv, AsksForever, ListenersWait
<1> QED BY <1>1, Invariance, PTL

=============================================================================
