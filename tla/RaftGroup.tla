------------------------------ MODULE RaftGroup -----------------------------
(***************************************************************************)
(* How the trusted peers form their raft group: each of them publishes its *)
(* address (handshakeRaft), connects to whom it hears of, and starts its   *)
(* own raft server with the peers it knows by then.                        *)
(*                                                                         *)
(*   server/server.go   handshakeRaft, raftAddrsRequest, raftAddrsResponse *)
(*   server/handlers.go OnRaftAddrsRequest, OnRaftAddrsResponse            *)
(*   raft/raft.go       New, Connect, addServer, setup                     *)
(*                                                                         *)
(* A request holds the address of its author, which never changes, and is  *)
(* published again every 5 seconds: a request of any peer can arrive any   *)
(* number of times at any time, or never.  A response can once its author  *)
(* has answered a request.                                                 *)
(*                                                                         *)
(* The raft library is external: a node becomes leader with the votes of a *)
(* majority of its own configuration, and a voter follows one leader.      *)
(***************************************************************************)
EXTENDS Naturals, FiniteSets

CONSTANTS
    Nodes,     \* the trusted peers
    NoNode,    \* no node
    Strict,    \* TRUE if a node votes only for members of its configuration
    MaxFaults  \* bound: failed connections and setups

ASSUME NodesAssumption == IsFiniteSet(Nodes) /\ NoNode \notin Nodes
ASSUME BoundsAssumption == MaxFaults \in Nat /\ Strict \in BOOLEAN

VARIABLES
    peers,     \* peers[n]: the peers n has heard of
    setup,     \* setup[n]: how far raft is set up at n
    answered,  \* answered[n]: n has published a RaftAddrsResponse
    config,    \* config[n]: the voters, as the raft server of n knows them
    leads,     \* leads[n]: raft.State() == raft.Leader at n
    follows,   \* follows[n]: the leader n has voted for or heard from
    faults     \* failures that may still happen

raftVars == <<leads, follows>>
vars == <<peers, setup, answered, config, raftVars, faults>>

\* "broken": the transport is there, raft is not; "crashed": the process is gone
TypeOK ==
    /\ peers \in [Nodes -> SUBSET Nodes]
    /\ setup \in [Nodes -> {"none", "running", "broken", "crashed"}]
    /\ answered \in [Nodes -> BOOLEAN]
    /\ config \in [Nodes -> SUBSET Nodes]
    /\ leads \in [Nodes -> BOOLEAN]
    /\ follows \in [Nodes -> Nodes \cup {NoNode}]
    /\ faults \in 0..MaxFaults
    /\ \A n \in Nodes : n \notin peers[n] /\ (setup[n] = "running" => n \in config[n])

Init ==
    /\ peers = [n \in Nodes |-> {}]
    /\ setup = [n \in Nodes |-> "none"]
    /\ answered = [n \in Nodes |-> FALSE]
    /\ config = [n \in Nodes |-> {}]
    /\ leads = [n \in Nodes |-> FALSE]
    /\ follows = [n \in Nodes |-> NoNode]
    /\ faults = MaxFaults

-----------------------------------------------------------------------------
(* RaftImpl *)

\* A failure of the environment is one of a bounded number.
Fault == faults > 0 /\ faults' = faults - 1

\* addServer: m is remembered whatever comes of the connection.
Remember(n, m) == peers' = [peers EXCEPT ![n] = @ \cup {m}]

\* Mutant: the servers are read before addServer has added the new one.
ServersBefore(n, m) == {n} \cup peers[n]

\* The servers n bootstraps its raft group with.
Servers(n, m) == {n} \cup peers[n] \cup {m}

\* addServer on a leader: AddVoter, whose failure nobody looks at.
AddVoter(n, m) ==
    \/ config' = [config EXCEPT ![n] = @ \cup {m}]
    \/ UNCHANGED config

\* Connect, when raft is there already.
ConnectMore(n, m) ==
    /\ setup[n] \in {"running", "broken"}
    /\ Remember(n, m)
    /\ IF leads[n] THEN AddVoter(n, m) ELSE UNCHANGED config
    /\ UNCHANGED <<setup, faults>>

\* Connect, when this is the first peer: raft is set up and bootstrapped.
ConnectFirst(n, m) ==
    /\ setup[n] = "none"
    /\ Remember(n, m)
    /\ setup' = [setup EXCEPT ![n] = "running"]
    /\ config' = [config EXCEPT ![n] = Servers(n, m)]
    /\ UNCHANGED faults

Connect(n, m) == ConnectFirst(n, m) \/ ConnectMore(n, m)

\* Connect returns an error: no connection, or no transport.
ConnectFails(n, m) ==
    /\ setup[n] # "crashed"
    /\ Fault
    /\ Remember(n, m)
    /\ UNCHANGED <<setup, config>>

\* setup fails when it has made the transport: Connect will not try again.
SetupFails(n, m) ==
    /\ setup[n] = "none"
    /\ Fault
    /\ Remember(n, m)
    /\ setup' = [setup EXCEPT ![n] = "broken"]
    /\ UNCHANGED config

-----------------------------------------------------------------------------
(* Handlers *)

\* Mutant: a node listens to its own requests.
OnRaftAddrsRequestSelf(n, m) ==
    /\ \/ Connect(n, m) /\ answered' = [answered EXCEPT ![n] = TRUE]
       \/ (ConnectFails(n, m) \/ SetupFails(n, m)) /\ UNCHANGED answered
    /\ UNCHANGED raftVars

\* OnRaftAddrsRequest: only a Connect without error is answered.
OnRaftAddrsRequest(n, m) ==
    /\ n # m
    /\ \/ Connect(n, m) /\ answered' = [answered EXCEPT ![n] = TRUE]
       \/ (ConnectFails(n, m) \/ SetupFails(n, m)) /\ UNCHANGED answered
    /\ UNCHANGED raftVars

OnRaftAddrsResponse(n, m) ==
    /\ n # m /\ answered[m]
    /\ Connect(n, m) \/ ConnectFails(n, m) \/ SetupFails(n, m)
    /\ UNCHANGED <<answered, raftVars>>

\* A command, or the AssignmentRequest of a listener, makes the main loop ask
\* raft for the leader.  Without raft that is a nil dereference.
AskLeaderTooEarly(n) ==
    /\ setup[n] \in {"none", "broken"}
    /\ Fault
    /\ setup' = [setup EXCEPT ![n] = "crashed"]
    /\ UNCHANGED <<peers, answered, config, raftVars>>

-----------------------------------------------------------------------------
(* The raft library *)

Majority(Q, S) == 2 * Cardinality(Q \cap S) > Cardinality(S)

Running == {n \in Nodes : setup[n] = "running"}

\* n collects the votes of Q; who votes for another node does not lead.
Elect(n) ==
    \E Q \in SUBSET Running :
        /\ n \in Q /\ Majority(Q, config[n])
        /\ Strict => \A v \in Q : n \in config[v]
        /\ follows' = [v \in Nodes |-> IF v \in Q THEN n ELSE follows[v]]
        /\ leads' = [v \in Nodes |-> v = n \/ (leads[v] /\ v \notin Q)]
        /\ UNCHANGED <<peers, setup, answered, config, faults>>

\* A leader sends its configuration to a voter that follows it or nobody.
Replicate(n, m) ==
    /\ leads[n] /\ m \in config[n] /\ m \in Running /\ m # n
    /\ follows[m] \in {n, NoNode}
    /\ follows' = [follows EXCEPT ![m] = n]
    /\ config' = [config EXCEPT ![m] = config[n]]
    /\ UNCHANGED <<peers, setup, answered, leads, faults>>

StepDown(n) ==
    /\ leads[n]
    /\ leads' = [leads EXCEPT ![n] = FALSE]
    /\ follows' = [follows EXCEPT ![n] = NoNode]
    /\ UNCHANGED <<peers, setup, answered, config, faults>>

-----------------------------------------------------------------------------
Step(n) ==
    \/ \E m \in Nodes : \/ OnRaftAddrsRequest(n, m) \/ OnRaftAddrsResponse(n, m)
                        \/ Replicate(n, m)
    \/ AskLeaderTooEarly(n) \/ Elect(n) \/ StepDown(n)

Next == \E n \in Nodes : Step(n)

Spec == Init /\ [][Next]_vars

-----------------------------------------------------------------------------
(* Properties *)

\* n leads, and a majority of its configuration follows it: it can commit.
CanCommit(n) == leads[n] /\ Majority({v \in Nodes : follows[v] = n}, config[n])

\* Though every peer bootstraps with the peers it happens to know, no two of
\* them can commit at a time: they form one consensus group.  Holds for up to
\* three trusted peers, not for four: see the findings.
OneGroup == \A n, m \in Nodes : CanCommit(n) /\ CanCommit(m) => n = m

\* Connect handles duplicates safely: a peer that has answered a request, which it
\* does when Connect returned no error, runs raft.  Does not hold: see the
\* README (RaftGroupBroken.cfg).
AnswersRunRaft == \A n \in Nodes : answered[n] => setup[n] = "running"
=============================================================================
