-------------------------- MODULE RaftGroupProofs ---------------------------
(***************************************************************************)
(* Up to three trusted peers always form one consensus group.              *)
(*                                                                         *)
(* What carries the proof is that Connect adds a peer before it bootstraps *)
(* raft: a configuration never has less than two members, so whoever can   *)
(* commit is followed by two nodes.                                        *)
(*                                                                         *)
(* At the end, the Poller, which asks the peers of such a group: its polls *)
(* do not overlap.                                                         *)
(***************************************************************************)
EXTENDS RaftGroup, Poller, FiniteSetTheorems, TLAPS

\* The raft server of n knows itself and at least one other voter.
TwoVoters(n) == n \in config[n] /\ \E m \in config[n] : m # n

Inv ==
    /\ TypeOK
    /\ \A n \in Nodes : /\ setup[n] = "running" => TwoVoters(n)
                        /\ leads[n] => setup[n] = "running"

LEMMA InitInv == Init => Inv
BY BoundsAssumption DEF Init, Inv, TypeOK

\* What the handlers do to the group keeps the invariant.
LEMMA ConnectInv ==
    ASSUME Inv, NEW n \in Nodes, NEW m \in Nodes, n # m, UNCHANGED raftVars,
           answered' \in [Nodes -> BOOLEAN],
           Connect(n, m) \/ ConnectFails(n, m) \/ SetupFails(n, m)
    PROVE  Inv'
<1> USE DEF Inv, TypeOK, TwoVoters, raftVars, Remember
<1>1. CASE ConnectFirst(n, m)
  BY <1>1 DEF ConnectFirst, Servers
<1>2. CASE ConnectMore(n, m)
  BY <1>2 DEF ConnectMore, AddVoter
<1>3. CASE ConnectFails(n, m)
  BY <1>3, BoundsAssumption DEF ConnectFails, Fault
<1>4. CASE SetupFails(n, m)
  BY <1>4, BoundsAssumption DEF SetupFails, Fault
<1> QED BY <1>1, <1>2, <1>3, <1>4 DEF Connect

\* Every step keeps the invariant.
LEMMA NextInv == Inv /\ [Next]_vars => Inv'
<1> SUFFICES ASSUME Inv, [Next]_vars PROVE Inv'
  OBVIOUS
<1>1. ASSUME NEW n \in Nodes, NEW m \in Nodes, OnRaftAddrsRequest(n, m) PROVE Inv'
  <2>1. answered' \in [Nodes -> BOOLEAN]
    BY <1>1 DEF OnRaftAddrsRequest, Inv, TypeOK
  <2> QED BY <1>1, <2>1, ConnectInv DEF OnRaftAddrsRequest
<1>2. ASSUME NEW n \in Nodes, NEW m \in Nodes, OnRaftAddrsResponse(n, m) PROVE Inv'
  <2>1. answered' \in [Nodes -> BOOLEAN]
    BY <1>2 DEF OnRaftAddrsResponse, Inv, TypeOK
  <2> QED BY <1>2, <2>1, ConnectInv DEF OnRaftAddrsResponse
<1>3. ASSUME NEW n \in Nodes, NEW m \in Nodes, Replicate(n, m) PROVE Inv'
  BY <1>3 DEF Replicate, Running, Inv, TypeOK, TwoVoters
<1>4. ASSUME NEW n \in Nodes, AskLeaderTooEarly(n) PROVE Inv'
  BY <1>4, BoundsAssumption DEF AskLeaderTooEarly, Fault, raftVars, Inv, TypeOK, TwoVoters
<1>5. ASSUME NEW n \in Nodes, Elect(n) PROVE Inv'
  BY <1>5 DEF Elect, Running, Inv, TypeOK, TwoVoters
<1>6. ASSUME NEW n \in Nodes, StepDown(n) PROVE Inv'
  BY <1>6 DEF StepDown, Inv, TypeOK, TwoVoters
<1>7. CASE UNCHANGED vars
  BY <1>7 DEF vars, raftVars, Inv, TypeOK, TwoVoters
<1> QED BY <1>1, <1>2, <1>3, <1>4, <1>5, <1>6, <1>7 DEF Next, Step

\* A node that can commit is followed by at least two.
LEMMA TwoFollowers ==
    ASSUME Inv, NEW n \in Nodes, CanCommit(n),
           NEW F, F = {v \in Nodes : follows[v] = n} \cap config[n]
    PROVE  IsFiniteSet(F) /\ Cardinality(F) \in Nat /\ Cardinality(F) >= 2
<1>1. F \subseteq Nodes /\ config[n] \subseteq Nodes
  BY DEF Inv, TypeOK
<1>2. IsFiniteSet(F) /\ IsFiniteSet(config[n])
  BY <1>1, NodesAssumption, FS_Subset
<1>3. Cardinality(F) \in Nat /\ Cardinality(config[n]) \in Nat
  BY <1>2, FS_CardinalityType
<1>4. PICK m \in config[n] : m # n /\ n \in config[n]
  BY DEF Inv, CanCommit, TwoVoters
<1>5. Cardinality({n, m}) = 2
  <2>1. IsFiniteSet({n}) /\ Cardinality({n}) = 1
    BY FS_Singleton
  <2>2. m \notin {n}
    BY <1>4
  <2>3. Cardinality({n} \cup {m}) = Cardinality({n}) + 1
    BY <2>1, <2>2, FS_AddElement
  <2> QED BY <2>1, <2>3, {n, m} = {n} \cup {m}
<1>6. Cardinality({n, m}) <= Cardinality(config[n])
  BY <1>2, <1>4, {n, m} \subseteq config[n], FS_Subset
<1>7. 2 * Cardinality(F) > Cardinality(config[n])
  BY DEF CanCommit, Majority
<1> QED BY <1>2, <1>3, <1>5, <1>6, <1>7

-----------------------------------------------------------------------------
(* Theorems *)

\* peers, setup, config and the roles are always of the right type, no peer is
\* its own peer, and a running raft server is a member of its group.
THEOREM TypeCorrectness == Spec => []TypeOK
<1>1. Inv => TypeOK
  BY DEF Inv
<1> QED BY InitInv, NextInv, <1>1, PTL DEF Spec

\* With at most three trusted peers no two of them can commit at a time, whatever
\* connections fail, whatever requests are lost and however each of them came to
\* its configuration.
THEOREM ThreePeersOneGroup ==
    ASSUME Cardinality(Nodes) <= 3
    PROVE  Spec => []OneGroup
<1>1. Inv => OneGroup
  <2> SUFFICES ASSUME Inv, NEW n \in Nodes, NEW m \in Nodes,
                      CanCommit(n), CanCommit(m), n # m
               PROVE  FALSE
    BY DEF OneGroup
  <2> DEFINE A == {v \in Nodes : follows[v] = n} \cap config[n]
             B == {v \in Nodes : follows[v] = m} \cap config[m]
  <2>1. IsFiniteSet(A) /\ Cardinality(A) \in Nat /\ Cardinality(A) >= 2
    BY TwoFollowers
  <2>2. IsFiniteSet(B) /\ Cardinality(B) \in Nat /\ Cardinality(B) >= 2
    BY TwoFollowers
  <2>3. A \cap B = {} /\ A \cup B \subseteq Nodes
    OBVIOUS
  <2> HIDE DEF A, B
  <2>4. Cardinality(A \cup B) = Cardinality(A) + Cardinality(B)
    <3>1. Cardinality(A \cup B) = Cardinality(A) + Cardinality(B) - Cardinality(A \cap B)
      BY <2>1, <2>2, FS_Union
    <3>2. Cardinality(A \cap B) = 0
      BY <2>3, FS_EmptySet
    <3> QED BY <2>1, <2>2, <3>1, <3>2
  <2>5. Cardinality(A \cup B) <= Cardinality(Nodes) /\ Cardinality(Nodes) \in Nat
    BY <2>3, NodesAssumption, FS_Subset, FS_CardinalityType
  <2> QED BY <2>1, <2>2, <2>4, <2>5
<1> QED BY InitInv, NextInv, <1>1, PTL DEF Spec

-----------------------------------------------------------------------------
(* The poller *)

\* An append under way was started below the bound.
PollTypeInv == PollTypeOK /\ (main = "append" => old < MaxAnswers)

\* A poll that has not begun is alone, with no tick pending; the flag is set
\* while a poll goes on.
PollInv ==
    /\ pc \in [Polls -> Steps]
    /\ PollsDontOverlap
    /\ \A g \in Polls : pc[g] = "start" => ~tick
    /\ \A g \in Polls : pc[g] \in {"epoch", "wait", "end"} => polling = TRUE

\* The poller's state has its types: pollResult never gets more entries than there
\* are answers, although a poll empties it while Update appends.
THEOREM PollTypes == PollSpec => []PollTypeOK
<1>0. MaxAnswers \in Nat /\ 0 \in 0..MaxAnswers
  BY PollerAssumption
<1>1. PollInit => PollTypeInv
  <2> SUFFICES ASSUME PollInit PROVE PollTypeInv
    OBVIOUS
  <2>1. pc \in [Polls -> Steps] /\ main = "select" /\ old = 0 /\ count = 0
    BY DEF PollInit, Steps
  <2>2. ticking \in BOOLEAN /\ tick \in BOOLEAN /\ polling \in BOOLEAN
    BY DEF PollInit
  <2> QED BY <1>0, <2>1, <2>2 DEF PollTypeInv, PollTypeOK
<1>2. PollTypeInv /\ [PollNext]_pollVars => PollTypeInv'
  <2> SUFFICES ASSUME PollTypeInv, [PollNext]_pollVars PROVE PollTypeInv'
    OBVIOUS
  <2>1. CASE AppendAnswer
    <3>1. old \in 0..MaxAnswers /\ old < MaxAnswers /\ count' = old + 1 /\ old' = 0
      BY <2>1 DEF AppendAnswer, PollTypeInv, PollTypeOK
    <3>2. count' \in 0..MaxAnswers /\ old' \in 0..MaxAnswers
      BY <1>0, <3>1
    <3>3. main' \in {"select", "done"} /\ UNCHANGED <<ticking, tick, polling, pc>>
      BY <2>1 DEF AppendAnswer
    <3> QED BY <3>2, <3>3 DEF PollTypeInv, PollTypeOK
  <2>2. CASE Update
    BY <1>0, <2>2 DEF Update, PollTypeInv, PollTypeOK
  <2>3. CASE Resume \/ Pause \/ Fire
    BY <2>3 DEF Resume, Pause, Fire, PollTypeInv, PollTypeOK
  <2>4. CASE Loop
    BY <2>4 DEF Loop, Goto, PollTypeInv, PollTypeOK, Steps
  <2>5. ASSUME NEW g \in Polls, Poll(g) PROVE PollTypeInv'
    <3>1. CASE Begin(g)
      BY <1>0, <3>1 DEF Begin, Goto, PollTypeInv, PollTypeOK, Steps
    <3>2. CASE Epoch(g) \/ Done(g) \/ Timeout(g) \/ End(g) \/ Result(g)
      BY <3>2 DEF Epoch, Done, Timeout, End, Result, Goto, PollTypeInv, PollTypeOK, Steps
    <3> QED BY <2>5, <3>1, <3>2 DEF Poll
  <2>6. CASE UNCHANGED pollVars
    BY <2>6 DEF pollVars, PollTypeInv, PollTypeOK
  <2> QED BY <2>1, <2>2, <2>3, <2>4, <2>5, <2>6 DEF PollNext
<1>3. PollTypeInv => PollTypeOK
  BY DEF PollTypeInv
<1> QED BY <1>1, <1>2, <1>3, PTL DEF PollSpec

\* If a goroutine that can run does so before the next tick, then polls never
\* overlap, however many there have been: pollResult has one owner.
THEOREM PollsApart ==
    ASSUME Prompt = TRUE
    PROVE  PollSpec => []PollsDontOverlap
<1> DEFINE Active == {"start", "epoch", "wait", "end"}
<1>1. PollInit => PollInv
  BY DEF PollInit, PollInv, PollsDontOverlap, Steps
<1>2. PollInv /\ [PollNext]_pollVars => PollInv'
  <2> SUFFICES ASSUME PollInv, [PollNext]_pollVars PROVE PollInv'
    OBVIOUS
  <2>1. CASE AppendAnswer \/ Update \/ Resume \/ Pause \/ UNCHANGED pollVars
    <3>1. UNCHANGED <<tick, polling, pc>>
      BY <2>1 DEF AppendAnswer, Update, Resume, Pause, pollVars
    <3> QED BY <3>1 DEF PollInv, PollsDontOverlap
  <2>2. CASE Fire
    <3>1. UNCHANGED <<polling, pc>> /\ \A g \in Polls : pc[g] # "start"
      BY <2>2 DEF Fire
    <3> QED BY <3>1 DEF PollInv, PollsDontOverlap
  <2>3. CASE Loop
    <3>1. tick /\ tick' = FALSE /\ UNCHANGED polling
      BY <2>3 DEF Loop
    <3>2. CASE polling
      BY <2>3, <3>1, <3>2 DEF Loop, PollInv, PollsDontOverlap
    <3>3. CASE ~polling
      <4>1. \A g \in Polls : pc[g] \notin Active
        BY <3>1, <3>3 DEF PollInv
      <4>2. PICK g \in Polls : pc' = [pc EXCEPT ![g] = "start"]
        BY <2>3, <3>3 DEF Loop, Goto
      <4>3. pc' \in [Polls -> Steps] /\ \A h \in Polls : pc'[h] = IF h = g THEN "start" ELSE pc[h]
        BY <4>2 DEF PollInv, Steps
      <4> QED BY <3>1, <4>1, <4>3 DEF PollInv, PollsDontOverlap
    <3> QED BY <3>2, <3>3
  <2>4. ASSUME NEW g \in Polls, Poll(g) PROVE PollInv'
    <3>1. PICK step \in {"epoch", "wait", "end", "result", "none"} : pc' = [pc EXCEPT ![g] = step]
      BY <2>4 DEF Poll, Begin, Epoch, Done, Timeout, End, Result, Goto
    <3>2. pc' \in [Polls -> Steps] /\ \A h \in Polls : pc'[h] = IF h = g THEN step ELSE pc[h]
      BY <3>1 DEF PollInv, Steps
    <3>3. /\ UNCHANGED tick
          /\ pc[g] = "start" => pc'[g] = "epoch" /\ polling' = TRUE
          /\ pc[g] \in {"epoch", "wait"} => pc'[g] \in {"wait", "end"} /\ polling' = polling
          /\ pc[g] = "end" => pc'[g] = "result"
          /\ pc[g] = "result" => pc'[g] = "none" /\ polling' = polling
          /\ pc[g] \in {"start", "epoch", "wait", "end", "result"}
      BY <2>4, <3>2 DEF Poll, Begin, Epoch, Done, Timeout, End, Result, Goto, PollInv
    <3>4. PollsDontOverlap'
      BY <3>2, <3>3 DEF PollInv, PollsDontOverlap
    <3>5. \A h \in Polls : pc'[h] = "start" => ~tick'
      BY <3>2, <3>3 DEF PollInv
    <3>6. \A h \in Polls : pc'[h] \in {"epoch", "wait", "end"} => polling' = TRUE
      BY <3>2, <3>3 DEF PollInv, PollsDontOverlap
    <3> QED BY <3>2, <3>4, <3>5, <3>6 DEF PollInv
  <2> QED BY <2>1, <2>2, <2>3, <2>4 DEF PollNext
<1>3. PollInv => PollsDontOverlap
  BY DEF PollInv
<1> QED BY <1>1, <1>2, <1>3, PTL DEF PollSpec

=============================================================================
