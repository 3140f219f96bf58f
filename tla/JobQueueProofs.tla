--------------------------- MODULE JobQueueProofs ---------------------------
(***************************************************************************)
(* For any number of nodes and jobs and any bounds: JobQueue is type       *)
(* correct, an entry validated on the newest agreed state respects the     *)
(* leases when it is agreed, and a leader's OK means that the entry holds  *)
(* what the command asked for.                                             *)
(***************************************************************************)
EXTENDS JobQueue, SequenceTheorems, TLAPS

\* A validation is remembered only while its handler runs, and as long as the
\* log has not grown since, what it allowed is still allowed: leases only run
\* out, and no other node may have agreed on something in between.
ValidatedAt(n) ==
    /\ seen[n] <= Len(log)
    /\ pc[n] # "commit" => seen[n] = 0
    /\ seen[n] > 0 /\ seen[n] = Len(log) => Respects(task[n], log[Len(log)], held[n])

Validated == \A n \in Nodes : ValidatedAt(n)

Inv == TypeOK /\ Validated

-----------------------------------------------------------------------------
(* The operators on queue states *)

\* The empty queue is a state.
LEMMA EmptyState == Empty \in State
BY NodesAssumption, BoundsAssumption DEF Empty, State, Job, Lock, Absent, NoLock

\* The change of a permitted request leads to a state again and touches only
\* the job the request is about.
LEMMA MutateState ==
    ASSUME NEW s \in State, NEW t \in Request, now \in 0..MaxClock, Permitted(s, t)
    PROVE  /\ Mutate(s, t) \in State
           /\ \A j \in Jobs : j # t.job => Mutate(s, t)[j] = s[j]
<1> DEFINE v == Changed(s[t.job], t)
<1>1. s \in [Jobs -> Job] /\ \A j \in Jobs : s[j].data = NoNode => s[j] = Absent
  BY DEF State
<1>2. s[t.job] \in Job
  BY <1>1 DEF Request
<1>3. Absent \in Job /\ NoLock \in Lock
  BY BoundsAssumption DEF Absent, NoLock, Job, Lock
<1>4. v \in Job /\ (v.data = NoNode => v = Absent)
  <2>1. CASE t.op = "set"
    BY <1>2, <2>1, NodesAssumption DEF Changed, Job, Request
  <2>2. CASE t.op = "delete"
    BY <1>3, <2>2 DEF Changed
  <2>3. CASE t.op = "acquire"
    BY <1>2, <2>3 DEF Changed, Permitted, Job, Lock, Request
  <2>4. CASE t.op = "release"
    BY <1>2, <1>3, <2>4 DEF Changed, Permitted, Job, Request
  <2> QED BY <2>1, <2>2, <2>3, <2>4 DEF Ops, Request
<1>5. Mutate(s, t) = [s EXCEPT ![t.job] = v]
  BY DEF Mutate
<1> QED BY <1>1, <1>4, <1>5 DEF State, Request

\* A permitted request respects the leases of the state it is permitted on.
LEMMA PermittedRespects ==
    ASSUME NEW s \in State, NEW t \in Request, now \in 0..MaxClock, Permitted(s, t)
    PROVE  Respects(t, s, Mutate(s, t))
<1>1. s[t.job] \in Job /\ (s[t.job].data = NoNode => s[t.job] = Absent)
  BY DEF State, Request
<1>2. ~LeasedToOther(s, t.job, t.from)
  BY <1>1, BoundsAssumption
     DEF Permitted, CheckMutable, Expired, LeasedToOther, Job, Lock, Absent, NoLock
<1> QED BY <1>2, MutateState DEF Respects

-----------------------------------------------------------------------------
(* Type correctness *)

\* Messages that are published are messages.
LEMMA PublishType ==
    ASSUME NEW n \in Nodes, NEW op, NEW job, NEW s,
           \/ op \in Ops /\ job \in Jobs /\ s = Empty
           \/ op = "state" /\ job = NoJob /\ s \in State,
           net \subseteq Message, Publish(n, op, job, s, net)
    PROVE  net' \subseteq Message
BY DEF Publish, Message

\* The initial states have the right types and nothing is validated yet.
LEMMA InitInv == Init => Inv
<1> SUFFICES ASSUME Init PROVE Inv
  OBVIOUS
<1>1. InUse \subseteq State
  BY NodesAssumption, BoundsAssumption DEF InUse, State, Job, Lock, NoLock
<1>2. TypeOK
  <2>1. Idle \in Task
    BY DEF Idle, Task
  <2>2. log \in Seq(State) /\ fsm \in [Nodes -> State] /\ applied \in [Nodes -> Nat]
        /\ \A n \in Nodes : applied[n] <= Len(log)
    <3>1. CASE log = <<>> /\ applied = [n \in Nodes |-> 0] /\ fsm = [n \in Nodes |-> Empty]
      BY <3>1, EmptyState
    <3>2. ASSUME NEW s \in InUse, log = <<s>>, applied = [n \in Nodes |-> 1],
                 fsm = [n \in Nodes |-> s]
          PROVE  /\ log \in Seq(State) /\ fsm \in [Nodes -> State]
                 /\ applied \in [Nodes -> Nat]
                 /\ \A n \in Nodes : applied[n] <= Len(log)
      <4>1. s \in State
        BY <1>1
      <4>2. log \in Seq(State) /\ Len(log) = 1
        BY <3>2, <4>1
      <4> QED BY <3>2, <4>1, <4>2
    <3> QED BY <3>1, <3>2 DEF Init
  <2>3. pc \in [Nodes -> Places] /\ depth \in [Nodes -> 0..StackDepth]
    BY BoundsAssumption DEF Init, Places
  <2>4. now \in 0..MaxClock /\ commands \in 0..MaxCommands /\ faults \in 0..MaxFaults
    BY BoundsAssumption DEF Init
  <2> QED BY <2>1, <2>2, <2>3, <2>4, EmptyState DEF Init, TypeOK
<1>3. Validated
  BY <1>2 DEF Init, Validated, ValidatedAt, TypeOK
<1> QED BY <1>2, <1>3 DEF Inv

\* The library's and the clock's steps preserve the types.
LEMMA EnvType ==
    ASSUME TypeOK, Tick \/ \E n \in Nodes : Raft(n)
    PROVE  TypeOK'
<1> USE DEF TypeOK, Places, raftVars, loopVars
<1>1. CASE Tick
  BY <1>1, BoundsAssumption DEF Tick
<1>2. ASSUME NEW n \in Nodes, Elect(n) PROVE TypeOK'
  BY <1>2, BoundsAssumption DEF Elect, ObserveLeadership
<1>3. ASSUME NEW n \in Nodes, StepDown(n) PROVE TypeOK'
  BY <1>3, BoundsAssumption DEF StepDown
<1>4. ASSUME NEW n \in Nodes, Learn(n) PROVE TypeOK'
  BY <1>4 DEF Learn
<1>5. ASSUME NEW n \in Nodes, Apply(n) PROVE TypeOK'
  <2>1. log[applied[n] + 1] \in State
    BY <1>5 DEF Apply
  <2> QED BY <1>5, <2>1 DEF Apply
<1> QED BY <1>1, <1>2, <1>3, <1>4, <1>5 DEF Raft

\* What a main loop takes on is a task: its steps preserve the types.
LEMMA SelectType ==
    ASSUME TypeOK, NEW n \in Nodes, Select(n)
    PROVE  TypeOK'
<1> USE DEF TypeOK, Places, raftVars, loopVars
<1>1. CASE CommandAtLeader(n)
  <2>1. PICK op \in Ops, j \in Jobs :
          Start(n, "handle", [op |-> op, job |-> j, from |-> n, cmd |-> TRUE], Empty)
    BY <1>1 DEF CommandAtLeader
  <2>2. [op |-> op, job |-> j, from |-> n, cmd |-> TRUE] \in Task
    BY DEF Task, Request
  <2>3. commands' \in 0..MaxCommands
    BY <1>1, BoundsAssumption DEF CommandAtLeader
  <2>4. /\ UNCHANGED <<faults, now, log, applied, fsm, cur, leading, known, notice, net>>
        /\ kept' \in [Nodes -> BOOLEAN]
    BY <1>1 DEF CommandAtLeader
  <2> QED BY <2>1, <2>2, <2>3, <2>4, EmptyState DEF Start
<1>2. CASE ForwardCommand(n)
  <2>1. PICK op \in Ops, j \in Jobs : Publish(n, op, j, Empty, net)
    BY <1>2 DEF ForwardCommand
  <2>2. net' \subseteq Message
    BY <2>1, EmptyState, PublishType
  <2>3. commands' \in 0..MaxCommands
    BY <1>2, BoundsAssumption DEF ForwardCommand
  <2>4. UNCHANGED <<faults, now, log, applied, fsm, raftVars, pc, task, held, depth, seen, done>>
    BY <1>2 DEF ForwardCommand
  <2> QED BY <2>2, <2>3, <2>4
<1>3. CASE RecvRequest(n)
  <2>1. PICK m \in net : \E peer \in ReceivedFrom(n, m) :
          /\ m.op \in Ops /\ net' = net \ {m}
          /\ IF leading[n]
             THEN Start(n, "get", [op |-> m.op, job |-> m.job, from |-> peer, cmd |-> FALSE],
                        Empty)
             ELSE UNCHANGED <<pc, task, held, depth, seen, done>>
    BY <1>3 DEF RecvRequest
  <2>2. m \in Message
    BY <2>1
  <2>a. PICK peer \in ReceivedFrom(n, m) :
          /\ m.op \in Ops /\ net' = net \ {m}
          /\ IF leading[n]
             THEN Start(n, "get", [op |-> m.op, job |-> m.job, from |-> peer, cmd |-> FALSE],
                        Empty)
             ELSE UNCHANGED <<pc, task, held, depth, seen, done>>
    BY <2>1
  <2>3. peer \in Nodes
    BY <2>2 DEF ReceivedFrom, Message
  <2>4. [op |-> m.op, job |-> m.job, from |-> peer, cmd |-> FALSE] \in Task
    BY <2>a, <2>2, <2>3 DEF Task, Request, Message, Ops
  <2>5. /\ net' \subseteq Message
        /\ pc' \in [Nodes -> Places]
        /\ task' \in [Nodes -> Task] /\ held' \in [Nodes -> State]
        /\ UNCHANGED <<depth, seen, done>>
    <3>1. CASE leading[n]
      <4> DEFINE t == [op |-> m.op, job |-> m.job, from |-> peer, cmd |-> FALSE]
      <4>1. Start(n, "get", t, Empty) /\ t \in Task /\ net' = net \ {m}
        BY <2>a, <2>4, <3>1
      <4> HIDE DEF t
      <4> QED BY <4>1, EmptyState DEF Start
    <3>2. CASE ~leading[n]
      BY <2>a, <3>2
    <3> QED BY <3>1, <3>2
  <2> QED BY <1>3, <2>5 DEF RecvRequest
<1>4. CASE RecvState(n)
  <2>1. PICK m \in net : \E peer \in ReceivedFrom(n, m) :
          /\ net' = net \ {m}
          /\ IF Leader(n) = peer
             THEN Start(n, "commit",
                        [op |-> "state", job |-> NoJob, from |-> peer, cmd |-> FALSE], m.state)
             ELSE UNCHANGED <<pc, task, held, depth, seen, done>>
    BY <1>4 DEF RecvState
  <2>2. m \in Message
    BY <2>1
  <2>a. PICK peer \in ReceivedFrom(n, m) :
          /\ net' = net \ {m}
          /\ IF Leader(n) = peer
             THEN Start(n, "commit",
                        [op |-> "state", job |-> NoJob, from |-> peer, cmd |-> FALSE], m.state)
             ELSE UNCHANGED <<pc, task, held, depth, seen, done>>
    BY <2>1
  <2>3. peer \in Nodes
    BY <2>2 DEF ReceivedFrom, Message
  <2>4. [op |-> "state", job |-> NoJob, from |-> peer, cmd |-> FALSE] \in Task
        /\ m.state \in State
    BY <2>2, <2>3, EmptyState DEF Task, Message
  <2>5. /\ net' \subseteq Message
        /\ pc' \in [Nodes -> Places]
        /\ task' \in [Nodes -> Task] /\ held' \in [Nodes -> State]
        /\ UNCHANGED <<depth, seen, done>>
    BY <2>a, <2>4 DEF Start
  <2> QED BY <1>4, <2>5 DEF RecvState
<1>5. CASE OnLeaderChan(n)
  <2>1. [Idle EXCEPT !.op = "elected"] \in Task
    BY DEF Idle, Task
  <2>2. /\ pc' \in [Nodes -> Places]
        /\ task' \in [Nodes -> Task] /\ held' \in [Nodes -> State]
        /\ UNCHANGED <<depth, seen, done>>
    BY <1>5, <2>1, EmptyState DEF OnLeaderChan, Start
  <2> QED BY <1>5, <2>2 DEF OnLeaderChan
<1> QED BY <1>1, <1>2, <1>3, <1>4, <1>5 DEF Select

\* The ends of a handler's parts: the variables of the main loop keep their types.
LEMMA EndsType ==
    ASSUME TypeOK, NEW n \in Nodes,
           \/ Done(n)
           \/ UNCHANGED raftVars /\ \E where \in Places : Return(n, where) \/ GoOn(n, where)
           \/ UNCHANGED raftVars /\ \E entry \in Nat : CommitEnds(n, entry)
    PROVE  /\ pc' \in [Nodes -> Places] /\ task' \in [Nodes -> Task]
           /\ held' \in [Nodes -> State] /\ depth' \in [Nodes -> 0..StackDepth]
           /\ seen' \in [Nodes -> Nat] /\ done' \in [Nodes -> Nat] /\ commands' = commands
           /\ kept' \in [Nodes -> BOOLEAN] /\ UNCHANGED <<cur, leading, known, notice>>
<1> USE DEF TypeOK, Places, raftVars
<1>1. Idle \in Task
  BY DEF Idle, Task
<1>2. CASE Done(n)
  BY <1>1, <1>2, EmptyState, BoundsAssumption DEF Done
<1>3. ASSUME NEW where \in Places, Return(n, where) \/ GoOn(n, where)
      PROVE  /\ pc' \in [Nodes -> Places] /\ held' \in [Nodes -> State]
             /\ seen' \in [Nodes -> Nat] /\ UNCHANGED <<task, depth, done, commands>>
  <2>1. CASE Return(n, where)
    BY <2>1, EmptyState DEF Return
  <2>2. CASE GoOn(n, where)
    BY <2>2 DEF GoOn
  <2> QED BY <1>3, <2>1, <2>2
<1>4. ASSUME NEW entry \in Nat, CommitEnds(n, entry)
      PROVE  /\ pc' \in [Nodes -> Places] /\ held' \in [Nodes -> State]
             /\ seen' \in [Nodes -> Nat] /\ done' \in [Nodes -> Nat]
             /\ UNCHANGED <<task, depth, commands>>
  BY <1>4, EmptyState DEF CommitEnds
<1> QED BY <1>2, <1>3, <1>4

\* Both outcomes of CommitState on a state keep log, FSMs and bounds typed.
LEMMA CommitType ==
    ASSUME TypeOK, NEW n \in Nodes, NEW s \in State, Agreed(n, s) \/ CommitError(n, s)
    PROVE  /\ log' \in Seq(State) /\ applied' \in [Nodes -> Nat]
           /\ \A m \in Nodes : applied'[m] <= Len(log')
           /\ fsm' \in [Nodes -> State] /\ faults' \in 0..MaxFaults
<1> USE DEF TypeOK
<1>1. CASE Agreed(n, s)
  BY <1>1 DEF Agreed
<1>2. CASE CommitError(n, s)
  <2>1. faults' \in 0..MaxFaults
    BY <1>2, BoundsAssumption DEF CommitError
  <2>2. log' = log \/ log' = Append(log, s)
    BY <1>2 DEF CommitError
  <2>3. log' \in Seq(State) /\ Len(log') \in Nat /\ Len(log) <= Len(log')
    <3>1. log \in Seq(State) /\ Len(log) \in Nat
      OBVIOUS
    <3>2. CASE log' = log
      BY <3>1, <3>2
    <3>3. CASE log' = Append(log, s)
      BY <3>1, <3>3, AppendProperties
    <3> QED BY <2>2, <3>2, <3>3
  <2>4. applied' = applied /\ fsm' = fsm
    BY <1>2 DEF CommitError
  <2>5. \A m \in Nodes : applied'[m] <= Len(log')
    BY <2>3, <2>4
  <2> QED BY <2>1, <2>3, <2>4, <2>5
<1> QED BY <1>1, <1>2

\* A handler preserves the types.
LEMMA HandlerType ==
    ASSUME TypeOK, NEW n \in Nodes, Handler(n)
    PROVE  TypeOK'
<1> USE DEF TypeOK, Places, raftVars, loopVars
<1>1. CASE HandleCommand(n)
  BY <1>1, EndsType DEF HandleCommand
<1>2. CASE Bootstrap(n)
  <2>1. Agreed(n, Empty) \/ CommitError(n, Empty)
    BY <1>2 DEF Bootstrap
  <2>2. CASE UNCHANGED loopVars
    BY <1>2, <2>1, <2>2, EmptyState, CommitType DEF Bootstrap
  <2>3. CASE Return(n, "error")
    BY <1>2, <2>1, <2>3, EmptyState, CommitType, EndsType DEF Bootstrap
  <2> QED BY <1>2, <2>2, <2>3 DEF Bootstrap
<1>3. CASE Recurse(n)
  <2>1. CASE depth[n] < StackDepth
    <3>1. depth' \in [Nodes -> 0..StackDepth]
      <4>1. depth[n] + 1 \in 0..StackDepth
        BY <2>1, BoundsAssumption
      <4> QED BY <1>3, <2>1, <4>1 DEF Recurse
    <3> QED BY <1>3, <2>1, <3>1 DEF Recurse
  <2>2. CASE ~(depth[n] < StackDepth)
    BY <1>3, <2>2, EndsType DEF Recurse
  <2> QED BY <2>1, <2>2
<1>4. CASE GetReturns(n)
  <2>1. CASE task[n].op = "state"
    BY <1>4, <2>1, EndsType DEF GetReturns
  <2>2. CASE task[n].op # "state"
    BY <1>4, <2>2 DEF GetReturns
  <2> QED BY <2>1, <2>2
<1>5. CASE Validate(n)
  <2>1. CASE Permitted(fsm[n], task[n])
    <3>1. Mutate(fsm[n], task[n]) \in State
      <4>1. task[n] \in Request
        BY <1>5 DEF Validate, Task, Ops
      <4> QED BY <1>5, <2>1, <4>1, MutateState DEF Validate
    <3>2. /\ pc' \in [Nodes -> Places]
          /\ fsm' \in [Nodes -> State] /\ held' \in [Nodes -> State]
      BY <1>5, <2>1, <3>1 DEF Validate
    <3>3. seen' \in [Nodes -> Nat]
      BY <1>5, <2>1 DEF Validate
    <3>4. UNCHANGED <<task, depth, done, commands, faults, now, log, applied, raftVars, net>>
      BY <1>5, <2>1 DEF Validate
    <3> QED BY <3>2, <3>3, <3>4
  <2>2. CASE ~Permitted(fsm[n], task[n])
    BY <1>5, <2>2, EndsType DEF Validate
  <2> QED BY <2>1, <2>2
<1>6. CASE CommitAgreed(n)
  <2>1. Agreed(n, held[n]) /\ CommitEnds(n, Len(log) + 1) /\ UNCHANGED <<now, raftVars, net>>
    BY <1>6 DEF CommitAgreed
  <2>2. Len(log) + 1 \in Nat
    OBVIOUS
  <2> QED BY <2>1, <2>2, CommitType, EndsType
<1>7. CASE CommitFails(n)
  BY <1>7, CommitType, EndsType DEF CommitFails
<1>8. CASE CommitSkipped(n)
  BY <1>8, EndsType DEF CommitSkipped
<1>9. CASE Answer(n)
  <2>1. net' \subseteq Message
    <3>1. CASE pc[n] = "publish"
      BY <1>9, <3>1, PublishType DEF Answer
    <3>2. CASE pc[n] # "publish"
      BY <1>9, <3>2 DEF Answer
    <3> QED BY <3>1, <3>2
  <2>2. Done(n) /\ UNCHANGED <<faults, now, log, applied, fsm>>
    BY <1>9 DEF Answer
  <2> QED BY <2>1, <2>2, EndsType
<1> QED BY <1>1, <1>2, <1>3, <1>4, <1>5, <1>6, <1>7, <1>8, <1>9 DEF Handler

-----------------------------------------------------------------------------
(* A validation stays good until the log grows *)

\* The log is left alone or grows at its end, and time does not run backwards.
LEMMA LogGrows ==
    ASSUME TypeOK, Next
    PROVE  /\ log' = log \/ Len(log') = Len(log) + 1
           /\ now' >= now
<1> USE DEF TypeOK
<1>1. \A s \in State : Append(log, s) \in Seq(State) /\ Len(Append(log, s)) = Len(log) + 1
  BY AppendProperties
<1>2. CASE Tick
  BY <1>2 DEF Tick
<1>3. ASSUME NEW n \in Nodes, Raft(n)
      PROVE  log' = log /\ now' = now
  BY <1>3 DEF Raft, Elect, StepDown, Learn, Apply
<1>4. ASSUME NEW n \in Nodes, Select(n)
      PROVE  log' = log /\ now' = now
  BY <1>4 DEF Select, CommandAtLeader, ForwardCommand, RecvRequest, RecvState, OnLeaderChan
<1>5. ASSUME NEW n \in Nodes, Handler(n)
      PROVE  (log' = log \/ Len(log') = Len(log) + 1) /\ now' = now
  <2>1. CASE \/ HandleCommand(n) \/ Recurse(n) \/ GetReturns(n) \/ Validate(n)
             \/ CommitSkipped(n) \/ Answer(n)
    BY <2>1 DEF HandleCommand, Recurse, GetReturns, Validate, CommitSkipped, Answer
  <2>2. CASE Bootstrap(n)
    BY <1>1, <2>2, EmptyState DEF Bootstrap, Agreed, CommitError
  <2>3. CASE CommitAgreed(n) \/ CommitFails(n)
    BY <1>1, <2>3 DEF CommitAgreed, CommitFails, Agreed, CommitError
  <2> QED BY <1>5, <2>1, <2>2, <2>3 DEF Handler
<1> QED BY <1>2, <1>3, <1>4, <1>5 DEF Next

\* Time only ends leases.
LEMMA LeasesEnd ==
    ASSUME NEW s, NEW j, NEW from, s[j].lock.created \in Nat,
           now \in Nat, now' \in Nat, now <= now', LeasedToOther(s, j, from)'
    PROVE  LeasedToOther(s, j, from)
BY BoundsAssumption DEF LeasedToOther

\* A step that leaves the handler of m alone keeps its validation.
LEMMA KeepsValidation ==
    ASSUME TypeOK, TypeOK', Next, NEW m \in Nodes, ValidatedAt(m),
           seen'[m] = seen[m], task'[m] = task[m], held'[m] = held[m],
           pc'[m] # "commit" => pc[m] # "commit"
    PROVE  ValidatedAt(m)'
<1> USE DEF TypeOK
<1>1. now \in Nat /\ now' \in Nat /\ now <= now' /\ Len(log) \in Nat /\ Len(log') \in Nat
  <2>1. now \in 0..MaxClock /\ now' \in 0..MaxClock /\ log \in Seq(State) /\ log' \in Seq(State)
    OBVIOUS
  <2>2. now' >= now
    BY LogGrows
  <2> QED BY <2>1, <2>2, BoundsAssumption, LenProperties
<1>2. CASE log' = log
  <2>1. ASSUME NEW s \in State, NEW j \in Jobs, NEW from, LeasedToOther(s, j, from)'
        PROVE  LeasedToOther(s, j, from)
    <3>1. s[j].lock.created \in Nat
      BY BoundsAssumption DEF State, Job, Lock
    <3> QED BY <1>1, <2>1, <3>1, LeasesEnd
  <2>2. ASSUME seen[m] > 0, seen[m] = Len(log)
        PROVE  Respects(task[m], log[Len(log)], held[m])'
    <3>1. log[Len(log)] \in State
      <4>1. log \in Seq(State) /\ Len(log) \in 1..Len(log)
        BY <1>1, <2>2
      <4> QED BY <4>1, ElementOfSeq
    <3>2. Respects(task[m], log[Len(log)], held[m])
      BY <2>2 DEF ValidatedAt
    <3> QED BY <1>2, <2>1, <3>1, <3>2 DEF Respects
  <2> QED BY <1>2, <2>2 DEF ValidatedAt
<1>3. CASE Len(log') = Len(log) + 1
  <2>1. seen[m] \in Nat /\ seen[m] <= Len(log) /\ (pc'[m] # "commit" => seen[m] = 0)
    BY DEF ValidatedAt
  <2> HIDE DEF TypeOK
  <2>2. seen'[m] <= Len(log') /\ seen'[m] # Len(log')
    BY <1>1, <1>3, <2>1
  <2> QED BY <2>1, <2>2 DEF ValidatedAt
<1> QED BY <1>2, <1>3, LogGrows

\* A handler that ends forgets its validation.
LEMMA ForgetsValidation ==
    ASSUME TypeOK, TypeOK', NEW m \in Nodes, seen'[m] = 0
    PROVE  ValidatedAt(m)'
BY DEF ValidatedAt, TypeOK

\* Every step keeps the types.
LEMMA NextType == TypeOK /\ [Next]_vars => TypeOK'
<1>1. CASE UNCHANGED vars
  BY <1>1 DEF TypeOK, vars, raftVars, loopVars
<1>2. ASSUME TypeOK, Next PROVE TypeOK'
  BY <1>2, EnvType, SelectType, HandlerType DEF Next
<1> QED BY <1>1, <1>2

\* A handler works for its own node.
LEMMA HandlerAlone ==
    ASSUME TypeOK, NEW n \in Nodes, Handler(n), NEW m \in Nodes, m # n
    PROVE  /\ pc'[m] = pc[m] /\ task'[m] = task[m] /\ held'[m] = held[m]
           /\ seen'[m] = seen[m] /\ done'[m] = done[m] /\ kept'[m] = kept[m]
<1> USE DEF TypeOK, raftVars, loopVars
<1>1. CASE HandleCommand(n) \/ Recurse(n)
  BY <1>1 DEF HandleCommand, Recurse, GoOn
<1>2. CASE Bootstrap(n)
  BY <1>2 DEF Bootstrap, Return
<1>3. CASE GetReturns(n) \/ Validate(n)
  BY <1>3 DEF GetReturns, Validate, Return
<1>4. CASE CommitAgreed(n) \/ CommitFails(n) \/ CommitSkipped(n)
  BY <1>4 DEF CommitAgreed, CommitFails, CommitSkipped, CommitEnds, Return
<1>5. CASE Answer(n)
  BY <1>5 DEF Answer, Done
<1> QED BY <1>1, <1>2, <1>3, <1>4, <1>5 DEF Handler

\* Every step keeps what is validated.
LEMMA NextValidated == Inv /\ [Next]_vars => Validated'
<1> SUFFICES ASSUME TypeOK, Validated, [Next]_vars, NEW m \in Nodes
             PROVE  ValidatedAt(m)'
  BY DEF Inv, Validated
<1>0. TypeOK' /\ ValidatedAt(m)
  BY NextType DEF Validated
<1>1. CASE UNCHANGED vars
  BY <1>0, <1>1 DEF ValidatedAt, Respects, LeasedToOther, vars, raftVars, loopVars
<1>2. CASE Tick \/ \E n \in Nodes : Raft(n)
  <2>1. Next
    BY <1>2 DEF Next
  <2>2. UNCHANGED loopVars
    BY <1>2 DEF Tick, Raft, Elect, StepDown, Learn, Apply
  <2> QED BY <1>0, <2>1, <2>2, KeepsValidation DEF loopVars
<1>3. ASSUME NEW n \in Nodes, Select(n) PROVE ValidatedAt(m)'
  <2>1. Next
    BY <1>3 DEF Next
  <2>2. pc[n] = "idle" /\ UNCHANGED seen
    BY <1>3 DEF Select, CommandAtLeader, ForwardCommand, RecvRequest, RecvState,
                OnLeaderChan, Start
  <2>3. CASE m = n
    BY <1>0, <2>2, <2>3, ForgetsValidation DEF ValidatedAt
  <2>4. CASE m # n
    <3>1. pc'[m] = pc[m] /\ task'[m] = task[m] /\ held'[m] = held[m]
      BY <1>3, <2>4 DEF TypeOK, Select, CommandAtLeader, ForwardCommand, RecvRequest,
                        RecvState, OnLeaderChan, Start
    <3> QED BY <1>0, <2>1, <2>2, <3>1, KeepsValidation
  <2> QED BY <2>3, <2>4
<1>4. ASSUME NEW n \in Nodes, Handler(n) PROVE ValidatedAt(m)'
  <2>1. Next
    BY <1>4 DEF Next
  <2>2. CASE m # n
    <3>1. /\ pc'[m] = pc[m] /\ task'[m] = task[m]
          /\ held'[m] = held[m] /\ seen'[m] = seen[m]
      BY <1>4, <2>2, HandlerAlone
    <3> QED BY <1>0, <2>1, <3>1, KeepsValidation
  <2>3. CASE /\ m = n
             /\ \/ Done(n) \/ \E where : Return(n, where)
                \/ \E entry : CommitEnds(n, entry)
    <3>1. seen'[m] = 0
      BY <2>3 DEF Done, Return, CommitEnds, TypeOK
    <3> QED BY <1>0, <3>1, ForgetsValidation
  <2>4. CASE m = n /\ UNCHANGED <<task, held, seen>>
               /\ (UNCHANGED pc \/ (pc[n] # "commit" /\ \E where : GoOn(n, where)))
    <3>1. pc'[m] # "commit" => pc[m] # "commit"
      BY <2>4 DEF TypeOK, GoOn
    <3> QED BY <1>0, <2>1, <2>4, <3>1, KeepsValidation
  <2>6. CASE m = n /\ GetReturns(n) /\ task[n].op # "state"
    <3>1. /\ pc[n] # "commit" /\ pc'[n] = "publish" /\ seen'[n] = seen[n]
          /\ log' = log
      BY <2>6 DEF GetReturns, TypeOK
    <3>2. seen[n] = 0
      BY <1>0, <2>6, <3>1 DEF ValidatedAt
    <3> QED BY <1>0, <2>6, <3>1, <3>2, ForgetsValidation
  <2>5. CASE m = n /\ Validate(n) /\ Permitted(fsm[n], task[n])
    <3>1. task[n] \in Request
      BY <2>5 DEF Validate, TypeOK, Task, Ops
    <3>2. Respects(task[n], fsm[n], Mutate(fsm[n], task[n]))
      BY <2>5, <3>1, PermittedRespects DEF TypeOK
    <3>3. /\ held'[n] = Mutate(fsm[n], task[n]) /\ task' = task /\ log' = log /\ now' = now
          /\ pc'[n] = "commit"
          /\ seen'[n] = IF applied[n] = Len(log) /\ fsm[n] = log[Len(log)] THEN Len(log) ELSE 0
      BY <2>5 DEF Validate, TypeOK
    <3>4. seen'[n] <= Len(log') /\ (seen'[n] > 0 => fsm[n] = log[Len(log)])
      BY <3>3 DEF TypeOK
    <3>5. seen'[n] > 0 => Respects(task[n], log[Len(log)], held[n])'
      BY <3>2, <3>3, <3>4 DEF Respects, LeasedToOther
    <3> QED BY <2>5, <3>3, <3>4, <3>5 DEF ValidatedAt
  <2>7. CASE HandleCommand(n) \/ Recurse(n)
    <3>1. /\ UNCHANGED <<task, held, seen>>
          /\ UNCHANGED pc \/ (pc[n] # "commit" /\ \E where : GoOn(n, where))
      BY <2>7 DEF HandleCommand, Recurse, InGet, GoOn
    <3> QED BY <2>2, <2>4, <3>1
  <2>8. CASE Bootstrap(n)
    <3>1. UNCHANGED <<pc, task, held, seen>> \/ Return(n, "error")
      BY <2>8 DEF Bootstrap, loopVars
    <3> QED BY <2>2, <2>3, <2>4, <3>1
  <2>9. CASE GetReturns(n) \/ Validate(n)
    BY <2>2, <2>3, <2>5, <2>6, <2>9 DEF GetReturns, Validate
  <2>10. CASE CommitAgreed(n) \/ CommitFails(n) \/ CommitSkipped(n) \/ Answer(n)
    BY <2>2, <2>3, <2>10 DEF CommitAgreed, CommitFails, CommitSkipped, Answer
  <2> QED BY <1>4, <2>7, <2>8, <2>9, <2>10 DEF Handler
<1> QED BY <1>1, <1>2, <1>3, <1>4 DEF Next

-----------------------------------------------------------------------------
(* Theorems *)

\* The inductive invariant holds in every reachable state.
THEOREM Invariance == Spec => []Inv
<1>1. Inv /\ [Next]_vars => Inv'
  BY NextType, NextValidated DEF Inv
<1> QED BY InitInv, <1>1, PTL DEF Spec

\* The queue is type correct, and no FSM is ahead of the log.
THEOREM TypeCorrectness == Spec => []TypeOK
<1>1. Inv => TypeOK
  BY DEF Inv
<1> QED BY Invariance, <1>1, PTL

\* A commit that was validated on the newest agreed state changes no other job
\* and takes no job from the peer that holds a lease on it.
THEOREM LeaseSafety == Spec => FreshCommitRespectsLease
<1>1. ASSUME Inv, [Next]_vars, NEW n \in Nodes, Commits(n),
             seen[n] > 0, seen[n] = Len(log)
      PROVE  Respects(task[n], log[Len(log)], log'[Len(log')])
  <2>1. TypeOK /\ Respects(task[n], log[Len(log)], held[n])
    BY <1>1 DEF Inv, Validated, ValidatedAt
  <2>2. Next
    BY <1>1 DEF Commits, vars
  <2>3. log' = Append(log, held[n])
    <3>1. ASSUME NEW k \in Nodes, Select(k) \/ Raft(k) PROVE FALSE
      BY <1>1, <3>1 DEF Commits, Select, CommandAtLeader, ForwardCommand, RecvRequest,
            RecvState, OnLeaderChan, Raft, Elect, StepDown, Learn, Apply
    <3>2. ~Tick
      BY <1>1 DEF Commits, Tick
    <3>3. PICK k \in Nodes : Handler(k)
      BY <2>2, <3>1, <3>2 DEF Next
    <3>4. k = n
      BY <1>1, <2>1, <3>3, HandlerAlone DEF Commits
    <3> QED BY <1>1, <3>3, <3>4 DEF Commits, Handler, HandleCommand, Bootstrap, InGet, Recurse,
            GetReturns, Validate, CommitAgreed, CommitFails, CommitSkipped, Answer, Agreed,
            CommitError
  <2>4. log'[Len(log')] = held[n]
    BY <2>1, <2>3, AppendProperties DEF TypeOK
  <2> QED BY <2>1, <2>4
<1>2. Inv /\ [Next]_vars =>
        [\A n \in Nodes :
            Commits(n) /\ seen[n] > 0 /\ seen[n] = Len(log)
               => Respects(task[n], log[Len(log)], log'[Len(log')])]_vars
  BY <1>1
<1> QED BY Invariance, <1>2, PTL DEF Spec, FreshCommitRespectsLease

-----------------------------------------------------------------------------
(* What a leader's OK means *)

\* What a handler passes to Commit is what its request asked for, and so is the
\* entry that becomes of it.  A handler whose peer has led all the while gets
\* past Commit only with such an entry.
Asked(n) ==
    /\ pc[n] = "commit" /\ task[n].op \in Ops => Fulfilled(task[n], held[n][task[n].job])
    /\ pc[n] = "idle" => done[n] = 0
    /\ done[n] <= Len(log)
    /\ done[n] > 0 /\ task[n].op \in Ops => Fulfilled(task[n], log[done[n]][task[n].job])
    /\ kept[n] => leading[n]
    /\ kept[n] /\ task[n].cmd =>
         pc[n] # "ok" /\ (pc[n] \in {"finish", "publish"} => done[n] > 0)

AckInv == TypeOK /\ \A n \in Nodes : Asked(n)

\* The handlers do what they are asked for.
LEMMA MutateFulfils ==
    ASSUME NEW s \in State, NEW t \in Request
    PROVE  Fulfilled(t, Mutate(s, t)[t.job])
<1>1. s \in [Jobs -> Job] /\ t.job \in Jobs /\ t.op \in Ops
  BY DEF State, Request
<1>2. Mutate(s, t)[t.job] = Changed(s[t.job], t)
  BY <1>1 DEF Mutate
<1>3. ASSUME NEW j PROVE Fulfilled(t, Changed(j, t))
  <2>1. CASE t.op = "set"
    BY <2>1 DEF Fulfilled, Changed
  <2>2. CASE t.op = "delete"
    BY <2>2 DEF Fulfilled, Changed
  <2>3. CASE t.op = "acquire"
    BY <2>3 DEF Fulfilled, Changed
  <2>4. CASE t.op = "release"
    BY <2>4 DEF Fulfilled, Changed
  <2> QED BY <1>1, <2>1, <2>2, <2>3, <2>4 DEF Ops
<1> QED BY <1>2, <1>3

\* A command is a job request.
LEMMA CommandIsRequest ==
    ASSUME TypeOK, NEW n \in Nodes, task[n].cmd = TRUE
    PROVE  task[n] \in Request /\ task[n].op \in Ops
BY DEF TypeOK, Task, Request

\* The entries of the log stay what they are.
LEMMA LogKeeps ==
    ASSUME TypeOK, Next
    PROVE  /\ Len(log) <= Len(log')
           /\ \A i \in 1..Len(log) : log'[i] = log[i]
<1> USE DEF TypeOK
<1>1. ASSUME NEW s \in State, log' = Append(log, s)
      PROVE  /\ Len(log) <= Len(log')
             /\ \A i \in 1..Len(log) : log'[i] = log[i]
  <2>1. Len(Append(log, s)) = Len(log) + 1 /\ Len(log) \in Nat
    BY AppendProperties
  <2> QED BY <1>1, <2>1, AppendProperties
<1>2. CASE log' = log
  BY <1>2
<1>3. CASE Tick \/ \E n \in Nodes : Raft(n) \/ Select(n)
  <2>1. log' = log
    BY <1>3 DEF Tick, Raft, Elect, StepDown, Learn, Apply, Select, CommandAtLeader,
                ForwardCommand, RecvRequest, RecvState, OnLeaderChan
  <2> QED BY <1>2, <2>1
<1>4. ASSUME NEW n \in Nodes, Handler(n)
      PROVE  log' = log \/ \E s \in State : log' = Append(log, s)
  <2>1. CASE \/ HandleCommand(n) \/ Recurse(n) \/ GetReturns(n) \/ Validate(n)
             \/ CommitSkipped(n) \/ Answer(n)
    BY <2>1 DEF HandleCommand, Recurse, GetReturns, Validate, CommitSkipped, Answer
  <2>2. CASE Bootstrap(n)
    BY <2>2, EmptyState DEF Bootstrap, Agreed, CommitError
  <2>3. CASE CommitAgreed(n) \/ CommitFails(n)
    <3>1. held[n] \in State
      OBVIOUS
    <3> QED BY <2>3, <3>1 DEF CommitAgreed, CommitFails, Agreed, CommitError
  <2> QED BY <1>4, <2>1, <2>2, <2>3 DEF Handler
<1> QED BY <1>1, <1>2, <1>3, <1>4 DEF Next

\* A step that leaves m's handler where it is keeps what is known of it.
LEMMA KeepsAsked ==
    ASSUME TypeOK, TypeOK', Next, NEW m \in Nodes, Asked(m),
           pc'[m] = pc[m], task'[m] = task[m], held'[m] = held[m], done'[m] = done[m],
           kept'[m] => kept[m] /\ leading'[m]
    PROVE  Asked(m)'
<1>1. /\ Len(log) <= Len(log') /\ \A i \in 1..Len(log) : log'[i] = log[i]
      /\ Len(log) \in Nat /\ Len(log') \in Nat /\ done[m] \in Nat
  <2>1. log \in Seq(State) /\ log' \in Seq(State) /\ done[m] \in Nat
    BY DEF TypeOK
  <2> QED BY <2>1, LogKeeps, LenProperties
<1>2. done[m] > 0 => log'[done[m]] = log[done[m]]
  BY <1>1 DEF Asked
<1>3. done'[m] <= Len(log')
  BY <1>1 DEF Asked
<1> QED BY <1>2, <1>3 DEF Asked, Fulfilled

\* Every step keeps it.
LEMMA NextAck == AckInv /\ [Next]_vars => AckInv'
<1> SUFFICES ASSUME TypeOK, \A n \in Nodes : Asked(n), [Next]_vars, NEW m \in Nodes
             PROVE  Asked(m)'
  BY NextType DEF AckInv
<1>0. Asked(m) /\ TypeOK'
  BY NextType
<1>1. CASE UNCHANGED vars
  BY <1>0, <1>1 DEF Asked, Fulfilled, vars, raftVars, loopVars
<1>2. CASE Tick \/ \E n \in Nodes : Raft(n)
  <2>1. Next
    BY <1>2 DEF Next
  <2>2. UNCHANGED <<pc, task, held, done>>
    BY <1>2 DEF Tick, Raft, Elect, StepDown, Learn, Apply, loopVars
  <2>3. kept'[m] => kept[m] /\ leading'[m]
    <3>1. CASE Tick
      BY <1>0, <3>1 DEF Tick, raftVars, Asked
    <3>2. ASSUME NEW n \in Nodes, Raft(n) PROVE kept'[m] => kept[m] /\ leading'[m]
      BY <1>0, <3>2 DEF TypeOK, Asked, Raft, Elect, StepDown, Learn, Apply, raftVars
    <3> QED BY <1>2, <3>1, <3>2
  <2> QED BY <1>0, <2>1, <2>2, <2>3, KeepsAsked
<1>3. ASSUME NEW n \in Nodes, Select(n) PROVE Asked(m)'
  <2>1. Next /\ pc[n] = "idle" /\ UNCHANGED <<done, log, leading>>
    BY <1>3 DEF Next, Select, CommandAtLeader, ForwardCommand, RecvRequest, RecvState,
                OnLeaderChan, Start, raftVars
  <2>2. CASE m # n
    <3>1. /\ pc'[m] = pc[m] /\ task'[m] = task[m] /\ held'[m] = held[m]
          /\ kept'[m] = kept[m]
      BY <1>3, <2>2 DEF TypeOK, Select, CommandAtLeader, ForwardCommand, RecvRequest,
                        RecvState, OnLeaderChan, Start, raftVars
    <3>2. kept'[m] => kept[m] /\ leading'[m]
      BY <1>0, <2>1, <3>1 DEF Asked
    <3> QED BY <1>0, <2>1, <3>1, <3>2, KeepsAsked
  <2>3. CASE m = n
    <3>1. done[n] = 0
      BY <1>0, <2>1, <2>3 DEF Asked
    <3>2. /\ pc'[n] \in {"idle", "handle", "get"} \/ (pc'[n] = "commit" /\ task'[n].op = "state")
          /\ kept'[n] => kept[n] \/ leading[n]
      BY <1>3, <2>1 DEF TypeOK, Select, CommandAtLeader, ForwardCommand, RecvRequest,
                  RecvState, OnLeaderChan, Start, raftVars
    <3>3. done'[n] = 0 /\ leading'[n] = leading[n] /\ 0 <= Len(log')
      BY <1>0, <2>1, <3>1 DEF TypeOK
    <3> QED BY <1>0, <2>3, <3>2, <3>3 DEF Asked, Ops
  <2> QED BY <2>2, <2>3
<1>4. ASSUME NEW n \in Nodes, Handler(n) PROVE Asked(m)'
  <2>0. Next
    BY <1>4 DEF Next
  <2>1. leading' = leading
    BY <1>4 DEF Handler, HandleCommand, Bootstrap, Recurse, GetReturns, Validate, CommitAgreed,
                CommitFails, CommitSkipped, Answer, Done, raftVars
  <2>2. CASE m # n
    <3>1. /\ pc'[m] = pc[m] /\ task'[m] = task[m] /\ held'[m] = held[m]
          /\ done'[m] = done[m] /\ kept'[m] = kept[m]
      BY <1>4, <2>2, HandlerAlone
    <3>2. kept'[m] => kept[m] /\ leading'[m]
      BY <1>0, <2>1, <3>1 DEF Asked
    <3> QED BY <1>0, <2>0, <3>1, <3>2, KeepsAsked
  <2>3. CASE m = n
    <3> USE <2>3
    <3>0. Len(log) \in Nat /\ Len(log') \in Nat /\ Len(log) <= Len(log')
          /\ done[n] \in Nat /\ (done[n] > 0 => log'[done[n]] = log[done[n]])
      <4>1. /\ log \in Seq(State) /\ log' \in Seq(State) /\ done[n] \in Nat
            /\ done[n] <= Len(log)
        BY <1>0 DEF TypeOK, Asked
      <4>2. Len(log) \in Nat /\ Len(log') \in Nat
        BY <4>1, LenProperties
      <4> QED BY <2>0, <4>1, <4>2, LogKeeps
    <3>1. CASE Validate(n) /\ Permitted(fsm[n], task[n])
      <4>1. task[n] \in Request /\ fsm[n] \in State
        BY <3>1 DEF Validate, TypeOK, Task, Ops
      <4>2. /\ held'[n] = Mutate(fsm[n], task[n]) /\ task' = task /\ done' = done
            /\ pc'[n] = "commit" /\ pc[n] = "get" /\ log' = log /\ kept' = kept
        BY <3>1 DEF Validate, TypeOK, raftVars
      <4>3. Fulfilled(task[n], held'[n][task[n].job])
        BY <4>1, <4>2, MutateFulfils
      <4> QED BY <1>0, <2>1, <4>2, <4>3 DEF Asked, Fulfilled
    <3>2. CASE Validate(n) /\ ~Permitted(fsm[n], task[n])
      <4>1. /\ pc'[n] = "error" /\ task' = task /\ done' = done /\ log' = log /\ kept' = kept
        BY <3>2 DEF Validate, Return, TypeOK, raftVars
      <4> QED BY <1>0, <2>1, <4>1 DEF Asked, Fulfilled
    <3>3. CASE HandleCommand(n)
      <4>1. /\ pc'[n] = IF leading[n] THEN "get" ELSE "ok"
            /\ task' = task /\ done' = done /\ log' = log /\ kept' = kept
        BY <3>3 DEF HandleCommand, GoOn, TypeOK, raftVars
      <4> QED BY <1>0, <2>1, <4>1 DEF Asked, Fulfilled
    <3>4. CASE Bootstrap(n) \/ CommitFails(n)
      <4>1. /\ UNCHANGED <<pc, held>> \/ pc'[n] = "error"
            /\ task' = task /\ done' = done /\ kept' = kept
        BY <3>4 DEF Bootstrap, CommitFails, Return, TypeOK, raftVars, loopVars
      <4> QED BY <1>0, <2>1, <3>0, <4>1 DEF Asked, Fulfilled
    <3>5. CASE Recurse(n)
      <4>1. /\ UNCHANGED <<pc, held>> \/ pc'[n] = "down"
            /\ task' = task /\ done' = done /\ log' = log /\ kept' = kept
        BY <3>5 DEF Recurse, GoOn, TypeOK, raftVars
      <4> QED BY <1>0, <2>1, <4>1 DEF Asked, Fulfilled
    <3>6. CASE GetReturns(n)
      <4>1. /\ (pc'[n] = "ok" /\ ~task[n].cmd) \/ pc'[n] = "publish"
            /\ pc[n] = "finish" \/ (pc[n] = "get" /\ ~task[n].cmd)
            /\ task' = task /\ done' = done /\ log' = log /\ kept' = kept
        <5>1. task[n].op \in {"state", "elected"} => ~task[n].cmd
          BY CommandIsRequest DEF TypeOK, Task, Request, Ops
        <5> QED BY <3>6, <5>1 DEF GetReturns, Return, TypeOK, raftVars
      <4> QED BY <1>0, <2>1, <4>1 DEF Asked, Fulfilled
    <3>7. CASE CommitAgreed(n)
      <4>1. /\ pc[n] = "commit" /\ pc'[n] = "finish" /\ done'[n] = Len(log) + 1
            /\ log' = Append(log, held[n]) /\ task' = task /\ kept' = kept
        BY <3>7 DEF CommitAgreed, CommitEnds, Agreed, TypeOK, raftVars
      <4>2. log'[Len(log) + 1] = held[n] /\ Len(log') = Len(log) + 1
        BY <4>1, AppendProperties DEF TypeOK
      <4>3. done'[n] > 0 /\ done'[n] <= Len(log') /\ log'[done'[n]] = held[n]
        BY <3>0, <4>1, <4>2
      <4> QED BY <1>0, <2>1, <4>1, <4>3 DEF Asked, Fulfilled
    <3>8. CASE CommitSkipped(n)
      <4>1. /\ ~leading[n] /\ pc'[n] = "finish" /\ done'[n] = 0 /\ kept' = kept
        BY <3>8 DEF CommitSkipped, CommitEnds, TypeOK, raftVars
      <4> QED BY <1>0, <2>1, <3>0, <4>1 DEF Asked
    <3>9. CASE Answer(n)
      <4>1. pc'[n] = "idle" /\ done'[n] = 0 /\ kept'[n] = FALSE
        BY <3>9 DEF Answer, Done, TypeOK
      <4> QED BY <3>0, <4>1 DEF Asked
    <3> QED BY <1>4, <3>1, <3>2, <3>3, <3>4, <3>5, <3>6, <3>7, <3>8, <3>9 DEF Handler
  <2> QED BY <2>2, <2>3
<1> QED BY <1>1, <1>2, <1>3, <1>4 DEF Next

\* A command that is answered Ok by a peer that has led since it took it was
\* agreed, and the entry holds what it asked for, however long Commit blocked and
\* whatever the FSM applied meanwhile.
THEOREM AckIsDone == Spec => LeaderAckMeansDone
<1>1. Init => AckInv
  <2>1. Init => /\ TypeOK
                /\ \A n \in Nodes : pc[n] = "idle" /\ done[n] = 0 /\ kept[n] = FALSE
    BY InitInv DEF Inv, Init
  <2> QED BY <2>1 DEF AckInv, Asked, TypeOK
<1>2. ASSUME AckInv, NEW n \in Nodes, Acknowledges(n), kept[n]
      PROVE  done[n] > 0 /\ Fulfilled(task[n], log[done[n]][task[n].job])
  <2>1. TypeOK /\ Asked(n) /\ task[n].cmd = TRUE
    BY <1>2 DEF AckInv, Acknowledges, TypeOK, Task, Request
  <2>2. task[n].op \in Ops
    BY <2>1, CommandIsRequest
  <2> QED BY <1>2, <2>1, <2>2 DEF Asked, Acknowledges
<1>3. AckInv /\ [Next]_vars =>
        [\A n \in Nodes :
            Acknowledges(n) /\ kept[n]
               => done[n] > 0 /\ Fulfilled(task[n], log[done[n]][task[n].job])]_vars
  BY <1>2
<1> QED BY <1>1, <1>3, NextAck, PTL DEF Spec, LeaderAckMeansDone

=============================================================================
