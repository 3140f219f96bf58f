------------------------------ MODULE JobQueue ------------------------------
(***************************************************************************)
(* The WAN job queue: electable peers whose main loops handle job requests *)
(* against a state replicated by hashicorp/raft.                           *)
(*                                                                         *)
(*   server/server.go   Loop, checkMutable, getMutableJob                  *)
(*   server/handlers.go CanHandleMessage, Handle, On*JobRequest, OnState   *)
(*   raft/raft.go       Leader, Commit, Get, bootstrapState, getState      *)
(*                                                                         *)
(* The raft library is external.  It is represented by what the code uses  *)
(* of it: a log of agreed states (every entry is a whole queue state),     *)
(* how many entries each node's FSM has applied, who believes to be the    *)
(* leader (raft.State() == Leader) and who can still commit (`cur`).  A    *)
(* leader that was deposed believes in itself until it steps down, and a   *)
(* new leader may not have applied every entry that was agreed before it.  *)
(*                                                                         *)
(* A handler is not one atomic step: leadership is tested when the message *)
(* is dispatched and again inside Commit, Commit blocks, and the answer is *)
(* given after Commit returned and the state was sent on.  raft.Get()      *)
(* returns the object the FSM holds, so a handler changes the live state   *)
(* of its node before anything is agreed.  Without a state Get,            *)
(* bootstrapState and Commit call each other; on a node that does not lead *)
(* nothing but an applied entry ends that, or the stack does.              *)
(***************************************************************************)
EXTENDS Integers, Sequences, FiniteSets

CONSTANTS
    Nodes,        \* the electable (trusted) peers
    Jobs,         \* job ids
    NoNode,       \* "": no peer
    NoJob,        \* the job field of a task that is not about a job
    LockTimeout,  \* LockTimeoutSeconds
    StackDepth,   \* the rounds of Get, bootstrapState and Commit the stack holds
    MaxClock,     \* bound: the clock
    MaxLog,       \* bound: entries of the raft log
    MaxNet,       \* bound: messages in flight
    MaxCommands,  \* bound: commands of the wrappers
    MaxFaults     \* bound: elections, lost leaderships and failed commits

ASSUME NodesAssumption == NoNode \notin Nodes /\ NoJob \notin Jobs
ASSUME BoundsAssumption ==
    /\ LockTimeout \in Nat /\ StackDepth \in Nat /\ MaxClock \in Nat /\ MaxLog \in Nat
    /\ MaxNet \in Nat /\ MaxCommands \in Nat /\ MaxFaults \in Nat

VARIABLES
    now,      \* time.Now().Unix(), the same clock for everybody
    log,      \* the agreed entries of the raft log, each a whole queue state
    applied,  \* applied[n]: the entries n's FSM has applied; 0: ErrNoState
    fsm,      \* fsm[n]: the live queue state of n's FSM
    cur,      \* the node that can commit, or NoNode
    leading,  \* leading[n]: raft.State() == raft.Leader at n
    known,    \* known[n]: the leader LeaderWithID() reports at n
    notice,   \* notice[n]: n's newLeader channel tells it that it leads now
    kept,     \* history: n has led without a break since it took a command
    pc,       \* pc[n]: where n's main loop is; "down": its process died
    task,     \* task[n]: the message being handled
    held,     \* held[n]: the state passed to Commit, then the one it returned
    depth,    \* depth[n]: the rounds of Get, bootstrapState and Commit so far
    seen,     \* history: the log length n's view agreed with at validation
    done,     \* history: the entry that n's request became, or 0
    net,      \* pubsub messages in flight, one per receiver
    commands, \* commands the wrappers may still issue
    faults    \* elections and failures that may still happen

raftVars == <<cur, leading, known, notice, kept>>
loopVars == <<pc, task, held, depth, seen, done, commands>>
vars == <<now, log, applied, fsm, raftVars, loopVars, net, faults>>

-----------------------------------------------------------------------------
(* Data *)

Ops == {"set", "delete", "acquire", "release"}

\* A job nobody set has data NoNode; otherwise data is the peer that set it.
Lock   == [peer : Nodes \cup {NoNode}, created : 0..MaxClock]
Job    == [data : Nodes \cup {NoNode}, lock : Lock]
NoLock == [peer |-> NoNode, created |-> 0]
Absent == [data |-> NoNode, lock |-> NoLock]
Empty  == [j \in Jobs |-> Absent]

\* A queue state; a job that is not there has no lock either.
State  == {s \in [Jobs -> Job] : \A j \in Jobs : s[j].data = NoNode => s[j] = Absent}

Request == [op : Ops, job : Jobs, from : Nodes, cmd : BOOLEAN]
Task == Request \cup [op : {"none", "elected", "state"}, job : {NoJob},
                     from : Nodes \cup {NoNode}, cmd : {FALSE}]
Idle == [op |-> "none", job |-> NoJob, from |-> NoNode, cmd |-> FALSE]

Message == [op : Ops, job : Jobs, state : {Empty}, author : Nodes, dst : Nodes]
      \cup [op : {"state"}, job : {NoJob}, state : State, author : Nodes, dst : Nodes]

Places == {"idle", "handle", "get", "commit", "finish", "publish", "ok", "error", "down"}

TypeOK ==
    /\ now \in 0..MaxClock
    /\ log \in Seq(State)
    /\ applied \in [Nodes -> Nat]
    /\ \A n \in Nodes : applied[n] <= Len(log)
    /\ fsm \in [Nodes -> State]
    /\ cur \in Nodes \cup {NoNode}
    /\ leading \in [Nodes -> BOOLEAN]
    /\ known \in [Nodes -> Nodes \cup {NoNode}]
    /\ notice \in [Nodes -> BOOLEAN]
    /\ kept \in [Nodes -> BOOLEAN]
    /\ pc \in [Nodes -> Places]
    /\ task \in [Nodes -> Task]
    /\ held \in [Nodes -> State]
    /\ depth \in [Nodes -> 0..StackDepth]
    /\ seen \in [Nodes -> Nat]
    /\ done \in [Nodes -> Nat]
    /\ net \subseteq Message
    /\ commands \in 0..MaxCommands
    /\ faults \in 0..MaxFaults

\* The nodes start with a new queue, or when somebody has set the jobs, and
\* perhaps somebody has a lease on them.
InUse == {[j \in Jobs |-> [data |-> n, lock |-> l]] :
             n \in Nodes, l \in [peer : Nodes, created : {0}] \cup {NoLock}}

Init ==
    /\ now = 0
    /\ \/ /\ log = <<>>
          /\ applied = [n \in Nodes |-> 0]
          /\ fsm = [n \in Nodes |-> Empty]
       \/ \E s \in InUse : /\ log = <<s>>
                           /\ applied = [n \in Nodes |-> 1]
                           /\ fsm = [n \in Nodes |-> s]
    /\ cur = NoNode
    /\ leading = [n \in Nodes |-> FALSE]
    /\ known = [n \in Nodes |-> NoNode]
    /\ notice = [n \in Nodes |-> FALSE]
    /\ kept = [n \in Nodes |-> FALSE]
    /\ pc = [n \in Nodes |-> "idle"]
    /\ task = [n \in Nodes |-> Idle]
    /\ held = [n \in Nodes |-> Empty]
    /\ depth = [n \in Nodes |-> 0]
    /\ seen = [n \in Nodes |-> 0]
    /\ done = [n \in Nodes |-> 0]
    /\ net = {}
    /\ commands = MaxCommands
    /\ faults = MaxFaults

-----------------------------------------------------------------------------
(* Environment: the clock and the raft library *)

Tick ==
    /\ now < MaxClock
    /\ now' = now + 1
    /\ UNCHANGED <<faults, log, applied, fsm, raftVars, loopVars, net>>

\* The goroutine that watches raft tells the main loop of n that it leads.
ObserveLeadership(n) == notice' = [notice EXCEPT ![n] = TRUE]

\* The processes that still run are a majority of the group.
Quorate == 2 * Cardinality({m \in Nodes : pc[m] # "down"}) > Cardinality(Nodes)

\* n wins an election.  A previous leader is deposed, but may not know it yet.
Elect(n) ==
    /\ pc[n] # "down" /\ Quorate /\ cur # n
    /\ ~leading[n]
    /\ faults > 0 /\ faults' = faults - 1
    /\ cur' = n
    /\ leading' = [leading EXCEPT ![n] = TRUE]
    /\ known' = [known EXCEPT ![n] = n]
    /\ ObserveLeadership(n)
    /\ UNCHANGED <<kept, now, log, applied, fsm, loopVars, net>>

\* n notices that it is no longer the leader, or gives up leadership.
StepDown(n) ==
    /\ leading[n]
    /\ faults > 0 /\ faults' = faults - 1
    /\ cur' = IF cur = n THEN NoNode ELSE cur
    /\ leading' = [leading EXCEPT ![n] = FALSE]
    /\ known' = [known EXCEPT ![n] = NoNode]
    /\ kept' = [kept EXCEPT ![n] = FALSE]
    /\ UNCHANGED <<notice, now, log, applied, fsm, loopVars, net>>

\* A follower hears from the leader of the current term.
Learn(n) ==
    /\ pc[n] # "down" /\ ~leading[n] /\ cur # NoNode /\ known[n] # cur
    /\ known' = [known EXCEPT ![n] = cur]
    /\ UNCHANGED <<faults, cur, leading, notice, kept, now, log, applied, fsm, loopVars, net>>

\* The FSM of n applies the next agreed entry: its state is replaced.
Apply(n) ==
    /\ pc[n] # "down" /\ applied[n] < Len(log)
    /\ applied' = [applied EXCEPT ![n] = @ + 1]
    /\ fsm' = [fsm EXCEPT ![n] = log[applied[n] + 1]]
    /\ UNCHANGED <<faults, now, log, raftVars, loopVars, net>>

-----------------------------------------------------------------------------
(* Helpers of the handlers *)

\* RaftImpl.Leader
Leader(n) == IF leading[n] THEN n ELSE known[n]

Expired(lock) == lock.created < now - LockTimeout

\* Server.checkMutable
CheckMutable(j, peer) ==
    \/ j.lock.peer = NoNode
    \/ j.lock.peer = peer
    \/ Expired(j.lock)

\* Mutant: a handler forgets checkMutable.
PermittedUnchecked(s, t) == s[t.job].data # NoNode \/ t.op = "set"

\* May the request be carried out on s?  getMutableJob wants the job to exist,
\* OnSetJobRequest does not.
Permitted(s, t) ==
    LET j == s[t.job] IN
    IF j.data = NoNode THEN t.op = "set" ELSE CheckMutable(j, t.from)

\* What On{Set,Delete,Acquire,Release}JobRequest make of the job: setting it
\* keeps its lock.  A new job keeps the lock inside the request, and the requests
\* the wrapper makes (wan_queue.py, setJob) have none.
Changed(j, t) ==
    [set     |-> [data |-> t.from, lock |-> j.lock],
     delete  |-> Absent,
     acquire |-> [data |-> j.data, lock |-> [peer |-> t.from, created |-> now]],
     release |-> [data |-> j.data, lock |-> NoLock]][t.op]

\* Mutant: the lock is changed in a copy of the job.
MutateCopy(s, t) ==
    [s EXCEPT ![t.job] = IF t.op \in {"acquire", "release"} THEN @ ELSE Changed(@, t)]

Mutate(s, t) == [s EXCEPT ![t.job] = Changed(s[t.job], t)]

\* Publishing on the topic: any of the other nodes may miss the message.
Publish(n, op, job, s, from) ==
    \E D \in SUBSET (Nodes \ {n}) :
        /\ net' = from \cup {[op |-> op, job |-> job, state |-> s, author |-> n, dst |-> d]
                               : d \in D}
        /\ Cardinality(net') <= MaxNet

\* topic_receiver reports the neighbour that GossipSub has the message from as
\* its peer: the author, or anybody else on the topic.
ReceivedFrom(n, m) == Nodes \ {n}

\* The main loop of n is ready for its next message.
Done(n) ==
    /\ pc' = [pc EXCEPT ![n] = "idle"]
    /\ task' = [task EXCEPT ![n] = Idle]
    /\ held' = [held EXCEPT ![n] = Empty]
    /\ depth' = [depth EXCEPT ![n] = 0]
    /\ seen' = [seen EXCEPT ![n] = 0]
    /\ done' = [done EXCEPT ![n] = 0]
    /\ kept' = [kept EXCEPT ![n] = FALSE]
    /\ UNCHANGED <<cur, leading, known, notice, commands>>

Start(n, where, t, s) ==
    /\ pc' = [pc EXCEPT ![n] = where]
    /\ task' = [task EXCEPT ![n] = t]
    /\ held' = [held EXCEPT ![n] = s]
    /\ UNCHANGED <<depth, seen, done>>

\* The handler of n goes on at another place.
GoOn(n, where) ==
    /\ pc' = [pc EXCEPT ![n] = where]
    /\ UNCHANGED <<task, held, depth, seen, done, commands>>

\* The handler of n returns, without a state.
Return(n, where) ==
    /\ pc' = [pc EXCEPT ![n] = where]
    /\ held' = [held EXCEPT ![n] = Empty]
    /\ seen' = [seen EXCEPT ![n] = 0]
    /\ UNCHANGED <<task, depth, done, commands>>

-----------------------------------------------------------------------------
(* The main loop: what Loop selects on *)

\* recvCmd at a node that takes itself for the leader.
CommandAtLeader(n) ==
    \E op \in Ops, j \in Jobs :
        /\ pc[n] = "idle" /\ leading[n]
        /\ commands > 0 /\ commands' = commands - 1
        /\ kept' = [kept EXCEPT ![n] = TRUE]
        /\ Start(n, "handle", [op |-> op, job |-> j, from |-> n, cmd |-> TRUE], Empty)
        /\ UNCHANGED <<faults, now, log, applied, fsm, cur, leading, known, notice, net>>

\* recvCmd anywhere else: the request is forwarded and the wrapper gets OK.
ForwardCommand(n) ==
    \E op \in Ops, j \in Jobs :
        /\ pc[n] = "idle" /\ ~leading[n]
        /\ Publish(n, op, j, Empty, net)
        /\ commands > 0 /\ commands' = commands - 1
        /\ UNCHANGED <<faults, now, log, applied, fsm, raftVars>>
        /\ UNCHANGED <<pc, task, held, depth, seen, done>>

\* recvPubsub: CanHandleMessage drops what this node may not handle.
RecvRequest(n) ==
    \E m \in net : \E peer \in ReceivedFrom(n, m) :
        /\ pc[n] = "idle" /\ m.dst = n /\ m.op \in Ops
        /\ net' = net \ {m}
        /\ IF leading[n]
           THEN Start(n, "get", [op |-> m.op, job |-> m.job, from |-> peer, cmd |-> FALSE],
                      Empty)
           ELSE UNCHANGED <<pc, task, held, depth, seen, done>>
        /\ UNCHANGED <<faults, commands, now, log, applied, fsm, raftVars>>

\* recvPubsub with a State: accepted from whom this node knows as the leader.
RecvState(n) ==
    \E m \in net : \E peer \in ReceivedFrom(n, m) :
        /\ pc[n] = "idle" /\ m.dst = n /\ m.op = "state"
        /\ net' = net \ {m}
        /\ IF Leader(n) = peer
           THEN Start(n, "commit",
                      [op |-> "state", job |-> NoJob, from |-> peer, cmd |-> FALSE], m.state)
           ELSE UNCHANGED <<pc, task, held, depth, seen, done>>
        /\ UNCHANGED <<faults, commands, now, log, applied, fsm, raftVars>>

\* LeaderChan: a leader publishes the state, which raft.Get() may bootstrap.
OnLeaderChan(n) ==
    /\ pc[n] = "idle" /\ notice[n]
    /\ notice' = [notice EXCEPT ![n] = FALSE]
    /\ IF leading[n]
       THEN Start(n, "get", [Idle EXCEPT !.op = "elected"], Empty)
       ELSE UNCHANGED <<pc, task, held, depth, seen, done>>
    /\ UNCHANGED <<faults, commands, cur, leading, known, kept, now, log, applied, fsm, net>>

-----------------------------------------------------------------------------
(* Handlers *)

\* Mutant: a command that may no longer be handled is never answered.
HandleCommandSilent(n) ==
    /\ pc[n] = "handle" /\ leading[n]
    /\ GoOn(n, "get")
    /\ UNCHANGED <<faults, now, log, applied, fsm, raftVars, net>>

\* Handle: a command that lost its leadership since recvCmd is not handled and
\* returns nil, nil.
HandleCommand(n) ==
    /\ pc[n] = "handle"
    /\ GoOn(n, IF leading[n] THEN "get" ELSE "ok")
    /\ UNCHANGED <<faults, now, log, applied, fsm, raftVars, net>>

\* Mutant: the applied index counts the new entry twice.
AgreedTwice(n, s) ==
    /\ leading[n] /\ cur = n /\ Quorate /\ Len(log) < MaxLog
    /\ log' = Append(log, s)
    /\ applied' = [applied EXCEPT ![n] = Len(log) + 2]
    /\ fsm' = [fsm EXCEPT ![n] = s]
    /\ UNCHANGED faults

\* CommitState succeeds: s is agreed and applied on n.
Agreed(n, s) ==
    /\ leading[n] /\ cur = n /\ Quorate /\ Len(log) < MaxLog
    /\ log' = Append(log, s)
    /\ applied' = [applied EXCEPT ![n] = Len(log) + 1]
    /\ fsm' = [fsm EXCEPT ![n] = s]
    /\ UNCHANGED faults

\* CommitState returns an error, as it must on a deposed leader and without a
\* majority.  Otherwise the entry may have been agreed all the same.
CommitError(n, s) ==
    /\ leading[n]
    /\ IF cur = n /\ Quorate THEN faults > 0 /\ faults' = faults - 1 ELSE UNCHANGED faults
    /\ \/ UNCHANGED log
       \/ cur = n /\ Quorate /\ Len(log) < MaxLog /\ log' = Append(log, s)
    /\ UNCHANGED <<applied, fsm>>

\* The handler is in Get, called by itself or at the end of Commit.
InGet(n) == pc[n] \in {"get", "finish"}

\* Get without a state on a leader commits the empty queue.
Bootstrap(n) ==
    /\ InGet(n) /\ applied[n] = 0
    /\ \/ Agreed(n, Empty) /\ UNCHANGED loopVars
       \/ CommitError(n, Empty) /\ Return(n, "error")
    /\ UNCHANGED <<now, raftVars, net>>

\* Get without a state on any other node: bootstrapState and Commit, which
\* commits nothing, call Get again, until the stack overflows and the process
\* ends.
Recurse(n) ==
    /\ InGet(n) /\ applied[n] = 0 /\ ~leading[n]
    /\ IF depth[n] < StackDepth
       THEN /\ depth' = [depth EXCEPT ![n] = @ + 1]
            /\ UNCHANGED <<pc, task, held, seen, done, commands>>
       ELSE GoOn(n, "down")
    /\ UNCHANGED <<faults, now, log, applied, fsm, raftVars, net>>

\* Get returns the object the FSM holds, which the handler of a job request and
\* the new leader's announcement send on.
GetReturns(n) ==
    /\ pc[n] = "finish" \/ (pc[n] = "get" /\ task[n].op = "elected")
    /\ applied[n] > 0
    /\ IF task[n].op = "state"
       THEN Return(n, "ok")
       ELSE /\ pc' = [pc EXCEPT ![n] = "publish"]
            /\ held' = [held EXCEPT ![n] = fsm[n]]
            /\ UNCHANGED <<task, depth, seen, done, commands>>
    /\ UNCHANGED <<faults, now, log, applied, fsm, raftVars, net>>

\* The job handlers up to Commit: they look at and change the live state.
Validate(n) ==
    /\ pc[n] = "get" /\ applied[n] > 0 /\ task[n].op \in Ops
    /\ IF Permitted(fsm[n], task[n])
       THEN /\ pc' = [pc EXCEPT ![n] = "commit"]
            /\ fsm' = [fsm EXCEPT ![n] = Mutate(@, task[n])]
            /\ held' = [held EXCEPT ![n] = Mutate(fsm[n], task[n])]
            /\ seen' = [seen EXCEPT ![n] =
                          IF applied[n] = Len(log) /\ fsm[n] = log[Len(log)]
                          THEN Len(log) ELSE 0]
            /\ UNCHANGED <<task, depth, done, commands>>
       ELSE Return(n, "error") /\ UNCHANGED fsm
    /\ UNCHANGED <<faults, now, log, applied, raftVars, net>>

\* Commit gets to its end, where it returns Get().
CommitEnds(n, entry) ==
    /\ pc' = [pc EXCEPT ![n] = "finish"]
    /\ held' = [held EXCEPT ![n] = Empty]
    /\ seen' = [seen EXCEPT ![n] = 0]
    /\ done' = [done EXCEPT ![n] = entry]
    /\ UNCHANGED <<task, depth, commands>>

\* Commit on a leader that is still the leader: agreed.
CommitAgreed(n) ==
    /\ pc[n] = "commit"
    /\ Agreed(n, held[n])
    /\ CommitEnds(n, Len(log) + 1)
    /\ UNCHANGED <<now, raftVars, net>>

CommitFails(n) ==
    /\ pc[n] = "commit"
    /\ CommitError(n, held[n])
    /\ Return(n, "error")
    /\ UNCHANGED <<now, raftVars, net>>

\* Commit on a node that is no leader commits nothing.
CommitSkipped(n) ==
    /\ pc[n] = "commit" /\ ~leading[n]
    /\ CommitEnds(n, 0)
    /\ UNCHANGED <<faults, now, log, applied, fsm, raftVars, net>>

\* Loop with what the handler returned: a state is published, and a command is
\* answered Error at "error" and Ok at "publish" and at "ok".
Answer(n) ==
    /\ pc[n] \in {"publish", "ok", "error"}
    /\ Done(n)
    /\ IF pc[n] = "publish" THEN Publish(n, "state", NoJob, held[n], net) ELSE UNCHANGED net
    /\ UNCHANGED <<faults, now, log, applied, fsm>>

-----------------------------------------------------------------------------
Handler(n) ==
    \/ HandleCommand(n) \/ Bootstrap(n) \/ Recurse(n) \/ GetReturns(n) \/ Validate(n)
    \/ CommitAgreed(n) \/ CommitFails(n) \/ CommitSkipped(n) \/ Answer(n)

Select(n) ==
    \/ CommandAtLeader(n) \/ ForwardCommand(n) \/ RecvRequest(n)
    \/ RecvState(n) \/ OnLeaderChan(n)

Raft(n) == Elect(n) \/ StepDown(n) \/ Learn(n) \/ Apply(n)

Next == Tick \/ \E n \in Nodes : Handler(n) \/ Select(n) \/ Raft(n)

\* The main loop goroutine and the FSM goroutine of a node keep running.
Fairness == \A n \in Nodes : WF_vars(Handler(n)) /\ WF_vars(Apply(n))

Spec == Init /\ [][Next]_vars /\ Fairness

-----------------------------------------------------------------------------
(* Properties *)

\* This step ends the Commit of node n and an entry is agreed.
Commits(n) == pc[n] = "commit" /\ pc'[n] # "commit" /\ log' # log

\* Somebody else than `from` holds a lease on job j of state s, and it has not
\* run out.
LeasedToOther(s, j, from) ==
    /\ s[j].lock.peer \notin {NoNode, from}
    /\ now <= s[j].lock.created + LockTimeout

\* Going from s to s2, request t keeps every job it has no right to change:
\* those it is not about, and the one it is about while another peer holds a
\* lease on it.
Respects(t, s, s2) ==
    \A j \in Jobs : (j # t.job \/ LeasedToOther(s, j, t.from)) => s2[j] = s[j]

\* An entry whose handler validated it on the newest agreed state respects the
\* other jobs and the leases when it is agreed, however long Commit blocked and
\* whatever elections and failed commits came before.
FreshCommitRespectsLease ==
    [][\A n \in Nodes :
          Commits(n) /\ seen[n] > 0 /\ seen[n] = Len(log)
              => Respects(task[n], log[Len(log)], log'[Len(log')])]_vars

\* The same of every job request that is agreed: the queue is stored reliably.
\* Does not hold: see the findings.
CommitRespectsLease ==
    [][\A n \in Nodes :
          Commits(n) /\ log # <<>> /\ task[n].op \in Ops
              => Respects(task[n], log[Len(log)], log'[Len(log')])]_vars

\* The job is as request t wants it.
Fulfilled(t, j) ==
    /\ t.op = "set" => j.data = t.from
    /\ t.op = "delete" => j = Absent
    /\ t.op = "acquire" => j.lock.peer = t.from
    /\ t.op = "release" => j.lock = NoLock

\* This step answers the command that n's handler took on with Ok.
Acknowledges(n) == task[n].cmd /\ pc[n] \in {"publish", "ok"} /\ pc'[n] = "idle"

\* A command that is answered Ok by a peer that led all the while was agreed, and
\* the entry holds what it asked for, though Commit may block while the FSM
\* replaces the object that the handler changed.
LeaderAckMeansDone ==
    [][\A n \in Nodes :
          Acknowledges(n) /\ kept[n]
              => done[n] > 0 /\ Fulfilled(task[n], log[done[n]][task[n].job])]_vars

\* The same of every command that the peer took for itself to handle: Ok is the
\* answer to commands that succeed.  Does not hold: see the README (JobQueueAck.cfg).
AckMeansDone ==
    [][\A n \in Nodes :
          Acknowledges(n)
              => done[n] > 0 /\ Fulfilled(task[n], log[done[n]][task[n].job])]_vars

\* raft.Get() on a queue that is not bootstrapped yet fails and returns: no main
\* loop ends in it.  Does not hold: see the README (JobQueueOverflow.cfg).
GetFailsSafely == \A n \in Nodes : pc[n] # "down"

\* Every handler returns and every command is answered, unless the process dies
\* of the recursion of Get and Commit; and that only happens on a node whose FSM
\* has not applied anything.
HandlerReturns ==
    \A n \in Nodes :
        /\ (pc[n] # "idle") ~> (pc[n] \in {"idle", "down"})
        /\ (pc[n] \notin {"idle", "down"} /\ applied[n] > 0) ~> (pc[n] = "idle")
=============================================================================
