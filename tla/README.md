# PeerPrint in TLA+

PeerPrint shares 3D print queues between peers. There are two independent implementations of a
queue in the repository: the **WAN queue**, a Go server per peer (libp2p pubsub for requests,
hashicorp/raft among the trusted peers for the state) driven by a Python wrapper over ZMQ, and the
**LAN queue**, Python objects replicated by pysyncobj. This project models the parts in which
several actors change shared state or depend on each other, checks them with TLC on small
instances, and proves the safety properties that hold with TLAPS for every value of the constants.

Paths below are relative to `src/peerprint/`.

## Inventory

| Part | State | Operations | Interacts with | What is hard | Correct if |
|---|---|---|---|---|---|
| WAN job queue: `server/server/server.go`, `handlers.go`, `server/raft/raft.go` | the raft log of whole queue states, each node's live FSM state, leadership, the message being handled | commands of the wrapper, requests and states over pubsub, leader changes; `Get`, `Commit`, `bootstrapState` | wrapper (ZMQ), other peers (pubsub), raft | leadership changes while a handler runs, new leaders that lag behind, commits that fail after the state was changed | an agreed change respects the leases of others; OK means agreed; handlers return, also on a queue that is not bootstrapped |
| RAFT group formation: `server.go` `handshakeRaft`, `handlers.go` `OnRaftAddrs*`, `raft.go` `Connect`/`addServer`/`setup` | known peers, set-up progress, raft configuration | request and answer addresses, connect, bootstrap, add voters | pubsub, raft | every peer bootstraps with what it knows; failures between the steps of `setup` | the trusted peers are one consensus group |
| Poller: `server/poll/poll.go` | ticker, `polling`, `pollResult` | `Pause`, `Resume`, `Update`, `loop`, `pollPeersSync` | main loop over unbuffered channels | answers that race with the timeout, a flag tested and set by different goroutines | polls do not overlap and go on |
| LAN ordered dict: `sync_objects.py` `CPOrderedReplDict` | values, links in both directions, first, last | set, pop, mv, ordered_items | pysyncobj | long sequences of calls on outdated views; errors half-way | the order holds exactly the stored keys |
| LAN locks: `sync_objects.py` `CPReplLockManager`, `lan_queue.py` `acquireJob`/`releaseJob` | the lock table, each replica's position, the prolonging thread, waiting calls | acquire, prolongate, release, isAcquired | pysyncobj, clocks | clock skew, lagging replicas, lost calls, answers after a timeout | no two holders; what is granted is held |
| Start-up and roles: `server.go` `setup`, both handshakes, `handlers.go` `OnAssignment*`, `OnRaftAddrs*` | topic, type, topic channels, `roleAssigned`, raft set up or not | request and answer assignments and addresses, elections | pubsub, main loop, raft | wake-ups on unbuffered channels, a handshake that runs before the loop that completes it, relayed messages taken for their relay's | trusted peers stay electable and set raft up; every peer gets a role |
| Topic channels: `server/topic_receiver` | send channel, subscription, errors | send, receive, close | pubsub, server | closing twice, an error channel nobody drains | messages go on |
| Go discovery: `server/discovery` | two notification channels, the discovery goroutine, what is connected | peer found, connect, notify, await | libp2p, main | notifications nobody waits for | ready once connected, and only then |
| LAN discovery: `discovery.py`, `lan_queue.py` `LANPrintQueue` | hosts and when they pinged, whether the queue exists | ping, prune, start-up, destroy | sockets, LAN membership | hosts that come and go around start-up, lost pings, restarts | a host starts up knowing the others; live hosts stay, silent ones go |
| LAN membership: `lan_queue.py` `addPeer`/`removePeer`/`syncPeer` | cluster members, table of peers | add, remove, sync | pysyncobj | several hosts that change one cluster by what each has heard | live hosts are members |
| Main loop's channels, ZMQ and wrapper: `server.go` `Loop`, `server/cmd`, `wan/comms.py`, `wan/wan_queue.py` | bounded channels and sockets, cached jobs, readiness | call, reply, push, publish, update | server, host process, raft, poller | everybody waits for room somewhere; one object shared by FSM, handlers and pipe; a command without reply | every call gets its own reply; the cache moves forward and catches up |
| File sharing: `filesharing.py`, `wan/ipfs.py` | files by hash | post, fetch | HTTP, IPFS | interrupted downloads | a fetched file is complete |
| Keys and registry: `server/main.go`, `server/registry_generator` | key files, registry file | load, generate, `generate_registry` | file system, server | processes that end between two writes, keys that are overwritten | an identity stays; the registry lists it |
| Glue: subprocess, demo, shell, generated protobuf code | none of its own | I/O | | | not modelled |

`PROJECT.json` lists the hazards of these parts, each at the line where it bites, with the
properties that cover it or the reason none does yet.

## Modules

| Module | Models | Checked by | Proved in |
|---|---|---|---|
| `JobQueue` | WAN job queue | `MCJobQueue` | `JobQueueProofs` |
| `RaftGroup` | RAFT group formation | `MCRaftGroup` | `RaftGroupProofs` |
| `Poller` | poller and the main loop that serves it | `MCPoller` | `RaftGroupProofs` |
| `OrderedQueue` | what the ordered dict promises (abstract) | `MCOrderedReplDict`, as a refinement | `OrderedReplDictProofs` |
| `OrderedReplDict` | the ordered dict | `MCOrderedReplDict` | `OrderedReplDictProofs` |
| `Discovery` | LAN discovery and what it asks of the queue | `MCDiscovery` | `DiscoveryProofs` |
| `ReplLockManager` | LAN locks | `MCReplLockManager` | `ReplLockManagerProofs` |
| `RoleAssignment` | start-up of the servers, roles, topic channels | `MCRoleAssignment` | `RoleAssignmentProofs` |
| `ServerIO` | one server's goroutines and channels, ZMQ, the wrapper | `MCServerIO` | `ServerIOProofs` |
| `KeyFiles` | key and registry files | `MCStartup` | `StartupProofs` |
| `PeerDiscovery` | Go discovery | `MCStartup` | `StartupProofs` |
| `Startup` | `KeyFiles` and `PeerDiscovery` composed, as `main` does | `MCStartup` | `StartupProofs` |

Definitions named after a mutant of the code (`PermittedUnchecked`, `LoopUnchecked`, ...) stand
before the definition they distort. They are used by no specification: they show that each
property notices a plausible mistake.

### JobQueue

`fsm[n]` is the object the FSM of node n holds and `raft.Get()` returns, `log` the agreed entries,
`applied[n]` how many of them n has applied. Raft itself is external. What the code uses of it is
kept: `leading[n]` is `raft.State() == Leader`, `cur` the node that really can commit, so a deposed
leader is one with `leading[n]` and `cur # n`; `known[n]` is `LeaderWithID`.

`pc[n]` is where the main loop of n is: `idle` (the select of `Loop`), `handle` (a command passed
the first leadership test), `get` (in `raft.Get`), `commit` (in `raft.Commit`), `finish` (in the `Get`
that ends `Commit`), `publish`, `ok` and `error` (the handler has returned, and `Loop` has yet to send
on a state, or to answer), `down` (the process died). The handlers are split where another
goroutine or node can come between: the leadership test in `Loop`, the one in `CanHandleMessage`,
the one in `Commit`, the blocking commit, and the sends before the answer. The actions are the cases
of the select (`CommandAtLeader`, `ForwardCommand`, `RecvRequest`, `RecvState`, `OnLeaderChan`) and
the pieces of the handlers (`HandleCommand`, `Bootstrap`, `Recurse`, `GetReturns`, `Validate`,
`CommitAgreed`, `CommitFails`, `CommitSkipped`, `Answer`). `Get` without a state calls `bootstrapState`, and
that `Commit`; on a node that does not lead this is `Get` again, one round deeper (`Recurse`), until an
entry is applied or the stack of `StackDepth` rounds overflows and the process ends. A process that
ended takes part in no election, and nothing is agreed without a majority (`Quorate`).

A job is who set it and its lock; its content is opaque to the code. A new job keeps the lock that is
inside the request; the requests of the wrapper (`wan/wan_queue.py` `setJob`) have none, and the model
stores none. Messages may be lost, delayed and reordered, and come from whichever neighbour brought
them first (`ReceivedFrom`). `seen[n]`, `kept[n]` and `done[n]` are history variables: the length of the
log n's state agreed with when it validated, whether n has led without a break since it took its
command, and the entry its request became.

Left out: the `StateChan` case, which only pushes the state to the wrapper, is in `ServerIO`;
`Leader` messages (`SetLeader` does nothing in `RaftImpl`); listeners, which never get to the main
loop (`RoleAssignment`).

### RaftGroup

A `RaftAddrsRequest` contains nothing but its author's address and is repeated every five seconds,
so it may arrive at any time, any number of times, or never. `Connect` remembers the peer, connects,
adds it as a voter if this node leads, and sets raft up if there is no transport yet. Its failures
are actions of their own; they are bounded by `MaxFaults`. Elections and the replication of
configurations are hashicorp/raft's and external: votes need a majority of the candidate's own
configuration. `Strict` chooses whether nodes refuse candidates they do not know (newer versions of
the library do): three peers are checked without that help, the counterexample with four has it.

### Poller

A poll is a goroutine with its own program counter. `Polls` bounds how many exist at a time; the
ones that only have their result left count too, so more than two are needed for overlaps. `AppendAnswer`
is separate from `Update` because `pollResult` is appended to without the lock while a poll may be
emptying it. `Prompt` says that a goroutine that can run does so before the next tick, five
to sixty seconds later: without it two ticks can start two polls.

### OrderedQueue and OrderedReplDict

Every replica applies the same calls in the same order, so one replica is enough; a caller with an
outdated view is one that may name any key. `KeyError`s are modelled where they are raised, with
what was done before them. `Spec` allows every call except moves to the front and behind the item
itself; `AnySpec` allows all of them. `Walk` goes along the links as `ordered_items` does, and
`Queue` maps `OrderedQueue`'s `order` to what it yields.

### ReplLockManager

The log holds the agreed calls with the table after each; a client sees the table after
`applied[c]` calls. The call carries the time its caller read: `Skew` bounds how far clocks differ,
`Delay` how much time passes between reading the clock and queuing the call. `HoldsSafely` is
`isAcquired` with the time a lock lasts shortened by both: with the plain `autoUnlockTime`, `Skew`
alone lets two clients hold a lock, as nothing in the code accounts for clocks. The lock is not
counted as held while the client's own release is agreed and not yet applied.

### Discovery

`heard[n]` is `host_timestamps`, `next[n]` is `next_broadcast`, and the thread of a host is `off`,
`spinning`, or `ending` after `destroy`. `Spin` is one iteration of the outer loop (complete
start-up, broadcast, choose the next time, prune, in the code's order), `Receive` one ping in the
inner loop; both call the callbacks of `LANPrintQueue`. `asked[n]` is the interface to the queue:
the hosts passed to `connect` or `addPeer` and not to `removePeer` since. Pings may be lost between
the pairs in `Lossy`; a host that fails or ends loses its memory and may come back. A loop that can
run does so before the next `Tick`, as it wakes up every 0.2 seconds and the periods are seconds;
`Slack` is lateness beyond that, and covers that a ping gets the time before the `select`.
`around`, `forgot` and `lost` are history variables that only properties use.

### RoleAssignment

A peer is a main goroutine (`main[n]`: off, asking and asked in `handshakeListener`, in its loop, or
down after a panic) and, if trusted, the goroutine of `handshakeRaft` (`shake[n]`). `StartTrusted`
and `StartListener` are `New`, `setup` and what `Loop` does before its select; `Handle` is the
handlers for the messages of the two handshakes, `OnLeaderChan` the case that wakes the handshake
up. `roleAssigned` is unbuffered and sent to without waiting: `RoleAssigned` moves the handshake
only if it waits. A topic channel is open or closed; `OnAssignmentResponse` closes the old one and
leaves it in the map, `sendLoop` then closes it again (`SendLoopEnds`), and a send to it panics
(`Publish`); the requests of both handshakes are sent in a select that panics on a full channel, which
is a possibility here (`Offer`, `AskAssignment`), as channels are counted in `ServerIO`. `net` is a set that
messages are not taken from: what is published may arrive at some, twice, late, or be lost if its
type is in `Lossy`. GossipSub passes a message on along the peers of its topic, and `recvLoop` names
the neighbour that brought it first as its peer: `ReceivedFrom` is any neighbour the message can get to
without the receiver (`Carries`), the author or another one. The first `Connect` sets raft up; a
`setup` that fails behind `raft.go:253` leaves raft `broken`, and later `Connect`s return nil without
looking. One that fails before changes nothing here. Elections are external and bounded.

### ServerIO

One server process with its wrapper. `chan` holds the nine channels and sockets between call,
receiver, main loop, pipes, `sendLoop`, `recvLoop` and the listener thread; all are bounded, and a
send waits for room unless the code says otherwise. A case of the select first computes what it has
to send (`todo`), in the order of the code, and `SendNext` sends one item after the other: this is
where the loop may wait. `HandleJob` and `Commit` are the job handlers as far as channels and the
shared object are concerned; what they validate is in `JobQueue`. The queue state is the number of
its entry, 0 if there is none yet. `dirty` are the entries whose object a handler has changed since,
`spoilt` those whose change was not agreed: the main loop pushes the pointer, and `Serialize` reads
the object later, in the pipe. If a handler writes the job map while the pipe or `sendLoop` reads it,
Go ends the process (`MapRace`). A `State` of another peer is committed by a peer that has become leader
meanwhile, and otherwise only makes it get its own state (`CommitState`), with the recursion of
`JobQueue` where there is none. `Get` may fail in every case of the loop, which then pushes nothing.
`Serialize` returns an error only for what is no message of the protocol, and nothing else is sent:
that branch of the pipes is left out. Every error goes to `err`, which nobody reads; a goroutine that finds
it full is in `failed`.

### KeyFiles, PeerDiscovery and Startup

`KeyFiles` has processes that are servers (`LoadOrGenerateKeys`) or `generate_registry`. `os.WriteFile`
is two steps, `Truncate` and `Fill`, and a process may `End` between any two. `ran`, `settled` and
`cut` are history variables. `Solo` says that no process starts while another one writes: two
processes that start at the same time with the same files do get different identities, and nothing
says that this is supported.

`PeerDiscovery` has the main goroutine, the discovery goroutine and, for every host, `HandlePeerFound`,
which MDNS calls in goroutines of its own and the DHT's loop calls itself. `notify` is heard only by
a goroutine that already waits. MDNS is external: it reports a host once in the life of a process
(`done`), as the library does not report it again before its records expire, which takes longer than
`-connectTimeout`, and it may do so before the discovery goroutine is in its select or `AwaitReady` is
called.

`Startup` composes the two as `main` does: a server that has its keys calls `discovery.New`
(`Discover`), and when its process ends, so does the discovery (`EndServer`), which starts anew the
next time.

## Runs

| Run | Instance | Result |
|---|---|---|
| `job_queue` | 2 nodes, 1 job that may be leased to either, 1 command, 2 elections or failures, clock 0..1, lease of 0, stack of 1 round | `TypeOK`, `FreshCommitRespectsLease`, `LeaderAckMeansDone`, `HandlerReturns` hold |
| `job_queue_lost_update` | 1 job, 3 commands, 3 failures | `CommitRespectsLease` is violated |
| `raft_group` | 3 nodes, 2 failures | `TypeOK`, `OneGroup` hold |
| `raft_group_four` | 4 nodes, no failure | `OneGroup` is violated |
| `poller` | 3 polls, maxPoll 3, up to 5 answers | `PollTypeOK`, `PollsDontOverlap`, `PollsGoOn` hold |
| `ordered_dict` | 4 keys, 2 values | `TypeOK`, `WellLinked`, `ImplementsQueue` hold |
| `ordered_dict_front` | 3 keys, all calls | `PopTakesOneItem` is violated |
| `lock_manager` | 2 clients, 1 lock, T = 2, skew 1, 3 calls, clock 0..3 | `TypeOK`, `Exclusive`, `GrantedIsHeld` hold |
| `discovery` | 2 hosts, 3 starts, period 1, slack 1, ttl 3, clock 0..7, pings from one host to the other may be lost | `TypeOK`, `AskedIsKnown`, `SilentIsForgotten`, `StartupKnowsAll`, `LiveHostStays` hold |
| `role_assignment` | 2 trusted peers, 1 listener connected to one of them, 1 election, lost addresses | `TypeOK`, `DemotedOnlyByRelay`, `DownIsExplained`, `RaftStarts` hold |
| `server_io` | channels and sockets of one item, 2 calls, 2 entries, 2 events | `TypeOK`, `OneReply`, `ReadyMeansRaft`, `ShownIsExplained`, `CacheMovesForward`, `CallReturns`, `CacheCatchesUp` hold |
| `startup` | 2 processes, 2 pairs of keys, 4 keys; 1 peer, 1 bootstrap peer, both methods | `StartupTypeOK`, `IdentityIsKept`, `RegistryListsKeys`, `RefusedIsExplained`, `ReadyMeansMet`, `HeardBecomesReady` hold |

The violations are disagreements between the code and what its documents, comments or tests say;
`findings` in `PROJECT.json` quotes them in full:

| Run | What the code does | What is said of it |
|---|---|---|
| `job_queue_lost_update` | a state that lacks agreed entries, or has a change that failed, is validated on and agreed whole (`server/raft/raft.go:345`) | docs/process-architecture.md:65, the leader "validates it before committing any mutations to the RAFT log" |
| `raft_group_four` | peers that meet in pairs bootstrap two groups (`raft.go:275`) | docs/network-architecture.md:14, the trusted peers "form a RAFT consensus group" |
| `ordered_dict_front` | a move to the front leaves the old first item without predecessor (`sync_objects.py:77`) | `sync_objects.py:11`, the dict "maintains an ordered index" |

### Further counterexamples

The same models refute more of what is said of the code. These are not among the regular runs;
each has a cfg of its own, and `tlc -config <cfg> <module>` prints the counterexample in less than two
minutes. The passing run beside it says what does hold, and where the disagreement holds in every
instance there is a theorem.

| Property, cfg and module | What the code does | What is said of it | What holds |
|---|---|---|---|
| `AckMeansDone`: `JobQueueAck.cfg`, `MCJobQueue` | leadership is tested three times; lost in between, perhaps won again, the command is answered OK and nothing is agreed (`raft.go:326`) | `server/proto/state.proto:23`, Ok is "Used in response to ZMQ socket commands that succeed, but have no output" | `LeaderAckMeansDone` |
| `GetFailsSafely`: `JobQueueOverflow.cfg`, `MCJobQueue` | on a node without leadership and state, `Get` calls itself until the process dies (`raft.go:349`) | `server/server/server.go:250`, "This may fail on new queue that hasn't been bootstrapped yet", followed by a test of `err` | `HandlerReturns` |
| `AnswersRunRaft`: `RaftGroupBroken.cfg`, `MCRaftGroup` | a `Connect` after a failed `setup` returns nil, and the peer answers without raft (`raft.go:253`) | `server/server/handlers.go:163` and 174, "Connect() safetly handles duplicates" | `RaftStarts` |
| `TrustedAreElectable`: `RoleAssignmentDemoted.cfg`, `MCRoleAssignment` | the leader gives the listener's role to the trusted peer that brought the request, which then closes its topic twice (`server/topic_receiver/topic_receiver.go:101`) | docs/process-architecture.md:55, "If the peer is in `trustedPeers`, it is considered **ELECTABLE**" | `DemotedOnlyByRelay` |
| `HandshakeEnds`: `RoleAssignmentHandshake.cfg`, `MCRoleAssignment` | the wake-up is lost unless the handshake waits at that moment; the requests go on for good (`server.go:240`) | `server.go:238`, "Used to exit the raft handshake process" | `RaftStarts` |
| `ListenersGetRoles`: `RoleAssignmentListener.cfg`, `MCRoleAssignment` | a listener waits for its role before the loop that would handle the answer (`server.go:184`) | docs/process-architecture.md:54, a LISTENER "asks the current leader for an assignment to a pubsub topic", and 57; the comments at `server.go:172` and `handlers.go:145` | the opposite: theorem `ListenersWaitForever` |
| `FoundMeansReady`: `StartupDHT.cfg`, `MCStartup` | with the DHT the notification is always dropped, `AwaitReady` times out and `main` panics (`server/discovery/discovery.go:149`) | docs/process-architecture.md:26, "either MDNS for LAN queues or via DHT for WAN queues", and 46 | the opposite: theorem `NotReadyByDHT` |
| `FoundMeansReady`: `StartupMDNS.cfg`, `MCStartup` | a connection made before both goroutines wait is not noticed (`discovery.go:107`) | docs/process-architecture.md:48 and 52, "After the discovery period is over and peers have been found"; `server/discovery/discovery_test.go:79` expects the timeout after three connections | `HeardBecomesReady` |

What a passing run says about a doubtful place, without a document that is clearly against it:

| Where | What the code does | In the model |
|---|---|---|
| `server/raft/raft.go:321` | `Leader()` before raft is set up is a nil pointer: a command or a listener's request then ends the process | `AskLeaderTooEarly`, `Crash`; `ReadyMeansRaft`: a host that waits for `is_ready()` is safe |
| `server/server/server.go:139` | a handshake that goes on after its wake-up was lost ends the process when the topic channel is full | `Offer`; `DownIsExplained` |
| `server/server/server.go:235` | the pushed object is the live one; the wrapper can show a change that was never agreed | `ShownIsExplained` says when |
| `server/main.go:51` | a server that was interrupted as it wrote its keys refuses to start from then on (`main.go:32`: "if not present, one will be created") | `RefusedIsExplained` |
| `server/poll/poll.go:118` | the answer that fills a poll would block the main loop if the poll is over; `CanHandleMessage` drops all answers, so this is not reached | `AppendAnswer`; `PollsGoOn` assumes that the loop comes back |
| `discovery.py:27` | a host that restarts within the ttl is not answered at once and makes a queue without the others | `StartupKnowsAll` is what holds |

**Bounds.** Two nodes are enough for every leadership race of `JobQueue`: one that was deposed and
one that took over; two elections or failures give a deposed leader with a successor, three also a
failed commit in between. `Init` is a queue that is not bootstrapped, or any queue in use with or
without a lease, so one command meets every lease; that other jobs stay as they are is left to the
theorem `LeaseSafety`, as there is one job. One round of the stack has both outcomes of `Recurse`;
the code's stack of a gigabyte holds some millions. A lease of 0 seconds and a clock of two values
have a lease on both sides of its boundary. `MaxLog` is never reached with the other bounds. Four
keys give a list with a first, a last and two middle items, which is every case of `_link` and
`_unlink`. In `lock_manager` T = 2 and a clock up to 3 (4 with the skew) let a lock run out and be
taken over, with a release or a prolongation in between. In `discovery` the ttl is the longest time
between two pings, the smallest value `TtlAssumption` allows (the code's 20 seconds leave a margin
to 10); the clock goes one beyond the time after which a silent host must be forgotten, and three
starts are two hosts one of which comes back. The theorems do not depend on these numbers.

In `role_assignment` the listener's line to one trusted peer through the other is the smallest
network in which everything is relayed; with one election there is a leader, or none for a time, and the
theorems hold for any number. In `server_io` channels of one item
are full after one send, so every wait for room happens; the code's five only take longer to fill.
Two calls are one that is answered while the next one is on its way, two entries the bootstrapped
queue and one change, and an event is a message of a peer, a poll, an election, a handshake or an
error: of two errors one fills `errChan` and the other blocks its goroutine. In `startup` four keys are
`generate_registry` twice, or once with two servers that made keys before.

**Deadlock.** It is checked for `raft_group` and `ordered_dict`, which never stop. The other models
stop when their bounds are used up, in `poller` also where the main loop blocks, and in `server_io`
and `role_assignment` where processes are down; in `job_queue`, too, a process may die.

**Fairness.** `JobQueue`: weak fairness of each node's handler steps and of its FSM, which are
goroutines that nothing stops; none of elections, messages or commands. `Poller`: weak fairness of
the ticker, the loop, the polls and `AppendAnswer`, strong fairness of `Epoch`, because Go's select picks
among its ready cases at random; none of answers. `RoleAssignment`: weak fairness of the goroutines
and timers, strong fairness of receiving each type of message, as a request that is repeated every
few seconds is not lost every time; none of elections. `ServerIO`: weak fairness of the goroutines
and of the wrapper's threads; none of calls, messages, elections or errors. `PeerDiscovery`: weak
fairness of the goroutines, `HandlePeerFound` among them; none of MDNS, of a `Connect` that succeeds or
of the timeout. The other specifications have none.

## Proofs

| Theorem | States |
|---|---|
| `JobQueueProofs!TypeCorrectness` | `Spec => []TypeOK` |
| `JobQueueProofs!LeaseSafety` | `Spec => FreshCommitRespectsLease` |
| `JobQueueProofs!AckIsDone` | `Spec => LeaderAckMeansDone` |
| `RaftGroupProofs!TypeCorrectness` | `Spec => []TypeOK` |
| `RaftGroupProofs!ThreePeersOneGroup` | `Spec => []OneGroup` for at most three nodes |
| `OrderedReplDictProofs!TypeCorrectness` | `Spec => []TypeOK` |
| `OrderedReplDictProofs!OrderIsKept` | `Spec => []WellLinked` |
| `OrderedReplDictProofs!DictIsQueue` | `Spec => ImplementsQueue` (the refinement of `OrderedQueue`) |
| `DiscoveryProofs!TypeCorrectness` | `Spec => []TypeOK` |
| `DiscoveryProofs!MembershipFollows`, `SilentHostsGo` | `Spec => [](AskedIsKnown /\ SilentIsForgotten)` |
| `DiscoveryProofs!LiveHostsStay` | `Spec => LiveHostStays` |
| `DiscoveryProofs!StartupIsComplete` | `Spec => StartupKnowsAll` |
| `ReplLockManagerProofs!TypeCorrectness` | `Spec => []TypeOK` |
| `ReplLockManagerProofs!Exclusion` | `Spec => []Exclusive` |
| `ReplLockManagerProofs!GrantIsReal` | `Spec => GrantedIsHeld` |
| `RoleAssignmentProofs!TypeCorrectness` | `Spec => []TypeOK` |
| `RoleAssignmentProofs!DemotionByRelay` | `Spec => []DemotedOnlyByRelay` |
| `RoleAssignmentProofs!DownExplained` | `Spec => []DownIsExplained` |
| `RoleAssignmentProofs!ListenersWaitForever` | `Spec => []ListenersWait`: no listener gets a role in any network |
| `ServerIOProofs!TypeCorrectness` | `Spec => []TypeOK` |
| `ServerIOProofs!RepliesMatch` | `Spec => []OneReply` |
| `ServerIOProofs!ReadyNeedsRaft` | `Spec => []ReadyMeansRaft` |
| `ServerIOProofs!ShownExplained` | `Spec => []ShownIsExplained` |
| `ServerIOProofs!NeverBack` | `Spec => CacheMovesForward` |
| `RaftGroupProofs!PollTypes` | `PollSpec => []PollTypeOK` |
| `RaftGroupProofs!PollsApart` | `PollSpec => []PollsDontOverlap`, with `Prompt` |
| `StartupProofs!TypeCorrectness` | `StartupSpec => []StartupTypeOK` |
| `StartupProofs!IdentityKept` | `StartupSpec => []IdentityIsKept` |
| `StartupProofs!RegistryLists` | `StartupSpec => []RegistryListsKeys` |
| `StartupProofs!RefusalExplained` | `StartupSpec => []RefusedIsExplained` |
| `StartupProofs!ReadyOnlyWhenMet` | `StartupSpec => []ReadyMeansMet` |
| `StartupProofs!NotReadyByDHT` | `StartupSpec => []NeverReadyByDHT`: with the DHT, `AwaitReady` never succeeds |

**JobQueue.** The commit of a validated request must still be right however long it blocked. The
inductive invariant `Validated` says of every node that `seen[n]` never exceeds the length of the
log, is 0 while the node is idle, and, as long as it is the length of the log, that what the node
holds respects the request's rights on the newest entry. `Validate` establishes it. Time that goes
by only ends leases, so a lease that did not stand in the way at validation does not at the commit;
an entry agreed meanwhile makes the log longer than `seen[n]`, and the claim is void. For
`AckIsDone`, `AckInv` follows a request to its answer: what a node holds in `commit` has the change its
command asks for (`Mutate` establishes it, and nothing but the node's own handler changes it until the
commit ends), the entry `done[n]` that becomes of it has it too, and as entries are never taken back it
still does at the answer; and a node that has led since it took its command (`kept`) gets past `commit`
only with such an entry, as the other ways to an OK lead over a test it would have failed.

**RaftGroup.** `Connect` adds a peer before it bootstraps, so a configuration has at least two
members (`TwoVoters`), and whoever can commit is followed by two nodes of at most three. Two such
pairs of followers would share a node, and a node follows one leader. The mutant that reads the
servers before adding breaks exactly this. The argument stops at three nodes, as the run with four
shows.

**OrderedReplDict.** `WellLinked` asserts that some sequence represents the links. It is inductive
together with `TypeOK`; each call gives the witness for the next state: the sequence with the new
key at the end, without the popped key, or with the moved key behind its new predecessor. The
lemmas on these sequences are stated about functions on `1..n`, with the index arithmetic spelled
out.

The refinement needs what `ordered_items` yields. `WalkAlong` shows that a list which represents s is
walked along s: the function that follows s and then is `Nil` satisfies the recursive equation of
`Walk`, so the chosen function does, and the least index at which the two differ (`Least`) would
contradict the equation. `ItemsInOrder` adds that the walk ends after n keys. The lemmas
`SetItemLinks`, `PopLinks` and `MvLinks` say which sequence is represented after a call, and
`AppendIsInserted`, `RemoveAtIsRemoved` and `InsertAtIsInserted` that it is the one `OrderedQueue` asks
for. Calls that raise, and pops of keys that are not stored, stutter.

**ReplLockManager.** `Exclusive` compares the tables two clients have applied, both of which may be
old, so it says nothing about the call agreed next and is not inductive. `Keeps` does: a lock that
was a client's after i agreed calls is still its own after any j >= i of them, with a time at most
`Delay` older, unless it released the lock in between or can no longer rely on it by its own clock.
A call of another client takes a lock only when its own clock shows that it ran out; the times in
the calls are not in the future of the clocks they come from (`Past`, `InOrder`) and clocks differ
by at most `Skew`, so the holder's shortened time is over by then. A call of the holder itself can
set the time back, because the two threads of a client stamp and queue independently, but only by
`Delay` (`InOrder`). `Exclusion` follows with i the position of the client that lags behind and j
that of the other. For `GrantIsReal`, `Waiting` says that the answer acquireJob waits for belongs to
its own call and that nothing but prolongations follows it, `Computed` that the table then shows the
lock as its own, `Keeps` carries this to the newest table, and the test for late answers together
with `MarginAssumption` excludes that the time is over.

**Discovery.** That a host is not pruned now says nothing about the next time `_prune` runs. The
inductive invariant bounds the next broadcasts instead: `HeardLately` says that the next ping of a
running host comes within `MaxWait` of the last one that was heard, unless that ping still waits at
the socket, and time does not go on while it does; `PruneIsNear` says the same of the next
iteration of the pruning host and the silence it tolerates. Each `Tick` then uses that the clock has
not reached the next broadcast.

For `StartupIsComplete`, `MeetInv` follows the exchange between a host n that begins and a host m that
was there and had no entry for it: until n lists m, the clock still shows the time at which n began,
and the ping of n is due or waits at m, or the answer of m is due or waits at n. Each of these keeps
time from going on, and start-up is complete only after it has. That n does not prune m again before
is the argument of `LiveHostsStay`, with what n has heard being no older than its own start (`Since`).

**RoleAssignment.** A listener never leaves `handshakeListener` (`AsksForever`), so only listeners ask
for a role, and an answer is for a listener or for a peer that can have brought the request to the
answering one (`Meant`, `Relays`). `KeepsRole` carries this to the trusted peers: one that was not
demoted has both topics open, so nothing is closed twice and nothing is sent to a closed channel; what
is left to end it is `Leader()` without raft, and the full channel of a handshake that goes on. What
`Carries` allows only grows as peers join the topic, so it is bounded by the network in which all have.

**ServerIO.** The invariant has five parts. `LoopInv`: a handler that waits for agreement has nothing
to send, and a reply is the last thing a case sends. `ReplyInv`: one command at a time, and garbled
ones only while the host knows that it gets no reply; with `LoopInv` every step moves the command or
the reply from one place to the next. `RaftInv`: without raft nothing is on its way to the wrapper.
`DirtyInv`: an entry whose object was changed is the newest one while its commit is under way, and
explained otherwise; only the pipe makes bytes, and an object that was dirty then still is. `ForwardInv`:
from the wrapper's cache over the two channels and what is still to be sent to the FSM, no entry is older
than the one before. The types contain that no channel exceeds its capacity.

**Poller.** A poll that was started and has not set the flag yet is alone and there is no tick
pending (`PollInv`); this needs `Prompt`. Once it has set the flag, `loop` starts no other.

**Startup.** `DiscoveryInv`: whoever notifies has connected, and with the DHT the goroutine that could
hear of it never waits. `FilesInv`, for `Solo`: one process writes at a time, and the files it has
written and those it has left are a split of what it was to write (`Rest`), in which a private key
comes right before its public key (`Planned`). From this: a key file holds one key (`OneKey`), the files
a server has run with stay as they were (`RanWithFiles`), the registry and the files agree once
`generate_registry` is through (`Complete`), and without interruptions a pair of files is complete,
absent or about to be written (`BothOrNone`).

**Assumptions.** Constants are numbers and sets with distinct null values, as the `ASSUME`s in the
modules say; keys and nodes are finite sets; capacities are not zero. `MarginAssumption` of
`ReplLockManager` (skew and delay together at most half of the 60 seconds a lock lasts) is one about
the environment; `TtlAssumption` of `Discovery` (twice the period and the slack within the ttl) holds
of the code's 5 and 20 seconds. `PollsApart` assumes `Prompt`, as the run does; the properties of
`KeyFiles` are about `Solo`, as they say themselves.

**Only model-checked**: the liveness properties (`HandlerReturns`, `PollsGoOn`, `RaftStarts`,
`CallReturns`, `CacheCatchesUp`, `HeardBecomesReady`), as the prover has no rules for fairness. Every
invariant and action property of a passing run is stated by a theorem; `OneGroup` for at most three
nodes, which is where it holds.

## Plan

1. Done: `JobQueue`, `RaftGroup`, `OrderedReplDict`, `ReplLockManager`, `Poller`, `Discovery`,
   `RoleAssignment`, `ServerIO`, `KeyFiles`, `PeerDiscovery`, `Startup`.
2. Done: theorems for the invariants and action properties of the passing runs, and the refinement.
3. The table of peers that `syncPeer` keeps, composed with `Discovery`.
4. Leases in the wrapper's cache, which last one hour there and two in the server
   (`wan/wan_queue.py:67`).

## Not modelled

*LAN membership.* `addPeer` and `removePeer` pass hosts on to pysyncobj; whether two clusters that
were begun apart can become one is decided by that library's dynamic membership, which is not part
of the repository. `Discovery` models which calls are made, and the plan has the table of peers.

*File sharing.* Packing, HTTP and IPFS are I/O. `fetch` keeps no state but the files, and takes
whatever exists under the target's name for a finished download, also what an interrupted one left.

*Wrapper.* The codec, the log stream and how long a lease lasts in the cache.

Generated protobuf code, the subprocess, shell and demo glue have no state of their own. The
in-memory raft and the mocks are test doubles. The estimate of the peer count in a poll's summary is
arithmetic on a float, without effect on any other part. `LoadRegistry` only reads, and nobody calls
it.

Seen while reading, without a property: `CanHandleMessage` has no case for `PollPeersRequest` and
`PollPeersResponse` (`server/server/handlers.go:56`); `mv(k, k)` unlinks an item and then raises
(`sync_objects.py:101`, `MvHalfway` in the model); `acquireJob` returns False after a timeout although
the lock may be granted and prolonged later (`lan_queue.py:142`, in the model); `syncPeer` pops from the
dict it iterates over (`lan_queue.py:97`); `destroy` fails before start-up is complete
(`lan_queue.py:173`); a forwarded command is answered OK before anybody has it
(`server/server/server.go:210`).
