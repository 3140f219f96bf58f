------------------------------ MODULE ServerIO ------------------------------
(***************************************************************************)
(* One server process and its wrapper: the goroutines of the server, the   *)
(* channels between them, and the two ZMQ socket pairs.                    *)
(*                                                                         *)
(*   server/server.go   Loop (what it sends, and where it waits)           *)
(*   cmd/cmd.go         receiver, pipe                                     *)
(*   topic_receiver/... sendLoop, recvLoop                                 *)
(*   wan/comms.py       call, _listen        wan/wan_queue.py  _update     *)
(*                                                                         *)
(*    call --req--> receiver --cmd--> Loop --send--> pipe --rep--> call    *)
(*  _listen <-pull-- pipe <--push---- Loop --topic--> sendLoop --> peers   *)
(*                                    Loop <--sub---- recvLoop <-- peers   *)
(*                                                                         *)
(* Every channel is bounded and every send waits for room, but for those   *)
(* marked as tries.  All errors go to one channel that nobody reads.  The  *)
(* main loop pushes the object that the FSM holds; it becomes bytes only   *)
(* in the pipe.  What the queue state is made of is in JobQueue: here it   *)
(* is the number of the agreed entry, 0 if there is none yet, and the      *)
(* entries whose object was changed without agreement.                     *)
(***************************************************************************)
EXTENDS Naturals, Sequences

CONSTANTS
    Cap,           \* capacity of the channels
    ErrCap,        \* capacity of errChan
    Hwm,           \* what the PUSH/PULL sockets hold
    NoteCap,       \* capacity of the raft library's subscription
    MaxCalls,      \* bound: calls of the host
    MaxEntries,    \* bound: agreed entries
    MaxEvents      \* bound: messages of peers and poller, handshakes, elections, errors

ASSUME CapacitiesAssumption == {Cap, ErrCap, Hwm, NoteCap} \subseteq Nat \ {0}
ASSUME BoundsAssumption == {MaxCalls, MaxEntries, MaxEvents} \subseteq Nat

VARIABLES
    up,       \* the server process runs
    raft,     \* raft is set up
    leads,    \* this peer is the leader
    news,     \* newLeader holds something
    live,     \* the entry the FSM holds
    dirty,    \* the entries whose object was changed by a handler since
    spoilt,   \* those whose change was not agreed then (nothing reads this)
    notes,    \* what the subscription to state changes holds
    at,       \* where the main loop is, if it has nothing to send
    todo,     \* what the main loop has still to send, in this order
    chan,     \* what the channels and sockets hold
    failed,   \* the goroutines that wait for room in errChan
    polling,  \* the poller was resumed
    calling,  \* what the host waits for in call()
    ready,    \* _ready of the wrapper
    cache,    \* _jobs of the wrapper
    listens,  \* the listener thread of the wrapper runs
    calls,    \* calls that may still happen
    events    \* events that may still happen

serverVars == <<up, raft, leads, news, live, dirty, spoilt, notes, polling>>
loopVars == <<at, todo>>
wrapperVars == <<calling, ready, cache, listens>>
vars == <<serverVars, loopVars, wrapperVars, chan, failed, calls, events>>

-----------------------------------------------------------------------------
(* Data *)

Entries == 0..MaxEntries

\* What channels hold: a message, whose content matters for states only.
Item == [kind : {"Command", "Garbled", "Ok", "Error", "Summary", "Message",
                 "RaftAddrs", "JobRequest", "PollPeers"}, entry : {0}]
   \cup [kind : {"State"}, entry : Entries]
   \cup [kind : {"Bytes"}, entry : Entries, dirty : BOOLEAN]

It(kind) == [kind |-> kind, entry |-> 0]

Channels == {"req", "cmd", "send", "rep", "push", "pull", "topic", "sub", "err"}

Capacity(c) == CASE c = "err" -> ErrCap [] c = "pull" -> Hwm [] OTHER -> Cap

\* A send of the main loop; a try is given up if there is no room.
Send == [to : {"send", "push", "topic"}, item : Item, try : BOOLEAN]

To(c, item) == [to |-> c, item |-> item, try |-> FALSE]

TypeOK ==
    /\ up \in BOOLEAN /\ raft \in BOOLEAN /\ leads \in BOOLEAN /\ news \in BOOLEAN
    /\ polling \in BOOLEAN /\ ready \in BOOLEAN /\ listens \in BOOLEAN
    /\ live \in Entries /\ spoilt \subseteq dirty /\ dirty \subseteq Entries
    /\ notes \in 0..NoteCap
    /\ at \in {"select", "commitCommand", "commitRequest", "commitState"}
    /\ todo \in Seq(Send)
    /\ chan \in [Channels -> Seq(Item)]
    /\ \A c \in Channels : Len(chan[c]) <= Capacity(c)
    /\ failed \subseteq {"receiver", "sendLoop", "recvLoop"}
    /\ calling \in {"nothing", "reply", "no reply"}
    /\ cache \in [entry : Entries, dirty : BOOLEAN]
    /\ calls \in 0..MaxCalls /\ events \in 0..MaxEvents

\* The server has just started, or the main loop has already met a trusted peer.
Init ==
    /\ up = TRUE /\ raft \in BOOLEAN /\ leads = FALSE /\ news = FALSE
    /\ live = 0 /\ dirty = {} /\ spoilt = {} /\ notes = 0 /\ polling = FALSE
    /\ at = "select" /\ todo = <<>>
    /\ chan = [c \in Channels |-> <<>>]
    /\ failed = {}
    /\ calling = "nothing" /\ ready = FALSE
    /\ cache = [entry |-> 0, dirty |-> FALSE] /\ listens = TRUE
    /\ calls = MaxCalls /\ events = MaxEvents

-----------------------------------------------------------------------------
(* Channels *)

HasRoom(c) == Len(chan[c]) < Capacity(c)

Put(c, item) == HasRoom(c) /\ chan' = [chan EXCEPT ![c] = Append(@, item)]

Taken(c) == [chan EXCEPT ![c] = Tail(@)]

Take(c) == chan' = Taken(c)

\* Moves what comes first in a to b, if there is room.
Pass(a, b, item) ==
    /\ HasRoom(b)
    /\ chan' = [chan EXCEPT ![a] = Tail(@), ![b] = Append(@, item)]

Event == events > 0 /\ events' = events - 1

\* Goroutine g has to report an error.  Nobody reads errChan: if it is full, g
\* waits for good.  `without` is what the channels hold without what g took.
Report(g, without) ==
    IF HasRoom("err")
    THEN chan' = [without EXCEPT !["err"] = Append(@, It("Error"))] /\ UNCHANGED failed
    ELSE chan' = without /\ failed' = failed \cup {g}

-----------------------------------------------------------------------------
(* The wrapper *)

\* call() sends and waits; the host need not wait for is_ready().  A garbled message is one this server cannot read.
Call(kind) ==
    /\ calling = "nothing"
    /\ calls > 0 /\ calls' = calls - 1
    /\ calling' = IF kind = "Command" THEN "reply" ELSE "no reply"
    /\ Put("req", It(kind))
    /\ UNCHANGED <<serverVars, loopVars, ready, cache, listens, failed, events>>

CallReturn ==
    /\ chan["rep"] # <<>>
    /\ Take("rep")
    /\ calling' = "nothing"
    /\ UNCHANGED <<serverVars, loopVars, ready, cache, listens, failed, calls, events>>

\* What _update makes of a message.
Shown(m) == IF m.kind = "Bytes" THEN [entry |-> m.entry, dirty |-> m.dirty] ELSE cache

\* Mutant: the listener thread takes a lock that call() holds while it waits.
UpdateLocked ==
    /\ listens /\ chan["pull"] # <<>> /\ calling = "nothing"
    /\ cache' = Shown(Head(chan["pull"]))
    /\ ready' = TRUE
    /\ Take("pull")
    /\ UNCHANGED <<serverVars, loopVars, calling, listens, failed, calls, events>>

\* _listen and _update.
Update ==
    /\ listens /\ chan["pull"] # <<>>
    /\ cache' = Shown(Head(chan["pull"]))
    /\ ready' = TRUE
    /\ Take("pull")
    /\ UNCHANGED <<serverVars, loopVars, calling, listens, failed, calls, events>>

\* The codec raises, or the host's callback after _jobs is replaced: either ends
\* the listener thread before _ready is set.
UpdateRaises ==
    /\ listens /\ chan["pull"] # <<>>
    /\ cache' \in {cache, Shown(Head(chan["pull"]))}
    /\ Take("pull")
    /\ listens' = FALSE
    /\ UNCHANGED <<serverVars, loopVars, calling, ready, failed, calls, events>>

-----------------------------------------------------------------------------
(* The goroutines of cmd.go and topic_receiver.go *)

Receiver ==
    /\ up /\ "receiver" \notin failed /\ chan["req"] # <<>>
    /\ IF Head(chan["req"]).kind = "Garbled"
       THEN Report("receiver", Taken("req"))
       ELSE Pass("req", "cmd", Head(chan["req"])) /\ UNCHANGED failed
    /\ UNCHANGED <<serverVars, loopVars, wrapperVars, calls, events>>

\* Serialize has no error to report: all that is sent are messages of the protocol.
SendPipe ==
    /\ up /\ chan["send"] # <<>>
    /\ Pass("send", "rep", Head(chan["send"]))
    /\ UNCHANGED <<serverVars, loopVars, wrapperVars, failed, calls, events>>

\* Serialize reads the object as it is now.
Serialize(item) ==
    IF item.kind = "State"
    THEN [kind |-> "Bytes", entry |-> item.entry, dirty |-> item.entry \in dirty]
    ELSE item

PushPipe ==
    /\ up /\ chan["push"] # <<>>
    /\ Pass("push", "pull", Serialize(Head(chan["push"])))
    /\ UNCHANGED <<serverVars, loopVars, wrapperVars, failed, calls, events>>

SendLoop ==
    /\ up /\ "sendLoop" \notin failed /\ chan["topic"] # <<>>
    /\ \/ Take("topic") /\ UNCHANGED <<failed, events>>
       \/ Report("sendLoop", Taken("topic")) /\ Event
    /\ UNCHANGED <<serverVars, loopVars, wrapperVars, calls>>

\* A message of another peer arrives, or one that cannot be read.
RecvLoop ==
    /\ up /\ "recvLoop" \notin failed
    /\ Event
    /\ \/ /\ \E k \in {"RaftAddrs", "JobRequest", "Summary", "PollPeers", "State"} : Put("sub", It(k))
          /\ UNCHANGED failed
       \/ Report("recvLoop", chan)
    /\ UNCHANGED <<serverVars, loopVars, wrapperVars, calls>>

\* handshakeRaft tries to send, and panics if there is no room.
Handshake ==
    /\ up /\ Event
    /\ IF HasRoom("topic")
       THEN Put("topic", It("Message")) /\ UNCHANGED up
       ELSE up' = FALSE /\ UNCHANGED chan
    /\ UNCHANGED <<raft, leads, news, live, dirty, spoilt, notes, polling,
                   loopVars, wrapperVars, failed, calls>>

-----------------------------------------------------------------------------
(* The main loop *)

Selects == up /\ at = "select" /\ todo = <<>>

Leave == at' = "select"

\* Leader() without raft is a nil pointer.
Crash == /\ up' = FALSE
         /\ UNCHANGED <<raft, leads, news, live, dirty, spoilt, notes, polling, loopVars, failed>>

\* The next send waits for room, unless it is a try.
SendNext ==
    /\ up /\ todo # <<>>
    /\ LET s == Head(todo) IN
       \/ Put(s.to, s.item)
       \/ s.try /\ ~HasRoom(s.to) /\ UNCHANGED chan
    /\ todo' = Tail(todo)
    /\ UNCHANGED <<serverVars, at, wrapperVars, failed, calls, events>>

\* Mutant: the subscription holds any number of changes.
NotifyAlways == notes' = notes + 1

\* A change that finds the subscription full is not told.
Notify == notes' = IF notes < NoteCap THEN notes + 1 ELSE notes

\* Get of a leader: agrees on an empty queue if there is no state yet.
Get ==
    \/ live > 0 /\ UNCHANGED <<live, notes>>
    \/ live = 0 /\ live < MaxEntries /\ live' = 1 /\ Notify

\* That agreement fails.
GetFails == live = 0 /\ UNCHANGED <<live, notes>>

\* Mutant: the object is changed before the request is refused.
HandleJobEarly(commit, fails, quiet) ==
    \/ Leave /\ todo' = quiet /\ UNCHANGED <<live, notes, dirty>>
    \/ GetFails /\ Leave /\ todo' = fails /\ UNCHANGED dirty
    \/ /\ Get
       /\ dirty' = dirty \cup {live'}
       /\ \/ Leave /\ todo' = fails
          \/ at' = commit /\ UNCHANGED todo

\* What a job handler does up to Commit: it handles nothing (`quiet`), fails (in
\* Get, or as it refuses the request), or changes the object the FSM holds.
HandleJob(commit, fails, quiet) ==
    \/ Leave /\ todo' = quiet /\ UNCHANGED <<live, notes, dirty>>
    \/ GetFails /\ Leave /\ todo' = fails /\ UNCHANGED dirty
    \/ /\ Get
       /\ \/ Leave /\ todo' = fails /\ UNCHANGED dirty
          \/ at' = commit /\ UNCHANGED todo /\ dirty' = dirty \cup {live'}

\* recvCmd: handled by the leader, forwarded by everybody else.
OnCommand ==
    /\ Selects /\ chan["cmd"] # <<>>
    /\ Take("cmd")
    /\ IF ~raft
       THEN Crash
       ELSE /\ IF leads
               THEN HandleJob("commitCommand", <<To("send", It("Error"))>>,
                              <<To("send", It("Ok"))>>)
               ELSE /\ todo' = <<To("topic", It("Message")), To("send", It("Ok"))>>
                    /\ UNCHANGED <<at, live, notes, dirty>>
            /\ UNCHANGED <<up, raft, leads, news, spoilt, polling, failed>>
    /\ UNCHANGED <<wrapperVars, calls, events>>

\* Mutant: the wrapper gets a reply to the requests of other peers, too.
AnswerAlways(e) ==
    LET s == [kind |-> "State", entry |-> e] IN
    <<To("topic", s), To("push", s), To("send", It("Ok"))>>

\* What the leader answers to a command, or to a request of another peer, whose
\* state it does not push: that is left to the state change.
Answer(e) ==
    LET s == [kind |-> "State", entry |-> e] IN
    IF at = "commitCommand"
    THEN <<To("topic", s), To("push", s), To("send", It("Ok"))>>
    ELSE <<To("topic", s)>>

Spoil == spoilt' = spoilt \cup ({live} \cap dirty)

\* Commit of a job handler is agreed, fails, or finds that this peer leads no more.
Commit ==
    /\ up /\ at \in {"commitCommand", "commitRequest"}
    /\ Leave
    /\ \/ /\ leads /\ live < MaxEntries
          /\ live' = live + 1 /\ Notify /\ UNCHANGED spoilt
          /\ todo' = Answer(live + 1)
       \/ /\ leads /\ Spoil /\ UNCHANGED <<live, notes>>
          /\ todo' = IF at = "commitCommand" THEN <<To("send", It("Error"))>> ELSE <<>>
       \/ ~leads /\ todo' = Answer(live) /\ Spoil /\ UNCHANGED <<live, notes>>
    /\ UNCHANGED <<up, raft, leads, news, dirty, polling, wrapperVars, chan, failed, calls, events>>

\* Commit of OnState, which nobody is told of: this peer may have become leader
\* meanwhile, otherwise it only gets its state.  Without one Get, bootstrapState
\* and Commit call each other until the stack overflows (see JobQueue).
CommitState ==
    /\ up /\ at = "commitState"
    /\ \/ /\ leads /\ live < MaxEntries
          /\ live' = live + 1 /\ Notify /\ Leave /\ UNCHANGED up
       \/ (leads \/ live > 0) /\ Leave /\ UNCHANGED <<up, live, notes>>
       \/ ~leads /\ live = 0 /\ up' = FALSE /\ UNCHANGED <<at, live, notes>>
    /\ UNCHANGED <<raft, leads, news, dirty, spoilt, polling, todo, wrapperVars, chan, failed>>
    /\ UNCHANGED <<calls, events>>

\* A job handler of the leader writes the job table of the object that the pipe,
\* or the loop that publishes, has just begun to read: Go ends a process that
\* iterates over a map while it is written.
MapRace ==
    /\ Selects /\ raft /\ leads
    /\ chan["cmd"] # <<>> \/ (chan["sub"] # <<>> /\ Head(chan["sub"]).kind = "JobRequest")
    /\ \E c \in {"push", "topic"} :
           /\ chan[c] # <<>> /\ Head(chan[c]) = [kind |-> "State", entry |-> live]
           /\ c = "topic" => "sendLoop" \notin failed
    /\ up' = FALSE
    /\ UNCHANGED <<raft, leads, news, live, dirty, spoilt, notes, polling, loopVars, wrapperVars>>
    /\ UNCHANGED <<chan, failed, calls, events>>

\* recvPubsub.  Only RaftAddrs... and what has no handler do without Leader().
OnPubsub ==
    /\ Selects /\ chan["sub"] # <<>>
    /\ Take("sub")
    /\ LET kind == Head(chan["sub"]).kind IN
       IF kind \in {"JobRequest", "Summary", "State"} /\ ~raft
       THEN Crash
       ELSE /\ CASE kind = "JobRequest" /\ leads -> HandleJob("commitRequest", <<>>, <<>>)
                 [] kind = "Summary" /\ ~leads ->
                       /\ todo' \in {<<>>, <<To("push", It("Summary"))>>}
                       /\ UNCHANGED <<at, live, notes, dirty>>
                 [] kind = "State" /\ ~leads ->
                       /\ at' \in {"select", "commitState"}
                       /\ UNCHANGED <<todo, live, notes, dirty>>
                 [] kind = "RaftAddrs" ->
                       /\ todo' \in {<<>>, <<To("topic", It("Message"))>>}
                       /\ UNCHANGED <<at, live, notes, dirty>>
                 [] OTHER -> UNCHANGED <<at, todo, live, notes, dirty>>
            /\ raft' \in {raft, raft \/ kind = "RaftAddrs"}
            /\ UNCHANGED <<up, leads, news, spoilt, polling, failed>>
    /\ UNCHANGED <<wrapperVars, calls, events>>

\* Mutant: the state is pushed only if there is room.
OnStateChanTry ==
    /\ Selects /\ notes > 0
    /\ notes' = notes - 1
    /\ todo' = <<[To("push", [kind |-> "State", entry |-> live]) EXCEPT !.try = TRUE]>>
    /\ UNCHANGED <<up, raft, leads, news, live, dirty, spoilt, polling>>
    /\ UNCHANGED <<at, wrapperVars, chan, failed, calls, events>>

\* Pushes what Get returns, if it does not fail.
OnStateChan ==
    /\ Selects /\ notes > 0
    /\ notes' = notes - 1
    /\ todo' = IF live = 0 THEN <<>> ELSE <<To("push", [kind |-> "State", entry |-> live])>>
    /\ UNCHANGED <<up, raft, leads, news, live, dirty, spoilt, polling>>
    /\ UNCHANGED <<at, wrapperVars, chan, failed, calls, events>>

\* Mutant: a new leader starts with an empty queue.
OnLeaderChanEmpty ==
    /\ Selects /\ news
    /\ news' = FALSE
    /\ todo' = IF leads
               THEN LET s == [kind |-> "State", entry |-> 0]
                    IN  <<To("topic", It("Message")), To("topic", s), To("push", s)>>
               ELSE <<>>
    /\ polling' = TRUE
    /\ UNCHANGED <<up, raft, leads, live, dirty, spoilt, notes, at, wrapperVars, chan, failed>>
    /\ UNCHANGED <<calls, events>>

\* A new leader: itself announces that and its state, if it has one.  The poller
\* starts.
OnLeaderChan ==
    /\ Selects /\ news
    /\ news' = FALSE
    /\ \/ ~leads /\ todo' = <<>> /\ UNCHANGED <<live, notes>>
       \/ leads /\ GetFails /\ todo' = <<To("topic", It("Message"))>>
       \/ /\ leads /\ Get
          /\ LET s == [kind |-> "State", entry |-> live']
             IN  todo' = <<To("topic", It("Message")), To("topic", s), To("push", s)>>
    /\ polling' = TRUE
    /\ UNCHANGED <<up, raft, leads, dirty, spoilt, at, wrapperVars, chan, failed>>
    /\ UNCHANGED <<calls, events>>

\* Mutant: the poller polls without having been resumed.
OnPollAlways ==
    /\ Selects
    /\ Event
    /\ \/ todo' = <<To("topic", It("Message"))>>
       \/ todo' = <<To("topic", It("Message")),
                    [To("push", It("Summary")) EXCEPT !.try = TRUE]>>
    /\ UNCHANGED <<serverVars, at, wrapperVars, chan, failed, calls>>

\* The poller's Epoch and Result.
OnPoll ==
    /\ Selects /\ polling
    /\ Event
    /\ \/ todo' = <<To("topic", It("Message"))>>
       \/ todo' = <<To("topic", It("Message")),
                    [To("push", It("Summary")) EXCEPT !.try = TRUE]>>
    /\ UNCHANGED <<serverVars, at, wrapperVars, chan, failed, calls>>

-----------------------------------------------------------------------------
(* The raft library *)

\* This peer becomes leader, or another one does.
LeaderChanges ==
    /\ up /\ raft /\ Event
    /\ leads' \in BOOLEAN
    /\ news' = TRUE
    /\ UNCHANGED <<up, raft, live, dirty, spoilt, notes, polling, loopVars, wrapperVars, chan, failed,
                   calls>>

\* The FSM of a follower applies an entry: it holds another object then.
Apply ==
    /\ up /\ raft /\ ~leads /\ live < MaxEntries
    /\ live' = live + 1
    /\ Notify
    /\ UNCHANGED <<up, raft, leads, news, dirty, spoilt, polling, loopVars, wrapperVars, chan,
                   failed, calls, events>>

-----------------------------------------------------------------------------
Loop == OnCommand \/ Commit \/ CommitState \/ OnPubsub \/ OnStateChan \/ OnLeaderChan \/ SendNext

Next ==
    \/ Call("Command") \/ Call("Garbled") \/ CallReturn \/ Update \/ UpdateRaises
    \/ Receiver \/ SendPipe \/ PushPipe \/ SendLoop \/ RecvLoop \/ Handshake
    \/ Loop \/ MapRace \/ OnPoll \/ LeaderChanges \/ Apply

\* Goroutines and threads that can run do.  The host need not call; messages,
\* polls, elections and errors need not happen.
Fairness ==
    /\ WF_vars(Loop) /\ WF_vars(CallReturn) /\ WF_vars(Update)
    /\ WF_vars(Receiver) /\ WF_vars(SendPipe) /\ WF_vars(PushPipe) /\ WF_vars(SendLoop)

Spec == Init /\ [][Next]_vars /\ Fairness

-----------------------------------------------------------------------------
(* Properties *)

Count(b) == IF b THEN 1 ELSE 0

\* In how many places of the server a readable command is, or the reply to it.
Places ==
    Count(chan["req"] # <<>> /\ Head(chan["req"]).kind = "Command")
    + Len(chan["cmd"]) + Count(at = "commitCommand")
    + Count(\E i \in 1..Len(todo) : todo[i].to = "send")
    + Len(chan["send"]) + Len(chan["rep"])

\* While call() waits its command or the reply is in one place, of five goroutines
\* and their channels; otherwise in none.  So no call gets the reply of another.
OneReply == up => Places = Count(calling = "reply")

\* The wrapper is ready, whatever the first update was, only if the server can
\* take a command: before raft is set up, Leader() crashes it.
ReadyMeansRaft == ready => raft

\* What the wrapper shows never goes back to an older entry, though states are
\* pushed by commands, state changes and elections, and read later.
CacheMovesForward == [][cache'.entry >= cache.entry]_vars

\* The server is not down, no more errors than errChan holds, no exception in
\* the wrapper's thread.
Calm == []up /\ []listens /\ [](failed = {})

\* Then every command that the server can read is answered: no goroutine waits
\* for good for room in a channel.
CallReturns == Calm => (calling = "reply" ~> calling = "nothing")

\* Then the wrapper comes to show the entry that the FSM holds, although changes
\* that find the subscription full are not told.
CacheCatchesUp == Calm => <>[](cache.entry = live)

\* What the wrapper shows differs from an agreed entry only if a handler that had
\* validated its request changed that entry's object, and its Commit is under way,
\* failed or was skipped, or a newer entry is agreed: the main loop pushes the
\* object itself, which the pipe reads later.
ShownIsExplained ==
    cache.dirty => \/ cache.entry \in spoilt
                   \/ live > cache.entry
                   \/ live = cache.entry /\ at \in {"commitCommand", "commitRequest"}
=============================================================================
