--------------------------- MODULE ReplLockManager --------------------------
(***************************************************************************)
(* CPReplLockManager (sync_objects.py): the job locks of the LAN queue,    *)
(* as acquireJob and releaseJob (lan_queue.py) use them.                   *)
(*                                                                         *)
(* Replication is pysyncobj's and external: the calls of a client are      *)
(* agreed in the order in which it queued them, or lost, and every client  *)
(* applies the agreed calls in the same order but at its own pace.  What   *)
(* a replicated call does is the same everywhere, so each entry of the log *)
(* carries the lock table after it.                                        *)
(*                                                                         *)
(* The times in the calls are read by the callers, on clocks that differ   *)
(* by up to Skew, and up to Delay before the call is queued: acquireJob    *)
(* and the thread that prolongs the locks do not wait for each other.      *)
(***************************************************************************)
EXTENDS Integers, Sequences

CONSTANTS
    Clients,      \* the peers; each has its own lock manager
    Locks,        \* lock ids (the jobs)
    None,         \* no client, no lock
    T,            \* autoUnlockTime
    Skew,         \* environment: how far the clocks are apart
    Delay,        \* environment: time from reading a clock to queuing the call
    MaxClock,     \* bound: the clock
    MaxCalls      \* bound: replicated calls

ASSUME NamesAssumption == None \notin Clients /\ None \notin Locks
ASSUME BoundsAssumption ==
    /\ T \in Nat /\ Skew \in Nat /\ Delay \in Nat /\ MaxClock \in Nat
    /\ MaxCalls \in Nat
\* The locks last 60 seconds: clocks and threads are off by less than half of it.
ASSUME MarginAssumption == 2 * (Skew + Delay) <= T

VARIABLES
    now,      \* real time
    offset,   \* offset[c]: how far the clock of c is ahead of it
    pending,  \* pending[c]: the calls c has queued
    log,      \* the agreed calls, each with the lock table after it
    applied,  \* applied[c]: how many of them c has applied
    last,     \* last[c]: __lastProlongateTime
    main,     \* main[c]: the call the main thread of c waits for, and the
              \* index at which it was agreed
    calls,    \* calls queued so far
    result    \* what acquireJob returned in the last step

vars == <<now, offset, pending, log, applied, last, main, calls, result>>

-----------------------------------------------------------------------------
(* Data *)

Times == -Delay..(MaxClock + Skew)
Entry == [client : Clients \cup {None}, time : Times]
Free  == [client |-> None, time |-> 0]
Table == [Locks -> Entry]
Call  == [op : {"acquire", "release"}, lock : Locks, client : Clients, time : Times,
          waits : BOOLEAN]
    \cup [op : {"prolongate"}, lock : {None}, client : Clients, time : Times,
          waits : {FALSE}]
Idle  == [at |-> "idle", lock |-> None, time |-> 0, answer |-> 0]
Main  == {Idle} \cup [at : {"acquiring", "releasing", "raised"}, lock : Locks,
                      time : Times, answer : Nat]

TypeOK ==
    /\ now \in 0..MaxClock
    /\ offset \in [Clients -> 0..Skew]
    /\ pending \in [Clients -> Seq(Call)]
    /\ log \in Seq([call : Call, table : Table])
    /\ applied \in [Clients -> Nat]
    /\ \A c \in Clients : applied[c] <= Len(log)
    /\ last \in [Clients -> -T..(MaxClock + Skew)]
    /\ main \in [Clients -> Main]
    /\ \A c \in Clients : main[c].answer <= Len(log)
    /\ calls \in 0..MaxCalls
    /\ result \in {"none", "granted", "refused"}

Clock(c) == now + offset[c]

\* The lock table after the first i agreed calls.
At(i) == IF i = 0 THEN [l \in Locks |-> Free] ELSE log[i].table

Init ==
    /\ now = 0
    /\ offset \in [Clients -> 0..Skew]
    /\ pending = [c \in Clients |-> <<>>]
    /\ log = <<>>
    /\ applied = [c \in Clients |-> 0]
    /\ last = [c \in Clients |-> -T]
    /\ main = [c \in Clients |-> Idle]
    /\ calls = 0
    /\ result = "none"

-----------------------------------------------------------------------------
(* _ReplLockManagerImpl: the replicated calls *)

\* A lock that was not prolonged for longer than T at the time t.
RunOut(e, t) == t - e.time > T

\* acquire returns True.
Acquirable(e, p) == e.client \in {None, p.client} \/ RunOut(e, p.time)

Acquire(tbl, p) ==
    IF Acquirable(tbl[p.lock], p)
    THEN [tbl EXCEPT ![p.lock] = [client |-> p.client, time |-> p.time]]
    ELSE tbl

\* Mutant: prolongate does not look whose lock it is.
ProlongateAny(tbl, p) ==
    [l \in Locks |->
        IF tbl[l].client = None \/ RunOut(tbl[l], p.time) THEN Free
        ELSE [client |-> p.client, time |-> p.time]]

\* prolongate also drops the locks of anybody that have run out.
Prolongate(tbl, p) ==
    [l \in Locks |->
        IF tbl[l].client = None \/ RunOut(tbl[l], p.time) THEN Free
        ELSE IF tbl[l].client = p.client THEN [client |-> p.client, time |-> p.time]
        ELSE tbl[l]]

Release(tbl, p) ==
    IF tbl[p.lock].client = p.client THEN [tbl EXCEPT ![p.lock] = Free] ELSE tbl

Run(tbl, p) ==
    IF p.op = "acquire" THEN Acquire(tbl, p)
    ELSE IF p.op = "prolongate" THEN Prolongate(tbl, p)
    ELSE Release(tbl, p)

\* isAcquired at a client that takes its locks to last for d.
IsAcquired(c, l, d) ==
    LET e == At(applied[c])[l] IN e.client = c /\ Clock(c) - e.time < d

-----------------------------------------------------------------------------
(* pysyncobj *)

Tick ==
    /\ now < MaxClock
    /\ now' = now + 1
    /\ result' = "none"
    /\ UNCHANGED <<offset, pending, log, applied, last, main, calls>>

\* Mutant: the caller is told an index that is one too large.
AgreeOffByOne(c) ==
    /\ pending[c] # <<>>
    /\ main' = IF Head(pending[c]).waits THEN [main EXCEPT ![c].answer = Len(log) + 2]
                                         ELSE main
    /\ log' = Append(log, [call  |-> Head(pending[c]),
                           table |-> Run(At(Len(log)), Head(pending[c]))])
    /\ pending' = [pending EXCEPT ![c] = Tail(@)]
    /\ result' = "none"
    /\ UNCHANGED <<now, offset, applied, last, calls>>

\* The oldest queued call of c is agreed.
Agree(c) ==
    /\ pending[c] # <<>>
    /\ main' = IF Head(pending[c]).waits THEN [main EXCEPT ![c].answer = Len(log) + 1]
                                         ELSE main
    /\ log' = Append(log, [call  |-> Head(pending[c]),
                           table |-> Run(At(Len(log)), Head(pending[c]))])
    /\ pending' = [pending EXCEPT ![c] = Tail(@)]
    /\ result' = "none"
    /\ UNCHANGED <<now, offset, applied, last, calls>>

\* The oldest queued call of c will never be agreed.
Lose(c) ==
    /\ pending[c] # <<>>
    /\ main' = IF Head(pending[c]).waits THEN [main EXCEPT ![c].at = "raised"] ELSE main
    /\ pending' = [pending EXCEPT ![c] = Tail(@)]
    /\ result' = "none"
    /\ UNCHANGED <<now, offset, log, applied, last, calls>>

Apply(c) ==
    /\ applied[c] < Len(log)
    /\ applied' = [applied EXCEPT ![c] = @ + 1]
    /\ result' = "none"
    /\ UNCHANGED <<now, offset, pending, log, last, main, calls>>

\* A call of c with the time t is queued; the main thread may wait for it.
Queue(c, op, l, t, waits) ==
    /\ calls < MaxCalls /\ calls' = calls + 1
    /\ pending' = [pending EXCEPT ![c] =
          Append(@, [op |-> op, lock |-> l, client |-> c, time |-> t, waits |-> waits])]

Stamps(c) == (Clock(c) - Delay)..Clock(c)

Answered(c) == main[c].answer \in 1..applied[c]

-----------------------------------------------------------------------------
(* CPReplLockManager and its callers in LANPrintQueueBase *)

\* _autoAcquireThread
AutoProlong(c) ==
    /\ 4 * (Clock(c) - last[c]) >= T
    /\ last' = [last EXCEPT ![c] = Clock(c)]
    /\ \E t \in Stamps(c) : Queue(c, "prolongate", None, t, FALSE)
    /\ result' = "none"
    /\ UNCHANGED <<now, offset, log, applied, main>>

\* acquireJob: tryAcquire queues acquire and waits.
AcquireJob(c, l) ==
    /\ main[c].at = "idle"
    /\ \E t \in Stamps(c) :
          /\ Queue(c, "acquire", l, t, TRUE)
          /\ main' = [main EXCEPT ![c] =
                [at |-> "acquiring", lock |-> l, time |-> t, answer |-> 0]]
    /\ result' = "none"
    /\ UNCHANGED <<now, offset, log, applied, last>>

Returns(c, res) ==
    /\ main' = [main EXCEPT ![c] = Idle]
    /\ result' = res

\* Did acquire return True?
Granted(c) ==
    LET i == main[c].answer IN Acquirable(At(i - 1)[main[c].lock], log[i].call)

\* Mutant: tryAcquire does not look at how long it waited.
LateNever(c) == FALSE

\* The answer took so long that the lock may run out too soon.
Late(c) == 2 * (Clock(c) - main[c].time) > T

\* tryAcquire has its answer in time: acquireJob returns it.
AcquireReturns(c) ==
    /\ main[c].at = "acquiring" /\ Answered(c)
    /\ ~(Granted(c) /\ Late(c))
    /\ Returns(c, IF Granted(c) THEN "granted" ELSE "refused")
    /\ UNCHANGED <<now, offset, pending, log, applied, last, calls>>

\* tryAcquire releases what it got too late, and waits for that.
ReleaseLate(c) ==
    /\ main[c].at = "acquiring" /\ Answered(c)
    /\ Granted(c) /\ Late(c)
    /\ Queue(c, "release", main[c].lock, 0, TRUE)
    /\ main' = [main EXCEPT ![c].at = "releasing", ![c].answer = 0]
    /\ result' = "none"
    /\ UNCHANGED <<now, offset, log, applied, last>>

LateReleased(c) ==
    /\ main[c].at = "releasing" /\ Answered(c)
    /\ Returns(c, "refused")
    /\ UNCHANGED <<now, offset, pending, log, applied, last, calls>>

\* SyncObjException: the call is lost, or acquire was not applied in time.  In
\* the second case it may be agreed later.
AcquireRaises(c) ==
    /\ main[c].at = "raised" \/ (main[c].at = "acquiring" /\ ~Answered(c))
    /\ pending' = [pending EXCEPT ![c] =
          [i \in DOMAIN @ |-> [@[i] EXCEPT !.waits = FALSE]]]
    /\ Returns(c, "refused")
    /\ UNCHANGED <<now, offset, log, applied, last, calls>>

\* releaseJob does not wait.
ReleaseJob(c, l) ==
    /\ main[c].at = "idle"
    /\ Queue(c, "release", l, 0, FALSE)
    /\ result' = "none"
    /\ UNCHANGED <<now, offset, log, applied, last, main>>

-----------------------------------------------------------------------------
Client(c) ==
    \/ AutoProlong(c)
    \/ \E l \in Locks : AcquireJob(c, l) \/ ReleaseJob(c, l)
    \/ AcquireReturns(c) \/ ReleaseLate(c) \/ LateReleased(c) \/ AcquireRaises(c)

Replication(c) == Agree(c) \/ Lose(c) \/ Apply(c)

Next == Tick \/ \E c \in Clients : Client(c) \/ Replication(c)

Spec == Init /\ [][Next]_vars

-----------------------------------------------------------------------------
(* Properties *)

\* c has released l, but has not yet applied that.
Releasing(c, l) ==
    \E i \in 1..Len(log) : /\ i > applied[c]
                           /\ log[i].call.op = "release"
                           /\ log[i].call.client = c
                           /\ log[i].call.lock = l

\* What clocks and threads can be off by is taken off the time a lock lasts.
SafeTime == T - Skew - Delay
HoldsSafely(c, l) == IsAcquired(c, l, SafeTime) /\ ~Releasing(c, l)

\* No two clients hold the same lock at a time, however far each of them is
\* behind, whatever calls are lost, and also when calls that timed out are
\* agreed later.
Exclusive ==
    \A l \in Locks : \A c, d \in Clients :
        HoldsSafely(c, l) /\ HoldsSafely(d, l) => c = d

\* When acquireJob returns True the lock is the caller's in the newest agreed
\* table too: nobody took it while the answer was on its way.
GrantedIsHeld ==
    [][\A c \in Clients :
          main[c].at = "acquiring" /\ main'[c].at = "idle" /\ result' = "granted"
              => At(Len(log))[main[c].lock].client = c]_vars
=============================================================================
