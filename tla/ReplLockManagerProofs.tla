------------------------ MODULE ReplLockManagerProofs -----------------------
(***************************************************************************)
(* No two clients of the lock manager hold a lock at a time, and what      *)
(* acquireJob returns is still true of the newest agreed lock table.       *)
(*                                                                         *)
(* Exclusive speaks of the tables that two clients see, which may both be  *)
(* old.  The invariant that carries it is Keeps: a lock that was some      *)
(* client's after i agreed calls is still its own after any number j of    *)
(* calls, unless it released it or the time it can rely on is over.        *)
(***************************************************************************)
EXTENDS ReplLockManager, SequenceTheorems, TLAPS

-----------------------------------------------------------------------------
(* The invariant *)

\* A call that carries a time.
Stamped(p) == p.op # "release"

\* c releases l in one of the agreed calls after i up to j.
ReleasedIn(c, l, i, j) ==
    \E x \in 1..Len(log) : /\ i < x /\ x <= j
                           /\ log[x].call.op = "release"
                           /\ log[x].call.client = c /\ log[x].call.lock = l

\* After j calls l is still the lock c had after i calls, but for the Delay
\* between reading and using a clock, or c cannot rely on that lock any more.
Kept(c, l, i, j) ==
    \/ At(j)[l].client = c /\ At(j)[l].time >= At(i)[l].time - Delay
    \/ Clock(c) - At(i)[l].time > SafeTime

Keeps ==
    \A c \in Clients, l \in Locks : \A i, j \in 0..Len(log) :
        i <= j /\ At(i)[l].client = c /\ ~ReleasedIn(c, l, i, j) => Kept(c, l, i, j)

\* The tables are what the calls make of them.
Computed ==
    \A i \in 1..Len(log) : log[i].table = Run(At(i - 1), log[i].call)

\* The times in the tables are not in the future of the clocks they come from.
Past ==
    \A i \in 1..Len(log), l \in Locks, c \in Clients :
        log[i].table[l].client = c => log[i].table[l].time <= Clock(c)

\* The queued calls of c are its own; their times are not in the future, nor
\* further than Delay behind what it has queued before.
InOrder(c) ==
    \A x \in 1..Len(pending[c]) :
        /\ pending[c][x].client = c
        /\ Stamped(pending[c][x]) =>
              /\ pending[c][x].time <= Clock(c)
              /\ \A i \in 1..Len(log), l \in Locks :
                    log[i].table[l].client = c
                       => pending[c][x].time >= log[i].table[l].time - Delay
              /\ \A y \in 1..Len(pending[c]) :
                    y < x /\ Stamped(pending[c][y])
                       => pending[c][x].time >= pending[c][y].time - Delay

\* The call that acquireJob of c waits for.
IsAwaited(c, p) ==
    p.op = "acquire" /\ p.lock = main[c].lock /\ p.client = c /\ p.time = main[c].time

\* While acquireJob waits, only the prolonging thread queues other calls.
Waiting(c) ==
    /\ \A x \in 1..Len(pending[c]) :
          pending[c][x].waits =>
             /\ main[c].at \in {"acquiring", "releasing"} /\ main[c].answer = 0
             /\ main[c].at = "acquiring" => IsAwaited(c, pending[c][x])
             /\ \A y \in 1..Len(pending[c]) :
                   y > x => pending[c][y].op = "prolongate" /\ ~pending[c][y].waits
    /\ main[c].at = "acquiring" /\ main[c].answer > 0 =>
          /\ IsAwaited(c, log[main[c].answer].call)
          /\ \A x \in 1..Len(pending[c]) :
                pending[c][x].op = "prolongate" /\ ~pending[c][x].waits
          /\ \A j \in 1..Len(log) :
                j > main[c].answer /\ log[j].call.client = c => log[j].call.op # "release"

Inv ==
    /\ TypeOK /\ Keeps /\ Computed /\ Past
    /\ \A c \in Clients : InOrder(c) /\ Waiting(c)

-----------------------------------------------------------------------------
(* The replicated calls *)

LEMMA TimesInt == Times \subseteq Int /\ 0 \in Times /\ SafeTime \in Int
BY BoundsAssumption DEF Times, SafeTime

LEMMA FreeEntry == Free \in Entry
BY TimesInt DEF Free, Entry

\* A replicated call makes a lock table of a lock table.
LEMMA RunType ==
    ASSUME NEW tbl \in Table, NEW p \in Call
    PROVE  Run(tbl, p) \in Table
<1>1. p.client \in Clients /\ p.time \in Times
  BY DEF Call
<1>2. [client |-> p.client, time |-> p.time] \in Entry
  BY <1>1 DEF Entry
<1>3. CASE p.op = "prolongate"
  BY <1>2, <1>3, FreeEntry DEF Run, Prolongate, Table
<1>4. CASE p.op = "acquire"
  BY <1>2, <1>4 DEF Run, Acquire, Table
<1>5. CASE p.op = "release"
  BY <1>5, FreeEntry DEF Run, Release, Table
<1> QED BY <1>3, <1>4, <1>5 DEF Call

\* What a call leaves of the lock of c: it stays, with a newer time if the call
\* is c's own, or it had run out when the call was made.
LEMMA RunKeeps ==
    ASSUME NEW tbl \in Table, NEW p \in Call, NEW l \in Locks, NEW c \in Clients,
           tbl[l].client = c,
           ~(p.op = "release" /\ p.client = c /\ p.lock = l)
    PROVE  \/ Run(tbl, p)[l] = tbl[l]
           \/ /\ Stamped(p) /\ p.client = c
              /\ Run(tbl, p)[l] = [client |-> c, time |-> p.time]
           \/ Stamped(p) /\ p.time - tbl[l].time > T
<1>1. c # None
  BY NamesAssumption
<1>2. CASE p.op = "acquire"
  BY <1>1, <1>2 DEF Run, Acquire, Acquirable, RunOut, Table, Stamped
<1>3. CASE p.op = "prolongate"
  BY <1>1, <1>3 DEF Run, Prolongate, RunOut, Table, Stamped
<1>4. CASE p.op = "release"
  BY <1>1, <1>4 DEF Run, Release, Table, Stamped
<1> QED BY <1>2, <1>3, <1>4 DEF Call

\* Every entry after a call is an entry before it, free, or the caller's.
LEMMA RunEntries ==
    ASSUME NEW tbl \in Table, NEW p \in Call, NEW l \in Locks
    PROVE  \/ Run(tbl, p)[l] = tbl[l]
           \/ Run(tbl, p)[l] = Free
           \/ Stamped(p) /\ Run(tbl, p)[l] = [client |-> p.client, time |-> p.time]
<1>1. CASE p.op = "acquire"
  BY <1>1 DEF Run, Acquire, Table, Stamped
<1>2. CASE p.op = "prolongate"
  BY <1>2 DEF Run, Prolongate, Table, Stamped
<1>3. CASE p.op = "release"
  BY <1>3 DEF Run, Release, Table
<1> QED BY <1>1, <1>2, <1>3 DEF Call

-----------------------------------------------------------------------------
(* Types *)

LEMMA AtType ==
    ASSUME TypeOK, NEW i \in 0..Len(log)
    PROVE  At(i) \in Table
<1>1. CASE i = 0
  BY <1>1, FreeEntry DEF At, Table
<1>2. CASE i # 0
  <2>1. i \in 1..Len(log) /\ log \in Seq([call : Call, table : Table])
    BY <1>2 DEF TypeOK
  <2>2. log[i] \in [call : Call, table : Table]
    BY <2>1, ElementOfSeq
  <2> QED BY <1>2, <2>2 DEF At
<1> QED BY <1>1, <1>2

LEMMA MainType ==
    ASSUME NEW r \in Main
    PROVE  /\ r.answer \in Nat
           /\ r.at # "idle" => r.lock \in Locks /\ r.time \in Times
           /\ r.at # "idle" => r \in [at : {"acquiring", "releasing", "raised"}, lock : Locks,
                                      time : Times, answer : Nat]
BY DEF Main, Idle

LEMMA ClockType ==
    ASSUME TypeOK, NEW c \in Clients
    PROVE  /\ Clock(c) \in Times /\ Clock(c) \in Int /\ Clock(c) <= MaxClock + Skew
           /\ Clock(c) >= 0 /\ Stamps(c) \subseteq Times
           /\ \A d \in Clients : Clock(c) <= Clock(d) + Skew /\ Clock(d) \in Int
<1>1. now \in Int /\ 0 <= now /\ now <= MaxClock
  BY BoundsAssumption DEF TypeOK
<1>2. ASSUME NEW d \in Clients
      PROVE  Clock(d) \in Int /\ now <= Clock(d) /\ Clock(d) <= now + Skew
  <2>1. offset[d] \in 0..Skew
    BY DEF TypeOK
  <2> QED BY <1>1, <2>1, BoundsAssumption DEF Clock
<1>3. Clock(c) \in Int /\ now <= Clock(c) /\ Clock(c) <= now + Skew
  BY <1>2
<1>4. Clock(c) >= 0 /\ Clock(c) <= MaxClock + Skew
  BY <1>1, <1>3, BoundsAssumption
<1>5. Clock(c) \in Times
  BY <1>3, <1>4, BoundsAssumption DEF Times
<1>6. Stamps(c) \subseteq Times
  BY <1>3, <1>4, BoundsAssumption DEF Times, Stamps
<1>7. ASSUME NEW d \in Clients
      PROVE  Clock(c) <= Clock(d) + Skew
  <2>1. Clock(d) \in Int /\ now <= Clock(d)
    BY <1>2
  <2> QED BY <1>1, <1>3, <2>1, BoundsAssumption
<1> QED BY <1>2, <1>3, <1>4, <1>5, <1>6, <1>7

LEMMA InitInv == Init => Inv
<1> SUFFICES ASSUME Init PROVE Inv
  OBVIOUS
<1>1. TypeOK
  BY BoundsAssumption, TimesInt DEF Init, TypeOK, Main, Idle
<1>2. Keeps
  <2>1. Len(log) = 0
    BY DEF Init
  <2> SUFFICES ASSUME NEW c \in Clients, NEW l \in Locks, At(0)[l].client = c
               PROVE  FALSE
    BY <2>1 DEF Keeps
  <2> QED BY NamesAssumption DEF At, Free
<1>3. Computed /\ Past /\ \A c \in Clients : InOrder(c) /\ Waiting(c)
  BY DEF Init, Computed, Past, InOrder, Waiting, Idle
<1> QED BY <1>1, <1>2, <1>3 DEF Inv

\* A call that nobody waits for any more.
LEMMA NotWaiting ==
    ASSUME NEW p \in Call
    PROVE  /\ [p EXCEPT !.waits = FALSE] \in Call
           /\ [p EXCEPT !.waits = FALSE].op = p.op
           /\ [p EXCEPT !.waits = FALSE].lock = p.lock
           /\ [p EXCEPT !.waits = FALSE].client = p.client
           /\ [p EXCEPT !.waits = FALSE].time = p.time
           /\ ~[p EXCEPT !.waits = FALSE].waits
<1>1. CASE p \in [op : {"acquire", "release"}, lock : Locks, client : Clients,
                  time : Times, waits : BOOLEAN]
  BY <1>1 DEF Call
<1>2. CASE p \in [op : {"prolongate"}, lock : {None}, client : Clients, time : Times,
                  waits : {FALSE}]
  BY <1>2 DEF Call
<1> QED BY <1>1, <1>2 DEF Call

\* Queuing a call of the right type.
LEMMA QueueType ==
    ASSUME TypeOK, NEW c \in Clients, NEW op, NEW l, NEW t, NEW w, Queue(c, op, l, t, w),
           [op |-> op, lock |-> l, client |-> c, time |-> t, waits |-> w] \in Call
    PROVE  pending' \in [Clients -> Seq(Call)] /\ calls' \in 0..MaxCalls
BY BoundsAssumption DEF Queue, TypeOK

LEMMA ReplicationType ==
    ASSUME Inv, NEW c \in Clients, Replication(c)
    PROVE  TypeOK'
<1>0. TypeOK
  BY DEF Inv
<1>w. pending[c] # <<>> /\ Head(pending[c]).waits => main[c].at \in {"acquiring", "releasing"}
  <2>1. pending[c] \in Seq(Call)
    BY <1>0 DEF TypeOK
  <2>2. pending[c] # <<>> => 1 \in 1..Len(pending[c]) /\ Head(pending[c]) = pending[c][1]
    BY <2>1
  <2> QED BY <2>2 DEF Inv, Waiting
<1>1. CASE Agree(c)
  <2> DEFINE p == Head(pending[c])
  <2>1. pending[c] \in Seq(Call) /\ pending[c] # <<>>
    BY <1>0, <1>1 DEF TypeOK, Agree
  <2>2. p \in Call /\ Tail(pending[c]) \in Seq(Call)
    BY <2>1
  <2>3. Run(At(Len(log)), p) \in Table
    <3>1. Len(log) \in 0..Len(log)
      BY <1>0 DEF TypeOK
    <3> QED BY <1>0, <2>2, <3>1, AtType, RunType
  <2>4. log' \in Seq([call : Call, table : Table]) /\ Len(log') = Len(log) + 1
    BY <1>0, <1>1, <2>2, <2>3 DEF Agree, TypeOK
  <2>5. pending' \in [Clients -> Seq(Call)]
    BY <1>0, <1>1, <2>2 DEF Agree, TypeOK
  <2>6. /\ main' \in [Clients -> Main]
        /\ \A d \in Clients : main'[d].answer <= Len(log')
    <3>1. CASE p.waits
      <4>1. main[c] \in Main /\ main[c].at \in {"acquiring", "releasing"}
        BY <1>0, <1>w, <2>1, <3>1 DEF TypeOK
      <4>2. Len(log) + 1 \in Nat
        BY <1>0 DEF TypeOK
      <4>3. [main[c] EXCEPT !.answer = Len(log) + 1] \in Main
        BY <4>1, <4>2 DEF Main, Idle
      <4>4. main' = [main EXCEPT ![c] = [main[c] EXCEPT !.answer = Len(log) + 1]]
        BY <1>0, <1>1, <3>1 DEF Agree, TypeOK
      <4>5. [main[c] EXCEPT !.answer = Len(log) + 1].answer = Len(log) + 1
        BY <4>1 DEF Main, Idle
      <4>6. ASSUME NEW d \in Clients PROVE main'[d].answer <= Len(log')
        <5>1. CASE d = c
          BY <1>0, <2>4, <4>2, <4>4, <4>5, <5>1 DEF TypeOK
        <5>2. CASE d # c
          <6>1. main'[d] = main[d] /\ main[d].answer <= Len(log) /\ main[d] \in Main
            BY <1>0, <4>4, <5>2 DEF TypeOK
          <6>2. main[d].answer \in Nat /\ Len(log) \in Nat
            BY <1>0, <6>1, MainType DEF TypeOK
          <6> QED BY <2>4, <6>1, <6>2
        <5> QED BY <5>1, <5>2
      <4> QED BY <1>0, <4>3, <4>4, <4>6 DEF TypeOK
    <3>2. CASE ~p.waits
      <4>1. main' = main
        BY <1>1, <3>2 DEF Agree
      <4>2. ASSUME NEW d \in Clients PROVE main[d].answer <= Len(log) + 1
        BY <1>0 DEF TypeOK, Main, Idle
      <4> QED BY <1>0, <2>4, <4>1, <4>2 DEF TypeOK
    <3> QED BY <3>1, <3>2
  <2>7. applied' \in [Clients -> Nat] /\ \A d \in Clients : applied'[d] <= Len(log')
    BY <1>0, <1>1, <2>4 DEF Agree, TypeOK
  <2> QED BY <1>0, <1>1, <2>4, <2>5, <2>6, <2>7 DEF Agree, TypeOK
<1>2. CASE Lose(c)
  <2>1. pending[c] \in Seq(Call) /\ pending[c] # <<>>
    BY <1>0, <1>2 DEF TypeOK, Lose
  <2>2. Tail(pending[c]) \in Seq(Call)
    BY <2>1
  <2>3. main' \in [Clients -> Main] /\ \A d \in Clients : main'[d].answer <= Len(log)
    <3>1. CASE Head(pending[c]).waits
      <4>1. main[c] \in Main /\ main[c].at \in {"acquiring", "releasing"}
        BY <1>0, <1>w, <2>1, <3>1 DEF TypeOK
      <4>2. [main[c] EXCEPT !.at = "raised"] \in Main
        BY <4>1 DEF Main, Idle
      <4>3. main' = [main EXCEPT ![c] = [main[c] EXCEPT !.at = "raised"]]
        BY <1>0, <1>2, <3>1 DEF Lose, TypeOK
      <4>4. [main[c] EXCEPT !.at = "raised"].answer = main[c].answer
        BY <4>1 DEF Main, Idle
      <4>5. ASSUME NEW d \in Clients PROVE main'[d].answer <= Len(log)
        <5>1. CASE d = c
          BY <1>0, <4>3, <4>4, <5>1 DEF TypeOK
        <5>2. CASE d # c
          BY <1>0, <4>3, <5>2 DEF TypeOK
        <5> QED BY <5>1, <5>2
      <4> QED BY <1>0, <4>2, <4>3, <4>5 DEF TypeOK
    <3>2. CASE ~Head(pending[c]).waits
      BY <1>0, <1>2, <3>2 DEF Lose, TypeOK
    <3> QED BY <3>1, <3>2
  <2>4. pending' \in [Clients -> Seq(Call)]
    BY <1>0, <1>2, <2>2 DEF Lose, TypeOK
  <2> QED BY <1>0, <1>2, <2>3, <2>4 DEF Lose, TypeOK
<1>3. CASE Apply(c)
  BY <1>0, <1>3 DEF Apply, TypeOK
<1> QED BY <1>1, <1>2, <1>3 DEF Replication

LEMMA ClientType ==
    ASSUME TypeOK, NEW c \in Clients, Client(c)
    PROVE  TypeOK'
<1>0. Idle \in Main /\ Idle.answer = 0
  BY DEF Main, Idle
<1>1. CASE AutoProlong(c)
  <2>1. PICK t \in Stamps(c) : Queue(c, "prolongate", None, t, FALSE)
    BY <1>1 DEF AutoProlong
  <2>2. t \in Times
    BY ClockType
  <2>3. pending' \in [Clients -> Seq(Call)] /\ calls' \in 0..MaxCalls
    BY <2>1, <2>2, QueueType DEF Call
  <2>4. Clock(c) \in -T..(MaxClock + Skew)
    BY ClockType, BoundsAssumption
  <2> QED BY <1>1, <2>3, <2>4 DEF AutoProlong, TypeOK
<1>2. ASSUME NEW l \in Locks, AcquireJob(c, l) PROVE TypeOK'
  <2>1. PICK t \in Stamps(c) :
          /\ Queue(c, "acquire", l, t, TRUE)
          /\ main' = [main EXCEPT ![c] =
                [at |-> "acquiring", lock |-> l, time |-> t, answer |-> 0]]
    BY <1>2 DEF AcquireJob
  <2>2. t \in Times
    BY ClockType
  <2>3. pending' \in [Clients -> Seq(Call)] /\ calls' \in 0..MaxCalls
    BY <2>1, <2>2, QueueType DEF Call
  <2>4. [at |-> "acquiring", lock |-> l, time |-> t, answer |-> 0] \in Main
    BY <2>2 DEF Main
  <2>5. main' \in [Clients -> Main]
    BY <2>1, <2>4 DEF TypeOK
  <2>6. \A d \in Clients : main'[d].answer <= Len(log)
    BY <2>1 DEF TypeOK
  <2> QED BY <1>2, <2>3, <2>5, <2>6 DEF AcquireJob, TypeOK
<1>3. ASSUME NEW l \in Locks, ReleaseJob(c, l) PROVE TypeOK'
  <2>1. pending' \in [Clients -> Seq(Call)] /\ calls' \in 0..MaxCalls
    BY <1>3, TimesInt, QueueType DEF ReleaseJob, Call
  <2> QED BY <1>3, <2>1 DEF ReleaseJob, TypeOK
<1>4. CASE AcquireReturns(c)
  BY <1>0, <1>4 DEF AcquireReturns, Returns, TypeOK
<1>5. CASE ReleaseLate(c)
  <2>1. main[c] \in Main /\ main[c].at = "acquiring"
    BY <1>5 DEF TypeOK, ReleaseLate
  <2>2. main[c].lock \in Locks /\ [main[c] EXCEPT !.at = "releasing", !.answer = 0] \in Main
    <3>1. main[c] \in [at : {"acquiring", "releasing", "raised"}, lock : Locks,
                      time : Times, answer : Nat]
      BY <2>1, MainType
    <3> QED BY <3>1 DEF Main
  <2>3. pending' \in [Clients -> Seq(Call)] /\ calls' \in 0..MaxCalls
    BY <1>5, <2>2, TimesInt, QueueType DEF ReleaseLate, Call
  <2>4. /\ main' = [main EXCEPT ![c] = [main[c] EXCEPT !.at = "releasing", !.answer = 0]]
        /\ [main[c] EXCEPT !.at = "releasing", !.answer = 0].answer = 0
    BY <1>5, <2>1 DEF ReleaseLate, TypeOK, Main, Idle
  <2>5. main' \in [Clients -> Main]
    BY <2>2, <2>4 DEF TypeOK
  <2>6. \A d \in Clients : main'[d].answer <= Len(log)
    BY <2>4 DEF TypeOK
  <2> QED BY <1>5, <2>3, <2>5, <2>6 DEF ReleaseLate, TypeOK
<1>6. CASE LateReleased(c)
  BY <1>0, <1>6 DEF LateReleased, Returns, TypeOK
<1>7. CASE AcquireRaises(c)
  <2>1. pending[c] \in Seq(Call)
    BY DEF TypeOK
  <2> DEFINE s == [i \in DOMAIN pending[c] |-> [pending[c][i] EXCEPT !.waits = FALSE]]
  <2>2. s \in Seq(Call)
    <3>1. DOMAIN pending[c] = 1..Len(pending[c]) /\ Len(pending[c]) \in Nat
      BY <2>1
    <3>2. \A i \in 1..Len(pending[c]) : [pending[c][i] EXCEPT !.waits = FALSE] \in Call
      <4> SUFFICES ASSUME NEW i \in 1..Len(pending[c])
                   PROVE  [pending[c][i] EXCEPT !.waits = FALSE] \in Call
        OBVIOUS
      <4>1. pending[c][i] \in Call
        BY <2>1
      <4> QED BY <4>1, NotWaiting
    <3> QED BY <3>1, <3>2
  <2>3. pending' = [pending EXCEPT ![c] = s]
    BY <1>7 DEF AcquireRaises
  <2> QED BY <1>0, <1>7, <2>2, <2>3 DEF AcquireRaises, Returns, TypeOK
<1> QED BY <1>1, <1>2, <1>3, <1>4, <1>5, <1>6, <1>7 DEF Client

-----------------------------------------------------------------------------
(* Steps that agree nothing *)

\* Time only takes away what a client relies on.
LEMMA SameLog ==
    ASSUME Inv, TypeOK', log' = log, offset' = offset, now <= now'
    PROVE  Keeps' /\ Computed' /\ Past'
<1>0. TypeOK /\ Keeps /\ Computed /\ Past
  BY DEF Inv
<1>1. \A i : At(i)' = At(i)
  BY DEF At
<1>2. \A c \in Clients : Clock(c) \in Int /\ Clock(c)' \in Int /\ Clock(c) <= Clock(c)'
  BY <1>0, BoundsAssumption DEF TypeOK, Clock
<1>3. \A c, l, i, j : ReleasedIn(c, l, i, j)' <=> ReleasedIn(c, l, i, j)
  BY DEF ReleasedIn
<1>4. Keeps'
  <2> SUFFICES ASSUME NEW c \in Clients, NEW l \in Locks, NEW i \in 0..Len(log),
                      NEW j \in 0..Len(log), i <= j, At(i)[l].client = c,
                      ~ReleasedIn(c, l, i, j)
               PROVE  Kept(c, l, i, j)'
    BY <1>1, <1>3 DEF Keeps
  <2>1. Kept(c, l, i, j)
    BY <1>0 DEF Keeps
  <2>2. At(i)[l].time \in Int
    BY <1>0, AtType, TimesInt DEF Table, Entry
  <2> QED BY <1>1, <1>2, <2>1, <2>2, TimesInt DEF Kept, SafeTime
<1>5. Computed'
  BY <1>0, <1>1 DEF Computed
<1>6. Past'
  <2> SUFFICES ASSUME NEW i \in 1..Len(log), NEW l \in Locks, NEW c \in Clients,
                      log[i].table[l].client = c
               PROVE  log[i].table[l].time <= Clock(c)'
    BY DEF Past
  <2>1. log[i].table[l].time <= Clock(c)
    BY <1>0 DEF Past
  <2>2. log[i].table[l].time \in Int
    <3>1. i \in 0..Len(log) /\ At(i) = log[i].table
      BY <1>0 DEF At, TypeOK
    <3> QED BY <1>0, <3>1, AtType, TimesInt DEF Table, Entry
  <2> QED BY <1>2, <2>1, <2>2
<1> QED BY <1>4, <1>5, <1>6

\* A client whose queue stays the same keeps its order.
LEMMA SameQueue ==
    ASSUME Inv, TypeOK', log' = log, offset' = offset, now <= now',
           NEW c \in Clients, pending'[c] = pending[c]
    PROVE  InOrder(c)'
<1>0. TypeOK /\ InOrder(c)
  BY DEF Inv
<1>1. Clock(c) \in Int /\ Clock(c)' \in Int /\ Clock(c) <= Clock(c)'
  BY <1>0, BoundsAssumption DEF TypeOK, Clock
<1>2. \A x \in 1..Len(pending[c]) : pending[c][x].time \in Int
  <2> SUFFICES ASSUME NEW x \in 1..Len(pending[c]) PROVE pending[c][x].time \in Int
    OBVIOUS
  <2>1. pending[c][x] \in Call
    BY <1>0, ElementOfSeq DEF TypeOK
  <2> QED BY <2>1, TimesInt DEF Call
<1> QED BY <1>0, <1>1, <1>2 DEF InOrder

\* A client that a step does not touch waits for the same as before.
LEMMA SameWaiting ==
    ASSUME Inv, log' = log, NEW c \in Clients, pending'[c] = pending[c], main'[c] = main[c]
    PROVE  Waiting(c)'
BY DEF Inv, Waiting, IsAwaited

LEMMA TickInv == Inv /\ Tick => Inv'
<1> SUFFICES ASSUME Inv, Tick PROVE Inv'
  OBVIOUS
<1>0. TypeOK
  BY DEF Inv
<1>1. TypeOK'
  BY <1>0, BoundsAssumption DEF Tick, TypeOK
<1>2. log' = log /\ offset' = offset /\ now <= now' /\ UNCHANGED <<pending, main>>
  BY <1>0, BoundsAssumption DEF Tick, TypeOK
<1>3. Keeps' /\ Computed' /\ Past'
  BY <1>1, <1>2, SameLog
<1>4. \A c \in Clients : InOrder(c)' /\ Waiting(c)'
  BY <1>1, <1>2, SameQueue, SameWaiting
<1> QED BY <1>1, <1>3, <1>4 DEF Inv

\* Queuing a call keeps the order: its time was read not longer than Delay ago.
LEMMA QueueInOrder ==
    ASSUME Inv, TypeOK', log' = log, offset' = offset, now' = now,
           NEW c \in Clients, NEW op, NEW l, NEW t \in Times, NEW w, Queue(c, op, l, t, w),
           [op |-> op, lock |-> l, client |-> c, time |-> t, waits |-> w] \in Call,
           op # "release" => t \in Stamps(c)
    PROVE  InOrder(c)'
<1> DEFINE p == [op |-> op, lock |-> l, client |-> c, time |-> t, waits |-> w]
           n == Len(pending[c])
<1>0. TypeOK /\ InOrder(c) /\ Past
  BY DEF Inv
<1>1. pending[c] \in Seq(Call) /\ n \in Nat /\ pending'[c] = Append(pending[c], p)
  BY <1>0 DEF TypeOK, Queue
<1>2. /\ Len(pending'[c]) = n + 1 /\ pending'[c][n + 1] = p
      /\ \A x \in 1..n : pending'[c][x] = pending[c][x]
  BY <1>1
<1>3. Clock(c)' = Clock(c) /\ Clock(c) \in Int /\ t \in Int /\ Delay \in Int
  BY <1>0, ClockType, TimesInt, BoundsAssumption DEF Clock
<1>4. op # "release" => t <= Clock(c) /\ t >= Clock(c) - Delay
  BY <1>3 DEF Stamps
<1>5. \A x \in 1..n : pending[c][x].time \in Int
  <2> SUFFICES ASSUME NEW x \in 1..n PROVE pending[c][x].time \in Int
    OBVIOUS
  <2>1. pending[c][x] \in Call
    BY <1>1, ElementOfSeq
  <2> QED BY <2>1, TimesInt DEF Call
<1>6. \A i \in 1..Len(log), k \in Locks : log[i].table[k].time \in Int
  <2> SUFFICES ASSUME NEW i \in 1..Len(log), NEW k \in Locks PROVE log[i].table[k].time \in Int
    OBVIOUS
  <2>1. i \in 0..Len(log) /\ At(i) = log[i].table
    BY <1>0 DEF At, TypeOK
  <2> QED BY <1>0, <2>1, AtType, TimesInt DEF Table, Entry
<1> SUFFICES ASSUME NEW x \in 1..(n + 1)
             PROVE  /\ pending'[c][x].client = c
                    /\ Stamped(pending'[c][x]) =>
                          /\ pending'[c][x].time <= Clock(c)
                          /\ \A i \in 1..Len(log), k \in Locks :
                                log[i].table[k].client = c
                                   => pending'[c][x].time >= log[i].table[k].time - Delay
                          /\ \A y \in 1..(n + 1) :
                                y < x /\ Stamped(pending'[c][y])
                                   => pending'[c][x].time >= pending'[c][y].time - Delay
  BY <1>2, <1>3 DEF InOrder, Stamped
<1>7. CASE x \in 1..n
  <2>1. \A y \in 1..(n + 1) : y < x => y \in 1..n
    BY <1>1, <1>7
  <2> QED BY <1>0, <1>2, <1>7, <2>1 DEF InOrder
<1>8. CASE x = n + 1
  <2>1. pending'[c][x] = p /\ p.client = c /\ p.time = t /\ (Stamped(p) => op # "release")
    BY <1>2, <1>8 DEF Stamped
  <2>2. ASSUME Stamped(p), NEW i \in 1..Len(log), NEW k \in Locks, log[i].table[k].client = c
        PROVE  t >= log[i].table[k].time - Delay
    <3>1. log[i].table[k].time <= Clock(c)
      BY <1>0, <2>2 DEF Past
    <3> QED BY <1>3, <1>4, <1>6, <2>1, <2>2, <3>1
  <2>3. ASSUME Stamped(p), NEW y \in 1..(n + 1), y < x, Stamped(pending'[c][y])
        PROVE  t >= pending'[c][y].time - Delay
    <3>1. y \in 1..n
      BY <1>1, <1>8, <2>3
    <3>2. pending[c][y].time <= Clock(c) /\ pending'[c][y] = pending[c][y]
      BY <1>0, <1>2, <2>3, <3>1 DEF InOrder
    <3> QED BY <1>3, <1>4, <1>5, <2>1, <2>3, <3>1, <3>2
  <2> QED BY <1>4, <2>1, <2>2, <2>3
<1> QED BY <1>1, <1>7, <1>8

\* The queue of c after a call was queued.
LEMMA Queued ==
    ASSUME TypeOK, NEW c \in Clients, NEW op, NEW l, NEW t, NEW w, Queue(c, op, l, t, w)
    PROVE  /\ Len(pending[c]) \in Nat /\ Len(pending'[c]) = Len(pending[c]) + 1
           /\ \A x \in 1..Len(pending[c]) : pending'[c][x] = pending[c][x]
           /\ pending'[c][Len(pending[c]) + 1]
                 = [op |-> op, lock |-> l, client |-> c, time |-> t, waits |-> w]
           /\ \A d \in Clients : d # c => pending'[d] = pending[d]
           /\ \A x \in 1..Len(pending'[c]) :
                 x \in 1..Len(pending[c]) \/ x = Len(pending[c]) + 1
<1>1. pending[c] \in Seq(Call) /\ Len(pending[c]) \in Nat
  BY DEF TypeOK
<1>2. pending'[c] = Append(pending[c], [op |-> op, lock |-> l, client |-> c, time |-> t, waits |-> w])
  BY DEF TypeOK, Queue
<1>3. \A d \in Clients : d # c => pending'[d] = pending[d]
  BY DEF TypeOK, Queue
<1> QED BY <1>1, <1>2, <1>3

\* A client nobody waits at.
LEMMA NobodyWaits ==
    ASSUME NEW c \in Clients, Waiting(c),
           main[c].at \notin {"acquiring", "releasing"} \/ main[c].answer # 0
    PROVE  \A x \in 1..Len(pending[c]) : ~pending[c][x].waits
BY DEF Waiting

\* The main thread has returned, and none of its calls is awaited.
LEMMA IdleWaiting ==
    ASSUME NEW c \in Clients, main'[c] = Idle,
           \A x \in 1..Len(pending'[c]) : ~pending'[c][x].waits
    PROVE  Waiting(c)'
BY DEF Waiting, Idle

LEMMA AutoProlongInv ==
    ASSUME Inv, TypeOK', NEW c \in Clients, AutoProlong(c)
    PROVE  InOrder(c)' /\ Waiting(c)' /\ \A d \in Clients : d # c => pending'[d] = pending[d]
<1>0. TypeOK /\ Waiting(c)
  BY DEF Inv
<1>1. PICK t \in Stamps(c) : Queue(c, "prolongate", None, t, FALSE)
  BY DEF AutoProlong
<1>2. t \in Times
  BY <1>0, ClockType
<1>3. log' = log /\ offset' = offset /\ now' = now /\ main' = main
  BY DEF AutoProlong
<1>4. InOrder(c)'
  BY <1>1, <1>2, <1>3, QueueInOrder DEF Call
<1> DEFINE n == Len(pending[c])
<1>5. /\ n \in Nat /\ Len(pending'[c]) = n + 1
      /\ \A x \in 1..n : pending'[c][x] = pending[c][x]
      /\ pending'[c][n + 1].op = "prolongate" /\ ~pending'[c][n + 1].waits
      /\ \A x \in 1..(n + 1) : x \in 1..n \/ x = n + 1
  <2>1. pending[c] \in Seq(Call)
    BY <1>0 DEF TypeOK
  <2>2. pending'[c] = Append(pending[c],
          [op |-> "prolongate", lock |-> None, client |-> c, time |-> t, waits |-> FALSE])
    BY <1>0, <1>1 DEF Queue, TypeOK
  <2> QED BY <2>1, <2>2
<1>6. Waiting(c)'
  <2> HIDE DEF n
  <2>1. ASSUME NEW x \in 1..(n + 1), pending'[c][x].waits
        PROVE  /\ x \in 1..n /\ pending[c][x].waits
               /\ main'[c].at \in {"acquiring", "releasing"} /\ main'[c].answer = 0
               /\ main'[c].at = "acquiring" => IsAwaited(c, pending[c][x])'
    <3>1. x \in 1..n /\ pending[c][x].waits /\ pending'[c][x] = pending[c][x]
      BY <1>5, <2>1
    <3> QED BY <1>0, <1>3, <3>1 DEF Waiting, IsAwaited, n
  <2>2. ASSUME NEW x \in 1..(n + 1), pending'[c][x].waits, NEW y \in 1..(n + 1), y > x
        PROVE  pending'[c][y].op = "prolongate" /\ ~pending'[c][y].waits
    <3>1. CASE y \in 1..n
      <4>1. pending'[c][y] = pending[c][y]
        BY <1>5, <3>1
      <4> QED BY <1>0, <2>1, <2>2, <3>1, <4>1 DEF Waiting, n
    <3>2. CASE y = n + 1
      BY <1>5, <3>2
    <3> QED BY <1>5, <3>1, <3>2
  <2>3. ASSUME main'[c].at = "acquiring", main'[c].answer > 0
        PROVE  /\ IsAwaited(c, log[main[c].answer].call)'
               /\ \A x \in 1..(n + 1) :
                     pending'[c][x].op = "prolongate" /\ ~pending'[c][x].waits
               /\ \A j \in 1..Len(log') :
                     j > main'[c].answer /\ log'[j].call.client = c => log'[j].call.op # "release"
    <3>1. \A x \in 1..n : pending[c][x].op = "prolongate" /\ ~pending[c][x].waits
      BY <1>0, <1>3, <2>3 DEF Waiting, n
    <3>2. \A x \in 1..(n + 1) : pending'[c][x].op = "prolongate" /\ ~pending'[c][x].waits
      BY <1>5, <3>1
    <3> QED BY <1>0, <1>3, <2>3, <3>2 DEF Waiting, IsAwaited
  <2>4. Len(pending'[c]) = n + 1
    BY <1>5
  <2> QED BY <2>1, <2>2, <2>3, <2>4 DEF Waiting
<1> QED BY <1>0, <1>1, <1>4, <1>6, Queued

LEMMA AcquireJobInv ==
    ASSUME Inv, TypeOK', NEW c \in Clients, NEW l \in Locks, AcquireJob(c, l)
    PROVE  InOrder(c)' /\ Waiting(c)' /\ \A d \in Clients : d # c => pending'[d] = pending[d]
<1>0. TypeOK /\ Waiting(c) /\ main[c].at = "idle"
  BY DEF Inv, AcquireJob
<1>1. PICK t \in Stamps(c) :
        /\ Queue(c, "acquire", l, t, TRUE)
        /\ main' = [main EXCEPT ![c] =
              [at |-> "acquiring", lock |-> l, time |-> t, answer |-> 0]]
  BY DEF AcquireJob
<1>2. t \in Times
  BY <1>0, ClockType
<1>3. log' = log /\ offset' = offset /\ now' = now
  BY DEF AcquireJob
<1>4. InOrder(c)'
  BY <1>1, <1>2, <1>3, QueueInOrder DEF Call
<1> DEFINE n == Len(pending[c])
<1>5. /\ n \in Nat /\ Len(pending'[c]) = n + 1
      /\ \A x \in 1..n : pending'[c][x] = pending[c][x]
      /\ pending'[c][n + 1]
            = [op |-> "acquire", lock |-> l, client |-> c, time |-> t, waits |-> TRUE]
      /\ \A x \in 1..(n + 1) : x \in 1..n \/ x = n + 1
  <2>1. pending[c] \in Seq(Call)
    BY <1>0 DEF TypeOK
  <2>2. pending'[c] = Append(pending[c],
          [op |-> "acquire", lock |-> l, client |-> c, time |-> t, waits |-> TRUE])
    BY <1>0, <1>1 DEF Queue, TypeOK
  <2> QED BY <2>1, <2>2
<1>6. \A x \in 1..n : ~pending'[c][x].waits
  BY <1>0, <1>5, NobodyWaits
<1>7. main'[c] = [at |-> "acquiring", lock |-> l, time |-> t, answer |-> 0]
  BY <1>0, <1>1 DEF TypeOK
<1>8. /\ pending'[c][n + 1].op = "acquire" /\ pending'[c][n + 1].lock = main'[c].lock
      /\ pending'[c][n + 1].client = c /\ pending'[c][n + 1].time = main'[c].time
  BY <1>5, <1>7
<1>9. ASSUME NEW x \in 1..(n + 1), pending'[c][x].waits
      PROVE  x = n + 1 /\ \A y \in 1..(n + 1) : ~(y > x)
  BY <1>5, <1>6, <1>9
<1>10. Waiting(c)'
  BY <1>5, <1>7, <1>8, <1>9 DEF Waiting, IsAwaited
<1> QED BY <1>0, <1>1, <1>4, <1>10, Queued

LEMMA ReleaseJobInv ==
    ASSUME Inv, TypeOK', NEW c \in Clients, NEW l \in Locks, ReleaseJob(c, l)
    PROVE  InOrder(c)' /\ Waiting(c)' /\ \A d \in Clients : d # c => pending'[d] = pending[d]
<1>0. TypeOK /\ Waiting(c) /\ main[c].at = "idle" /\ main' = main
  BY DEF Inv, ReleaseJob
<1>1. Queue(c, "release", l, 0, FALSE) /\ log' = log /\ offset' = offset /\ now' = now
  BY DEF ReleaseJob
<1>2. InOrder(c)'
  BY <1>1, TimesInt, QueueInOrder DEF Call
<1> DEFINE n == Len(pending[c])
<1>3. /\ n \in Nat /\ Len(pending'[c]) = n + 1
      /\ \A x \in 1..n : pending'[c][x] = pending[c][x]
      /\ ~pending'[c][n + 1].waits
      /\ \A x \in 1..(n + 1) : x \in 1..n \/ x = n + 1
  <2>1. pending[c] \in Seq(Call)
    BY <1>0 DEF TypeOK
  <2>2. pending'[c] = Append(pending[c],
          [op |-> "release", lock |-> l, client |-> c, time |-> 0, waits |-> FALSE])
    BY <1>0, <1>1 DEF Queue, TypeOK
  <2> QED BY <2>1, <2>2
<1>4. \A x \in 1..n : ~pending[c][x].waits
  BY <1>0, NobodyWaits
<1>5. Waiting(c)'
  BY <1>0, <1>3, <1>4 DEF Waiting
<1> QED BY <1>0, <1>1, <1>2, <1>5, Queued

LEMMA ReleaseLateInv ==
    ASSUME Inv, TypeOK', NEW c \in Clients, ReleaseLate(c)
    PROVE  InOrder(c)' /\ Waiting(c)' /\ \A d \in Clients : d # c => pending'[d] = pending[d]
<1>0. TypeOK /\ Waiting(c) /\ main[c].at = "acquiring" /\ main[c].answer # 0
  BY DEF Inv, ReleaseLate, Answered
<1>1. /\ Queue(c, "release", main[c].lock, 0, TRUE)
      /\ log' = log /\ offset' = offset /\ now' = now
  BY DEF ReleaseLate
<1>2. main[c] \in Main /\ main[c].lock \in Locks
  BY <1>0, MainType DEF TypeOK
<1>3. InOrder(c)'
  BY <1>1, <1>2, TimesInt, QueueInOrder DEF Call
<1> DEFINE n == Len(pending[c])
<1>4. /\ n \in Nat /\ Len(pending'[c]) = n + 1
      /\ \A x \in 1..n : pending'[c][x] = pending[c][x]
      /\ \A x \in 1..(n + 1) : x \in 1..n \/ x = n + 1
  BY <1>0, <1>1, Queued
<1>5. \A x \in 1..n : ~pending'[c][x].waits
  BY <1>0, <1>4, NobodyWaits
<1>6. main'[c].at = "releasing" /\ main'[c].answer = 0
  <2>1. main[c] \in [at : {"acquiring", "releasing", "raised"}, lock : Locks,
                     time : Times, answer : Nat]
    BY <1>0, <1>2, MainType
  <2>2. main'[c] = [main[c] EXCEPT !.at = "releasing", !.answer = 0]
    BY <1>0 DEF ReleaseLate, TypeOK
  <2> QED BY <2>1, <2>2
<1>7. ASSUME NEW x \in 1..(n + 1), pending'[c][x].waits
      PROVE  x = n + 1 /\ \A y \in 1..(n + 1) : ~(y > x)
  BY <1>4, <1>5, <1>7
<1>8. Waiting(c)'
  BY <1>4, <1>6, <1>7 DEF Waiting
<1> QED BY <1>0, <1>1, <1>3, <1>8, Queued

LEMMA AcquireRaisesInv ==
    ASSUME Inv, TypeOK', NEW c \in Clients, AcquireRaises(c)
    PROVE  InOrder(c)' /\ Waiting(c)' /\ \A d \in Clients : d # c => pending'[d] = pending[d]
<1>0. TypeOK /\ InOrder(c) /\ pending[c] \in Seq(Call)
  BY DEF Inv, TypeOK
<1>1. log' = log /\ Clock(c)' = Clock(c)
  BY DEF AcquireRaises, Clock
<1>2. pending'[c] = [i \in 1..Len(pending[c]) |-> [pending[c][i] EXCEPT !.waits = FALSE]]
  BY <1>0 DEF AcquireRaises, TypeOK
<1>3. Len(pending[c]) \in Nat /\ Len(pending'[c]) = Len(pending[c])
  BY <1>0, <1>2
<1>4. ASSUME NEW x \in 1..Len(pending[c])
      PROVE  /\ pending'[c][x].op = pending[c][x].op
             /\ pending'[c][x].client = pending[c][x].client
             /\ pending'[c][x].time = pending[c][x].time
             /\ ~pending'[c][x].waits
  <2>1. pending[c][x] \in Call /\ pending'[c][x] = [pending[c][x] EXCEPT !.waits = FALSE]
    BY <1>0, <1>2, ElementOfSeq
  <2> QED BY <2>1, NotWaiting
<1>5. InOrder(c)'
  BY <1>0, <1>1, <1>3, <1>4 DEF InOrder, Stamped
<1>6. main'[c] = Idle
  BY <1>0 DEF AcquireRaises, Returns, TypeOK
<1>7. Waiting(c)'
  BY <1>3, <1>4, <1>6, IdleWaiting
<1>8. \A d \in Clients : d # c => pending'[d] = pending[d]
  BY <1>0 DEF AcquireRaises, TypeOK
<1> QED BY <1>5, <1>7, <1>8

\* acquireJob returns the answer it waited for.
LEMMA ReturnInv ==
    ASSUME Inv, TypeOK', NEW c \in Clients, AcquireReturns(c) \/ LateReleased(c)
    PROVE  InOrder(c)' /\ Waiting(c)' /\ \A d \in Clients : d # c => pending'[d] = pending[d]
<1>0. TypeOK /\ Waiting(c) /\ main[c].answer # 0
  BY DEF Inv, AcquireReturns, LateReleased, Answered
<1>1. log' = log /\ offset' = offset /\ now' = now /\ pending' = pending /\ main'[c] = Idle
  BY <1>0 DEF AcquireReturns, LateReleased, Returns, TypeOK
<1>2. now <= now'
  BY <1>0, <1>1, BoundsAssumption DEF TypeOK
<1>3. InOrder(c)'
  BY <1>1, <1>2, SameQueue
<1>4. Waiting(c)'
  BY <1>0, <1>1, NobodyWaits, IdleWaiting
<1> QED BY <1>1, <1>3, <1>4

LEMMA ClientInv ==
    ASSUME Inv, NEW c \in Clients, Client(c)
    PROVE  Inv'
<1>0. TypeOK /\ TypeOK'
  BY ClientType DEF Inv
<1>1. InOrder(c)' /\ Waiting(c)' /\ \A d \in Clients : d # c => pending'[d] = pending[d]
  BY <1>0, AutoProlongInv, AcquireJobInv, ReleaseJobInv, ReleaseLateInv, AcquireRaisesInv,
     ReturnInv DEF Client
<1>2. log' = log /\ offset' = offset /\ now' = now
  BY DEF Client, AutoProlong, AcquireJob, ReleaseJob, AcquireReturns, ReleaseLate, LateReleased,
         AcquireRaises
<1>3. \A d \in Clients : d # c => main'[d] = main[d]
  BY <1>0 DEF Client, AutoProlong, AcquireJob, ReleaseJob, AcquireReturns, ReleaseLate,
              LateReleased, AcquireRaises, Returns, TypeOK
<1>4. now <= now'
  BY <1>0, <1>2, BoundsAssumption DEF TypeOK
<1>5. Keeps' /\ Computed' /\ Past'
  BY <1>0, <1>2, <1>4, SameLog
<1>6. \A d \in Clients : InOrder(d)' /\ Waiting(d)'
  BY <1>0, <1>1, <1>2, <1>3, <1>4, SameQueue, SameWaiting
<1> QED BY <1>0, <1>5, <1>6 DEF Inv

-----------------------------------------------------------------------------
(* Replication *)

\* The queue of c without its first call.
LEMMA Dequeued ==
    ASSUME TypeOK, NEW c \in Clients, pending[c] # <<>>,
           pending' = [pending EXCEPT ![c] = Tail(@)]
    PROVE  /\ pending[c][1] \in Call /\ Head(pending[c]) = pending[c][1]
           /\ Len(pending[c]) \in Nat /\ 1 \in 1..Len(pending[c])
           /\ Len(pending'[c]) = Len(pending[c]) - 1
           /\ \A x \in 1..Len(pending'[c]) :
                 /\ pending'[c][x] = pending[c][x + 1] /\ x + 1 \in 1..Len(pending[c])
                 /\ x + 1 > 1 /\ pending[c][x + 1] \in Call
           /\ \A d \in Clients : d # c => pending'[d] = pending[d]
<1>1. pending[c] \in Seq(Call) /\ Len(pending[c]) \in Nat
  BY DEF TypeOK
<1>2. pending'[c] = Tail(pending[c]) /\ \A d \in Clients : d # c => pending'[d] = pending[d]
  BY DEF TypeOK
<1>3. 1 \in 1..Len(pending[c]) /\ Len(Tail(pending[c])) = Len(pending[c]) - 1
  BY <1>1
<1>4. pending[c][1] \in Call /\ Head(pending[c]) = pending[c][1]
  BY <1>1, <1>3, ElementOfSeq
<1>5. ASSUME NEW x \in 1..Len(pending'[c])
      PROVE  /\ pending'[c][x] = pending[c][x + 1] /\ x + 1 \in 1..Len(pending[c])
             /\ x + 1 > 1 /\ pending[c][x + 1] \in Call
  <2>0. x \in 1..(Len(pending[c]) - 1)
    BY <1>2, <1>3
  <2>1. x + 1 \in 1..Len(pending[c]) /\ x + 1 > 1
    BY <1>1, <2>0
  <2>2. pending[c][x + 1] \in Call
    BY <1>1, <2>1
  <2>3. x \in 1..Len(Tail(pending[c]))
    BY <1>2
  <2>4. Tail(pending[c])[x] = pending[c][x + 1]
    BY <1>1, <2>3, HeadTailProperties
  <2> QED BY <1>2, <2>1, <2>2, <2>4
<1> QED BY <1>1, <1>2, <1>3, <1>4, <1>5

LEMMA LoseInv ==
    ASSUME Inv, TypeOK', NEW c \in Clients, Lose(c)
    PROVE  Inv'
<1>0. TypeOK /\ InOrder(c) /\ Waiting(c) /\ pending[c] # <<>>
  BY DEF Inv, Lose
<1>1. /\ log' = log /\ offset' = offset /\ now' = now
      /\ pending' = [pending EXCEPT ![c] = Tail(@)]
  BY DEF Lose
<1>2. now <= now' /\ Clock(c)' = Clock(c)
  BY <1>0, <1>1, BoundsAssumption DEF TypeOK, Clock
<1> DEFINE n == Len(pending[c])
<1>3. /\ Head(pending[c]) = pending[c][1] /\ n \in Nat /\ 1 \in 1..n
      /\ Len(pending'[c]) = n - 1
      /\ \A x \in 1..(n - 1) : pending'[c][x] = pending[c][x + 1] /\ x + 1 \in 1..n /\ x + 1 > 1
      /\ \A d \in Clients : d # c => pending'[d] = pending[d]
  BY <1>0, <1>1, Dequeued
<1>4. \A d \in Clients : d # c => main'[d] = main[d]
  BY <1>0 DEF Lose, TypeOK
<1>5. InOrder(c)'
  BY <1>0, <1>1, <1>2, <1>3 DEF InOrder
<1>6. Waiting(c)'
  <2>1. CASE pending[c][1].waits
    <3>1. main'[c].at = "raised"
      <4>1. main[c].at \in {"acquiring", "releasing"} /\ main[c] \in Main
        BY <1>0, <1>3, <2>1 DEF Waiting, TypeOK
      <4>2. main[c] \in [at : {"acquiring", "releasing", "raised"}, lock : Locks,
                         time : Times, answer : Nat]
        BY <4>1, MainType
      <4>3. main'[c] = [main[c] EXCEPT !.at = "raised"]
        BY <1>0, <1>3, <2>1 DEF Lose, TypeOK
      <4> QED BY <4>2, <4>3
    <3>2. \A x \in 1..(n - 1) : ~pending'[c][x].waits
      BY <1>0, <1>3, <2>1 DEF Waiting
    <3> QED BY <1>3, <3>1, <3>2 DEF Waiting
  <2>2. CASE ~pending[c][1].waits
    <3>1. main' = main
      BY <1>3, <2>2 DEF Lose
    <3> QED BY <1>0, <1>1, <1>3, <3>1 DEF Waiting, IsAwaited
  <2> QED BY <2>1, <2>2
<1>7. Keeps' /\ Computed' /\ Past'
  BY <1>1, <1>2, SameLog
<1>8. \A d \in Clients : InOrder(d)' /\ Waiting(d)'
  BY <1>1, <1>2, <1>3, <1>4, <1>5, <1>6, SameQueue, SameWaiting
<1> QED BY <1>7, <1>8 DEF Inv

LEMMA ApplyInv ==
    ASSUME Inv, TypeOK', NEW c \in Clients, Apply(c)
    PROVE  Inv'
<1>1. log' = log /\ offset' = offset /\ now' = now /\ UNCHANGED <<pending, main>>
  BY DEF Apply
<1>2. now <= now'
  BY <1>1, BoundsAssumption DEF Inv, TypeOK
<1>3. Keeps' /\ Computed' /\ Past'
  BY <1>1, <1>2, SameLog
<1>4. \A d \in Clients : InOrder(d)' /\ Waiting(d)'
  BY <1>1, <1>2, SameQueue, SameWaiting
<1> QED BY <1>3, <1>4 DEF Inv

\* The log after a call was agreed.
LEMMA Agreed ==
    ASSUME TypeOK, TypeOK', NEW c \in Clients, Agree(c)
    PROVE  /\ Len(log) \in Nat /\ Len(log') = Len(log) + 1
           /\ \A i \in 1..Len(log) : log'[i] = log[i]
           /\ \A i \in 0..Len(log) : At(i)' = At(i)
           /\ log'[Len(log) + 1].call = pending[c][1]
           /\ log'[Len(log) + 1].table = Run(At(Len(log)), pending[c][1])
           /\ \A i \in 1..Len(log') : i \in 1..Len(log) \/ i = Len(log) + 1
           /\ \A i \in 0..Len(log') : i \in 0..Len(log) \/ i = Len(log) + 1
<1>1. pending[c] # <<>> /\ pending' = [pending EXCEPT ![c] = Tail(@)]
  BY DEF Agree
<1>2. Head(pending[c]) = pending[c][1]
  BY <1>1, Dequeued
<1>3. /\ log \in Seq([call : Call, table : Table]) /\ Len(log) \in Nat
      /\ log' = Append(log, [call |-> pending[c][1], table |-> Run(At(Len(log)), pending[c][1])])
  BY <1>2 DEF Agree, TypeOK
<1>4. /\ Len(log') = Len(log) + 1 /\ \A i \in 1..Len(log) : log'[i] = log[i]
      /\ log'[Len(log) + 1]
            = [call |-> pending[c][1], table |-> Run(At(Len(log)), pending[c][1])]
  BY <1>3
<1>5. \A i \in 0..Len(log) : At(i)' = At(i)
  BY <1>3, <1>4 DEF At
<1> QED BY <1>3, <1>4, <1>5

\* Who has a lock has it from a table of the log, where it is not free.
LEMMA Holder ==
    ASSUME TypeOK, NEW i \in 0..Len(log), NEW l \in Locks, NEW c \in Clients,
           At(i)[l].client = c
    PROVE  i \in 1..Len(log) /\ log[i].table = At(i) /\ At(i)[l].time \in Int
<1>1. i # 0
  BY NamesAssumption DEF At, Free
<1>2. At(i)[l].time \in Int
  BY AtType, TimesInt DEF Table, Entry
<1> QED BY <1>1, <1>2 DEF At, TypeOK

\* When a lock has run out on the clock of whoever calls, its holder cannot rely
\* on it any more on its own.
LEMMA OthersTime ==
    ASSUME NEW t \in Int, NEW e \in Int, NEW f \in Int, NEW a \in Int, NEW b \in Int,
           t <= a, a <= b + Skew, t - e > T, e >= f - Delay
    PROVE  b - f > SafeTime
BY BoundsAssumption DEF SafeTime

LEMMA AgreeKeeps ==
    ASSUME Inv, TypeOK', NEW c \in Clients, Agree(c)
    PROVE  Keeps'
<1> DEFINE p == pending[c][1]
           n == Len(log)
<1>0. TypeOK /\ Keeps /\ InOrder(c)
  BY DEF Inv
<1>1. /\ n \in Nat /\ Len(log') = n + 1
      /\ \A i \in 1..n : log'[i] = log[i]
      /\ \A i \in 0..n : At(i)' = At(i)
      /\ log'[n + 1].call = p
      /\ log'[n + 1].table = Run(At(n), p)
      /\ \A i \in 0..(n + 1) : i \in 0..n \/ i = n + 1
  BY <1>0, Agreed
<1>2. p \in Call /\ 1 \in 1..Len(pending[c])
  BY <1>0, Dequeued DEF Agree
<1>3. p.client = c /\ p.time \in Int /\ (Stamped(p) => p.time <= Clock(c))
  <2>1. p.time \in Int
    BY <1>2, TimesInt DEF Call
  <2> QED BY <1>0, <1>2, <2>1 DEF InOrder
<1>4. \A d \in Clients : Clock(d)' = Clock(d)
  BY DEF Agree, Clock
<1> SUFFICES ASSUME NEW d \in Clients, NEW l \in Locks, NEW i \in 0..(n + 1), NEW j \in 0..(n + 1),
                    i <= j, At(i)'[l].client = d, ~ReleasedIn(d, l, i, j)'
             PROVE  Kept(d, l, i, j)'
  BY <1>1 DEF Keeps
<1>5. CASE j \in 0..n
  <2>1. i \in 0..n /\ At(i)' = At(i) /\ At(j)' = At(j)
    BY <1>1, <1>5
  <2>2. ~ReleasedIn(d, l, i, j)
    BY <1>1, <1>5 DEF ReleasedIn
  <2>3. Kept(d, l, i, j)
    BY <1>0, <1>5, <2>1, <2>2 DEF Keeps
  <2> QED BY <1>4, <2>1, <2>3 DEF Kept
<1>6. CASE j = n + 1 /\ i = n + 1
  <2>1. At(i)'[l].time \in Int
    <3>1. i \in 0..Len(log')
      BY <1>1
    <3>2. At(i)' \in Table
      <4>1. log' \in Seq([call : Call, table : Table]) /\ i \in 1..Len(log')
        BY <1>1, <1>6 DEF TypeOK
      <4>2. log'[i] \in [call : Call, table : Table]
        BY <4>1, ElementOfSeq
      <4> QED BY <1>1, <1>6, <4>2 DEF At
    <3> QED BY <3>2, TimesInt DEF Table, Entry
  <2> QED BY <1>6, <2>1, BoundsAssumption DEF Kept
<1>7. CASE j = n + 1 /\ i \in 0..n
  <2>1. At(i)' = At(i) /\ At(j)' = Run(At(n), p)
    BY <1>1, <1>7 DEF At
  <2>2. n \in 0..n /\ i <= n
    BY <1>1, <1>7
  <2>3. ~ReleasedIn(d, l, i, n)
    BY <1>1, <1>7 DEF ReleasedIn
  <2>4. ~(p.op = "release" /\ p.client = d /\ p.lock = l)
    BY <1>1, <1>7, <2>2 DEF ReleasedIn
  <2>5. Kept(d, l, i, n)
    BY <1>0, <1>7, <2>1, <2>2, <2>3 DEF Keeps
  <2>6. i \in 1..n /\ log[i].table = At(i) /\ At(i)[l].time \in Int
    BY <1>0, <1>7, <2>1, Holder
  <2>7. CASE Clock(d) - At(i)[l].time > SafeTime
    BY <1>4, <2>1, <2>7 DEF Kept, SafeTime
  <2>8. CASE At(n)[l].client = d /\ At(n)[l].time >= At(i)[l].time - Delay
    <3>1. At(n) \in Table /\ At(n)[l].time \in Int
      BY <1>0, <2>2, <2>8, AtType, Holder
    <3>2. CASE Run(At(n), p)[l] = At(n)[l]
      BY <2>1, <2>8, <3>2 DEF Kept
    <3>3. CASE Stamped(p) /\ p.client = d /\ Run(At(n), p)[l] = [client |-> d, time |-> p.time]
      <4>1. p.time >= At(i)[l].time - Delay
        BY <1>0, <1>2, <1>3, <2>1, <2>6, <3>3 DEF InOrder
      <4> QED BY <2>1, <3>3, <4>1 DEF Kept
    <3>4. CASE Stamped(p) /\ p.time - At(n)[l].time > T
      <4>1. Clock(c) <= Clock(d) + Skew /\ Clock(c) \in Int /\ Clock(d) \in Int
        BY <1>0, ClockType
      <4>2. Clock(d) - At(i)[l].time > SafeTime
        BY <1>3, <2>6, <2>8, <3>1, <3>4, <4>1, OthersTime
      <4> QED BY <1>4, <2>1, <4>2 DEF Kept, SafeTime
    <3> QED BY <1>2, <2>4, <2>8, <3>1, <3>2, <3>3, <3>4, RunKeeps
  <2> QED BY <2>5, <2>7, <2>8 DEF Kept
<1> QED BY <1>1, <1>5, <1>6, <1>7

\* Whose the locks of the new table are: they are as before, or the caller's
\* with the time of its call.
LEMMA AgreeTable ==
    ASSUME Inv, TypeOK', NEW c \in Clients, Agree(c), NEW l \in Locks, NEW d \in Clients,
           log'[Len(log) + 1].table[l].client = d
    PROVE  \/ /\ Len(log) \in 1..Len(log)
              /\ log'[Len(log) + 1].table[l] = log[Len(log)].table[l]
           \/ /\ Stamped(pending[c][1]) /\ d = c
              /\ log'[Len(log) + 1].table[l].time = pending[c][1].time
<1> DEFINE p == pending[c][1]
           n == Len(log)
<1>0. TypeOK /\ InOrder(c)
  BY DEF Inv
<1>1. n \in Nat /\ log'[n + 1].table = Run(At(n), p)
  BY <1>0, Agreed
<1>2. p \in Call /\ p.client = c
  BY <1>0, Dequeued DEF Agree, InOrder
<1>3. n \in 0..n /\ At(n) \in Table
  BY <1>0, <1>1, AtType
<1>4. CASE Run(At(n), p)[l] = At(n)[l]
  BY <1>0, <1>1, <1>3, <1>4, Holder
<1>5. CASE Run(At(n), p)[l] = Free
  BY <1>1, <1>5, NamesAssumption DEF Free
<1>6. CASE Stamped(p) /\ Run(At(n), p)[l] = [client |-> p.client, time |-> p.time]
  BY <1>1, <1>2, <1>6
<1> QED BY <1>2, <1>3, <1>4, <1>5, <1>6, RunEntries

LEMMA AgreeComputed ==
    ASSUME Inv, TypeOK', NEW c \in Clients, Agree(c)
    PROVE  Computed' /\ Past'
<1> DEFINE p == pending[c][1]
           n == Len(log)
<1>0. TypeOK /\ Computed /\ Past /\ InOrder(c)
  BY DEF Inv
<1>1. /\ n \in Nat /\ Len(log') = n + 1
      /\ \A i \in 1..n : log'[i] = log[i]
      /\ \A i \in 0..n : At(i)' = At(i)
      /\ log'[n + 1].call = p
      /\ log'[n + 1].table = Run(At(n), p)
      /\ \A i \in 1..(n + 1) : i \in 1..n \/ i = n + 1
  BY <1>0, Agreed
<1>2. Computed'
  <2> SUFFICES ASSUME NEW i \in 1..(n + 1)
               PROVE  log'[i].table = Run(At(i - 1)', log'[i].call)
    BY <1>1 DEF Computed
  <2>1. i - 1 \in 0..n
    BY <1>1
  <2>2. At(i - 1)' = At(i - 1)
    BY <1>1, <2>1
  <2>3. CASE i \in 1..n
    BY <1>0, <1>1, <2>2, <2>3 DEF Computed
  <2>4. CASE i = n + 1
    <3>1. i - 1 = n
      BY <1>1, <2>4
    <3> QED BY <1>1, <2>2, <2>4, <3>1
  <2> QED BY <1>1, <2>3, <2>4
<1>3. \A d \in Clients : Clock(d)' = Clock(d)
  BY DEF Agree, Clock
<1>4. 1 \in 1..Len(pending[c])
  BY <1>0, Dequeued DEF Agree
<1>5. Past'
  <2> SUFFICES ASSUME NEW i \in 1..(n + 1), NEW l \in Locks, NEW d \in Clients,
                      log'[i].table[l].client = d
               PROVE  log'[i].table[l].time <= Clock(d)
    BY <1>1, <1>3 DEF Past
  <2>1. CASE i \in 1..n
    BY <1>0, <1>1, <2>1 DEF Past
  <2>2. CASE i = n + 1
    <3>1. CASE n \in 1..n /\ log'[n + 1].table[l] = log[n].table[l]
      BY <1>0, <2>2, <3>1 DEF Past
    <3>2. CASE Stamped(p) /\ d = c /\ log'[n + 1].table[l].time = p.time
      BY <1>0, <1>4, <2>2, <3>2 DEF InOrder
    <3> QED BY <2>2, <3>1, <3>2, AgreeTable
  <2> QED BY <1>1, <2>1, <2>2
<1> QED BY <1>2, <1>5

LEMMA AgreeInOrder ==
    ASSUME Inv, TypeOK', NEW c \in Clients, Agree(c), NEW d \in Clients
    PROVE  InOrder(d)'
<1> DEFINE p == pending[c][1]
           n == Len(log)
<1>0. TypeOK /\ InOrder(c) /\ InOrder(d)
  BY DEF Inv
<1>1. /\ n \in Nat /\ Len(log') = n + 1
      /\ \A i \in 1..n : log'[i] = log[i]
      /\ \A i \in 1..(n + 1) : i \in 1..n \/ i = n + 1
  BY <1>0, Agreed
<1>2. Clock(d)' = Clock(d)
  BY DEF Agree, Clock
<1>3. /\ 1 \in 1..Len(pending[c])
      /\ Len(pending'[c]) = Len(pending[c]) - 1 /\ Len(pending[c]) \in Nat
      /\ \A x \in 1..Len(pending'[c]) :
            pending'[c][x] = pending[c][x + 1] /\ x + 1 \in 1..Len(pending[c]) /\ x + 1 > 1
      /\ d # c => pending'[d] = pending[d]
  BY <1>0, Dequeued DEF Agree
<1>4. ASSUME NEW q, NEW l \in Locks, NEW i \in 1..(n + 1), log'[i].table[l].client = d,
             \A k \in 1..n : log[k].table[l].client = d => q >= log[k].table[l].time - Delay,
             Stamped(p) /\ d = c => q >= p.time - Delay
      PROVE  q >= log'[i].table[l].time - Delay
  <2>1. CASE i \in 1..n
    BY <1>1, <1>4, <2>1
  <2>2. CASE i = n + 1
    <3>1. CASE n \in 1..n /\ log'[n + 1].table[l] = log[n].table[l]
      BY <1>4, <2>2, <3>1
    <3>2. CASE Stamped(p) /\ d = c /\ log'[n + 1].table[l].time = p.time
      BY <1>4, <2>2, <3>2
    <3> QED BY <1>4, <2>2, <3>1, <3>2, AgreeTable
  <2> QED BY <1>1, <2>1, <2>2
<1>5. CASE d # c
  <2> SUFFICES ASSUME NEW x \in 1..Len(pending[d]), Stamped(pending[d][x]),
                      NEW i \in 1..(n + 1), NEW l \in Locks, log'[i].table[l].client = d
               PROVE  pending[d][x].time >= log'[i].table[l].time - Delay
    BY <1>0, <1>1, <1>2, <1>3, <1>5 DEF InOrder
  <2>1. \A k \in 1..n : log[k].table[l].client = d
           => pending[d][x].time >= log[k].table[l].time - Delay
    BY <1>0 DEF InOrder
  <2> QED BY <1>4, <1>5, <2>1
<1>6. CASE d = c
  <2>1. ASSUME NEW x \in 1..Len(pending'[c]), Stamped(pending'[c][x]),
               NEW i \in 1..(n + 1), NEW l \in Locks, log'[i].table[l].client = c
        PROVE  pending'[c][x].time >= log'[i].table[l].time - Delay
    <3>1. /\ pending'[c][x] = pending[c][x + 1] /\ x + 1 \in 1..Len(pending[c]) /\ 1 < x + 1
      BY <1>3
    <3>2. \A k \in 1..n : log[k].table[l].client = c
             => pending[c][x + 1].time >= log[k].table[l].time - Delay
      BY <1>0, <2>1, <3>1 DEF InOrder
    <3>3. Stamped(p) => pending[c][x + 1].time >= p.time - Delay
      BY <1>0, <1>3, <2>1, <3>1 DEF InOrder
    <3> QED BY <1>4, <1>6, <2>1, <3>1, <3>2, <3>3
  <2>2. ASSUME NEW x \in 1..Len(pending'[c])
        PROVE  /\ pending'[c][x].client = c
               /\ Stamped(pending'[c][x]) =>
                     /\ pending'[c][x].time <= Clock(c)
                     /\ \A y \in 1..Len(pending'[c]) :
                           y < x /\ Stamped(pending'[c][y])
                              => pending'[c][x].time >= pending'[c][y].time - Delay
    <3>1. \A y \in 1..Len(pending'[c]) : y < x => y + 1 < x + 1
      BY <1>3
    <3> QED BY <1>0, <1>3, <3>1 DEF InOrder
  <2> QED BY <1>1, <1>2, <1>6, <2>1, <2>2 DEF InOrder, Stamped
<1> QED BY <1>5, <1>6

LEMMA AgreeWaiting ==
    ASSUME Inv, TypeOK', NEW c \in Clients, Agree(c), NEW d \in Clients
    PROVE  Waiting(d)'
<1> DEFINE p == pending[c][1]
           n == Len(log)
<1>0. TypeOK /\ InOrder(c) /\ Waiting(c) /\ Waiting(d)
  BY DEF Inv
<1>1. /\ n \in Nat /\ Len(log') = n + 1
      /\ \A i \in 1..n : log'[i] = log[i]
      /\ log'[n + 1].call = p
      /\ \A i \in 1..(n + 1) : i \in 1..n \/ i = n + 1
  BY <1>0, Agreed
<1>2. /\ Head(pending[c]) = p /\ 1 \in 1..Len(pending[c])
      /\ \A x \in 1..Len(pending'[c]) :
            pending'[c][x] = pending[c][x + 1] /\ x + 1 \in 1..Len(pending[c]) /\ x + 1 > 1
      /\ d # c => pending'[d] = pending[d]
  BY <1>0, Dequeued DEF Agree
<1>3. p.client = c
  BY <1>0, <1>2 DEF InOrder
<1>4. main[d].answer \in Nat /\ main[d].answer <= n
  BY <1>0, MainType DEF TypeOK
<1>5. main[d].answer > 0 => main[d].answer \in 1..n
  BY <1>1, <1>4
<1>6. CASE d # c
  <2>1. main'[d] = main[d]
    BY <1>0, <1>6 DEF Agree, TypeOK
  <2>2. \A j \in 1..(n + 1) : log'[j].call.client = d => j \in 1..n
    BY <1>1, <1>3, <1>6
  <2> QED BY <1>0, <1>1, <1>2, <1>5, <1>6, <2>1, <2>2 DEF Waiting, IsAwaited
<1>7. CASE d = c /\ p.waits
  <2>1. /\ main[c].at \in {"acquiring", "releasing"}
        /\ main[c].at = "acquiring" => IsAwaited(c, p)
        /\ \A y \in 1..Len(pending[c]) : y > 1 => pending[c][y].op = "prolongate" /\ ~pending[c][y].waits
    BY <1>0, <1>2, <1>7 DEF Waiting
  <2>2. /\ main'[c].at = main[c].at /\ main'[c].lock = main[c].lock
        /\ main'[c].time = main[c].time /\ main'[c].answer = n + 1
    <3>1. main[c] \in [at : {"acquiring", "releasing", "raised"}, lock : Locks,
                       time : Times, answer : Nat]
      BY <1>0, <2>1, MainType DEF TypeOK
    <3>2. main'[c] = [main[c] EXCEPT !.answer = n + 1]
      BY <1>0, <1>2, <1>7 DEF Agree, TypeOK
    <3> QED BY <3>1, <3>2
  <2>3. \A x \in 1..Len(pending'[c]) : pending'[c][x].op = "prolongate" /\ ~pending'[c][x].waits
    BY <1>2, <2>1
  <2>4. \A j \in 1..(n + 1) : ~(j > n + 1)
    BY <1>1
  <2> QED BY <1>1, <1>7, <2>1, <2>2, <2>3, <2>4 DEF Waiting, IsAwaited
<1>8. CASE d = c /\ ~p.waits
  <2>1. main' = main
    BY <1>2, <1>8 DEF Agree
  <2>2. main[c].at = "acquiring" /\ main[c].answer > 0 => p.op = "prolongate"
    BY <1>0, <1>2 DEF Waiting
  <2>3. ASSUME NEW x \in 1..Len(pending'[c]), pending'[c][x].waits
        PROVE  /\ main[c].at \in {"acquiring", "releasing"} /\ main[c].answer = 0
               /\ main[c].at = "acquiring" => IsAwaited(c, pending'[c][x])
               /\ \A y \in 1..Len(pending'[c]) :
                     y > x => pending'[c][y].op = "prolongate" /\ ~pending'[c][y].waits
    <3>1. \A y \in 1..Len(pending'[c]) : y > x => y + 1 > x + 1
      OBVIOUS
    <3>2. pending[c][x + 1].waits /\ x + 1 \in 1..Len(pending[c])
      BY <1>2, <2>3
    <3>3. /\ main[c].at \in {"acquiring", "releasing"} /\ main[c].answer = 0
          /\ main[c].at = "acquiring" => IsAwaited(c, pending[c][x + 1])
          /\ \A y \in 1..Len(pending[c]) :
                y > x + 1 => pending[c][y].op = "prolongate" /\ ~pending[c][y].waits
      BY <1>0, <3>2 DEF Waiting
    <3>4. ASSUME NEW y \in 1..Len(pending'[c]), y > x
          PROVE  pending'[c][y].op = "prolongate" /\ ~pending'[c][y].waits
      BY <1>2, <3>1, <3>3, <3>4
    <3>5. pending'[c][x] = pending[c][x + 1]
      BY <1>2
    <3> QED BY <3>3, <3>4, <3>5
  <2>4. ASSUME main[c].at = "acquiring", main[c].answer > 0
        PROVE  /\ IsAwaited(c, log'[main[c].answer].call)
               /\ \A x \in 1..Len(pending'[c]) :
                     pending'[c][x].op = "prolongate" /\ ~pending'[c][x].waits
               /\ \A j \in 1..(n + 1) :
                     j > main[c].answer /\ log'[j].call.client = c
                        => log'[j].call.op # "release"
    <3>1. /\ IsAwaited(c, log[main[c].answer].call)
          /\ \A x \in 1..Len(pending[c]) :
                pending[c][x].op = "prolongate" /\ ~pending[c][x].waits
          /\ \A j \in 1..n :
                j > main[c].answer /\ log[j].call.client = c => log[j].call.op # "release"
      BY <1>0, <2>4 DEF Waiting
    <3>2. log'[main[c].answer] = log[main[c].answer]
      BY <1>1, <1>5, <1>8, <2>4
    <3>3. \A x \in 1..Len(pending'[c]) :
             pending'[c][x].op = "prolongate" /\ ~pending'[c][x].waits
      BY <1>2, <3>1
    <3>4. \A j \in 1..(n + 1) :
             j > main[c].answer /\ log'[j].call.client = c => log'[j].call.op # "release"
      BY <1>1, <2>2, <2>4, <3>1
    <3> QED BY <3>1, <3>2, <3>3, <3>4
  <2> QED BY <1>1, <1>8, <2>1, <2>3, <2>4 DEF Waiting, IsAwaited
<1> QED BY <1>6, <1>7, <1>8

LEMMA ReplicationInv ==
    ASSUME Inv, NEW c \in Clients, Replication(c)
    PROVE  Inv'
<1>1. TypeOK'
  BY ReplicationType
<1>2. CASE Agree(c)
  BY <1>1, <1>2, AgreeKeeps, AgreeComputed, AgreeInOrder, AgreeWaiting DEF Inv
<1>3. CASE Lose(c)
  BY <1>1, <1>3, LoseInv
<1>4. CASE Apply(c)
  BY <1>1, <1>4, ApplyInv
<1> QED BY <1>2, <1>3, <1>4 DEF Replication

LEMMA NextInv == Inv /\ [Next]_vars => Inv'
<1> SUFFICES ASSUME Inv, [Next]_vars PROVE Inv'
  OBVIOUS
<1>1. CASE Tick
  BY <1>1, TickInv
<1>2. CASE \E c \in Clients : Client(c) \/ Replication(c)
  BY <1>2, ClientInv, ReplicationInv
<1>3. CASE UNCHANGED vars
  <2>1. TypeOK'
    BY <1>3 DEF vars, Inv, TypeOK
  <2>2. log' = log /\ offset' = offset /\ now <= now' /\ UNCHANGED <<pending, main>>
    BY <1>3, BoundsAssumption DEF vars, Inv, TypeOK
  <2>3. Keeps' /\ Computed' /\ Past'
    BY <2>1, <2>2, SameLog
  <2>4. \A c \in Clients : InOrder(c)' /\ Waiting(c)'
    BY <2>1, <2>2, SameQueue, SameWaiting
  <2> QED BY <2>1, <2>3, <2>4 DEF Inv
<1> QED BY <1>1, <1>2, <1>3 DEF Next

-----------------------------------------------------------------------------
(* The theorems *)

\* The invariant holds whatever calls the clients make, lose and apply late.
THEOREM Invariance == Spec => []Inv
BY InitInv, NextInv, PTL DEF Spec

\* The variables of the lock managers keep their types: above all, no client
\* applies calls that were not agreed, and none waits for an answer beyond them.
THEOREM TypeCorrectness == Spec => []TypeOK
<1>1. Inv => TypeOK
  BY DEF Inv
<1> QED BY <1>1, Invariance, PTL

\* For any number of clients and locks, and clocks that are off by any Skew: no
\* two clients of CPReplLockManager hold the same lock at a time.
THEOREM Exclusion == Spec => []Exclusive
<1>1. Inv => Exclusive
  <2> SUFFICES ASSUME Inv, NEW l \in Locks, NEW c \in Clients, NEW d \in Clients,
                      HoldsSafely(c, l), HoldsSafely(d, l)
               PROVE  c = d
    BY DEF Exclusive
  <2>0. TypeOK /\ Keeps
    BY DEF Inv
  <2>1. ASSUME NEW a \in Clients, NEW b \in Clients, HoldsSafely(a, l), HoldsSafely(b, l),
               applied[a] <= applied[b]
        PROVE  a = b
    <3>1. applied[a] \in 0..Len(log) /\ applied[b] \in 0..Len(log)
      BY <2>0 DEF TypeOK
    <3>2. /\ At(applied[a])[l].client = a /\ Clock(a) - At(applied[a])[l].time < SafeTime
          /\ At(applied[b])[l].client = b
      BY <2>1 DEF HoldsSafely, IsAcquired
    <3>3. ~ReleasedIn(a, l, applied[a], applied[b])
      BY <2>1, <3>1 DEF HoldsSafely, Releasing, ReleasedIn
    <3>4. Kept(a, l, applied[a], applied[b])
      BY <2>0, <2>1, <3>1, <3>2, <3>3 DEF Keeps
    <3>5. At(applied[a])[l].time \in Int /\ Clock(a) \in Int /\ SafeTime \in Int
      BY <2>0, <3>1, <3>2, Holder, ClockType, TimesInt
    <3> QED BY <3>2, <3>4, <3>5 DEF Kept
  <2>2. applied[c] <= applied[d] \/ applied[d] <= applied[c]
    BY <2>0 DEF TypeOK
  <2> QED BY <2>1, <2>2
<1> QED BY <1>1, Invariance, PTL

\* Nobody takes a lock while the answer that it was granted is on its way to
\* acquireJob: the test for an answer that comes too late is strong enough.
THEOREM GrantIsReal == Spec => GrantedIsHeld
<1>1. ASSUME Inv, [Next]_vars, NEW c \in Clients,
             main[c].at = "acquiring", main'[c].at = "idle", result' = "granted"
      PROVE  At(Len(log))[main[c].lock].client = c
  <2> DEFINE k == main[c].answer
             l == main[c].lock
  <2>0. TypeOK /\ Keeps /\ Computed /\ Waiting(c)
    BY <1>1 DEF Inv
  <2>1. AcquireReturns(c)
    <3>1. main'[c] # main[c]
      BY <1>1
    <3>2. ASSUME NEW d \in Clients, AcquireReturns(d) PROVE d = c
      BY <2>0, <3>1, <3>2 DEF AcquireReturns, Returns, TypeOK
    <3>3. ~Tick /\ ~UNCHANGED vars
      BY <3>1 DEF Tick, vars
    <3>4. ASSUME NEW d \in Clients, Client(d) \/ Replication(d) PROVE AcquireReturns(d)
      BY <1>1, <3>4 DEF Client, Replication, AutoProlong, AcquireJob, ReleaseJob, ReleaseLate,
                        LateReleased, AcquireRaises, Returns, Agree, Lose, Apply
    <3> QED BY <1>1, <3>2, <3>3, <3>4 DEF Next
  <2>2. /\ k \in 1..applied[c] /\ applied[c] <= Len(log) /\ applied[c] \in Nat
        /\ main[c] \in Main /\ Len(log) \in Nat
    BY <2>0, <2>1 DEF AcquireReturns, Answered, TypeOK
  <2>3. k \in 1..Len(log) /\ k > 0 /\ l \in Locks /\ main[c].time \in Int
    <3>1. k \in 1..Len(log) /\ k > 0
      BY <2>2
    <3>2. l \in Locks /\ main[c].time \in Times
      BY <1>1, <2>2, MainType
    <3> QED BY <3>1, <3>2, TimesInt
  <2>4. Granted(c) /\ ~Late(c)
    BY <1>1, <2>1 DEF AcquireReturns, Returns
  <2>5. At(k)[l] = [client |-> c, time |-> main[c].time]
    <3>1. IsAwaited(c, log[k].call)
      BY <1>1, <2>0, <2>3 DEF Waiting
    <3>2. log[k].table = Run(At(k - 1), log[k].call)
      BY <2>0, <2>3 DEF Computed
    <3>3. k - 1 \in 0..Len(log)
      BY <2>2, <2>3
    <3>4. At(k - 1) \in Table
      BY <2>0, <3>3, AtType
    <3>5. Acquirable(At(k - 1)[l], log[k].call)
      BY <2>4 DEF Granted
    <3>6. Run(At(k - 1), log[k].call)[l] = [client |-> c, time |-> main[c].time]
      BY <2>3, <3>1, <3>4, <3>5 DEF Run, Acquire, IsAwaited, Table
    <3> QED BY <2>3, <3>2, <3>6 DEF At
  <2>6. ~ReleasedIn(c, l, k, Len(log))
    BY <1>1, <2>0, <2>3 DEF ReleasedIn, Waiting
  <2>7. k \in 0..Len(log) /\ Len(log) \in 0..Len(log) /\ k <= Len(log)
    BY <2>2, <2>3
  <2>8. Kept(c, l, k, Len(log))
    BY <2>0, <2>3, <2>5, <2>6, <2>7 DEF Keeps
  <2>9. ~(Clock(c) - main[c].time > SafeTime)
    <3>1. 2 * (Clock(c) - main[c].time) <= T
      BY <2>0, <2>3, <2>4, ClockType, BoundsAssumption DEF Late
    <3>2. Clock(c) \in Int
      BY <2>0, ClockType
    <3> QED BY <2>3, <3>1, <3>2, BoundsAssumption, MarginAssumption DEF SafeTime
  <2> QED BY <2>5, <2>8, <2>9 DEF Kept
<1>2. Inv /\ [Next]_vars =>
        [\A c \in Clients :
            main[c].at = "acquiring" /\ main'[c].at = "idle" /\ result' = "granted"
               => At(Len(log))[main[c].lock].client = c]_vars
  BY <1>1
<1> QED BY <1>2, Invariance, PTL DEF Spec, GrantedIsHeld
=============================================================================
