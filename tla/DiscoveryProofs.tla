--------------------------- MODULE DiscoveryProofs --------------------------
(***************************************************************************)
(* Discovery keeps the hosts whose pings arrive, gives the silent ones up  *)
(* in time, and tells the queue of both.                                   *)
(***************************************************************************)
EXTENDS Discovery, TLAPS

-----------------------------------------------------------------------------
(* The invariant *)

\* A process that does not run has nothing.
OffIsEmpty ==
    \A n \in Hosts : ~Listening(n) => ~started[n] /\ \A m \in Hosts : heard[n][m] = Never

\* How far ahead the next broadcast is.
NextIsNear == \A n \in Hosts : next[n] <= now + MaxWait

\* A host lists only others, and the next iteration of its loop comes before
\* one of them is silent for too long.
PruneIsNear ==
    \A n, m \in Hosts : heard[n][m] # Never =>
        /\ m # n
        /\ 0 <= heard[n][m] /\ now <= heard[n][m] + Ttl + MaxWait
        /\ next[n] <= heard[n][m] + Ttl + MaxWait

\* n has heard the last ping of m, or will read it now; m pings again before
\* MaxWait is over.
HeardLast(n, m) ==
    /\ startup[m] = now \/ now <= heard[n][m] + MaxWait
    /\ m \in inbox[n] \/ next[m] <= heard[n][m] + MaxWait

HeardLately ==
    \A n, m \in Hosts :
        heard[n][m] # Never /\ proc[m] = "spinning" /\ <<m, n>> \notin lost
            => HeardLast(n, m)

Inv ==
    /\ TypeOK /\ OffIsEmpty /\ NextIsNear /\ PruneIsNear /\ HeardLately
    /\ AskedIsKnown

-----------------------------------------------------------------------------
LEMMA Numbers ==
    /\ MaxWait \in Nat /\ Pd <= MaxWait /\ MaxWait <= Ttl /\ Never = -1
    /\ Pd \in Nat /\ Ttl \in Nat /\ MaxClock \in Nat /\ MaxStarts \in Nat /\ Never..MaxClock \subseteq Int
BY BoundsAssumption, TtlAssumption DEF MaxWait, Never

LEMMA InitInv == Init => Inv
<1> SUFFICES ASSUME Init PROVE Inv
  OBVIOUS
<1>1. TypeOK
  BY Numbers DEF Init, TypeOK
<1>2. \A n, m \in Hosts : heard[n][m] = Never
  BY DEF Init
<1>3. OffIsEmpty /\ NextIsNear /\ PruneIsNear /\ HeardLately /\ AskedIsKnown
  BY <1>2, Numbers DEF Init, OffIsEmpty, NextIsNear, PruneIsNear, HeardLately, AskedIsKnown
<1> QED BY <1>1, <1>3 DEF Inv

\* What reading a ping changes.
LEMMA Received ==
    ASSUME TypeOK, NEW n \in Hosts, Receive(n)
    PROVE  \E m \in inbox[n] :
              /\ m \in Hosts /\ inbox' = [inbox EXCEPT ![n] = inbox[n] \ {m}] /\ HandlePing(n, m)
              /\ UNCHANGED <<now, proc, startup, started, starts, around, forgot, lost>>
BY DEF Receive, TypeOK

LEMMA Times ==
    ASSUME TypeOK
    PROVE  /\ now \in Int /\ 0 <= now
           /\ \A n \in Hosts : next[n] \in Int /\ 0 <= next[n] /\ startup[n] \in Int
           /\ \A n, m \in Hosts : heard[n][m] \in Int
<1>1. now \in Int /\ 0 <= now
  BY Numbers DEF TypeOK
<1>2. \A n \in Hosts : next[n] \in Int /\ 0 <= next[n] /\ startup[n] \in Int
  BY Numbers DEF TypeOK
<1>3. \A n, m \in Hosts : heard[n][m] \in Never..MaxClock
  BY DEF TypeOK
<1> QED BY <1>1, <1>2, <1>3, Numbers

-----------------------------------------------------------------------------
(* Types *)

LEMMA GoneType ==
    ASSUME TypeOK, NEW n \in Hosts, Gone(n)
    PROVE  TypeOK'
<1>1. [m \in Hosts |-> Never] \in [Hosts -> Never..MaxClock] /\ 0 \in 0..MaxClock
  BY Numbers
<1>2. around' \in [Hosts -> SUBSET Hosts]
  BY DEF Gone, TypeOK
<1> QED BY <1>1, <1>2 DEF Gone, TypeOK

LEMMA ReceiveType ==
    ASSUME TypeOK, NEW n \in Hosts, Receive(n)
    PROVE  TypeOK'
<1>1. PICK m \in inbox[n] :
         /\ m \in Hosts /\ inbox' = [inbox EXCEPT ![n] = inbox[n] \ {m}] /\ HandlePing(n, m)
         /\ UNCHANGED <<now, proc, startup, started, starts, around, forgot, lost>>
  BY Received
<1>2. inbox' \in [Hosts -> SUBSET Hosts]
  BY <1>1 DEF TypeOK
<1>3. asked' \in [Hosts -> SUBSET Hosts] /\ next' \in [Hosts -> Nat]
  BY <1>1 DEF HandlePing, OnHostAdded, TypeOK
<1>4. heard' \in [Hosts -> [Hosts -> Never..MaxClock]]
  <2>1. now \in Never..MaxClock
    BY Numbers DEF TypeOK
  <2> QED BY <1>1, <2>1 DEF HandlePing, TypeOK
<1> QED BY <1>1, <1>2, <1>3, <1>4 DEF TypeOK

LEMMA SpinType ==
    ASSUME TypeOK, NEW n \in Hosts, Spin(n)
    PROVE  TypeOK'
<1>1. inbox' \in [Hosts -> SUBSET Hosts] /\ lost' \subseteq Lossy
  BY DEF Spin, Broadcast, TypeOK
<1>2. next' \in [Hosts -> Nat]
  <2>1. PICK t \in (now + Pd)..(now + MaxWait) : next' = [next EXCEPT ![n] = t]
    BY DEF Spin
  <2>2. t \in Nat
    BY Times, Numbers
  <2> QED BY <2>1, <2>2 DEF TypeOK
<1>3. heard' \in [Hosts -> [Hosts -> Never..MaxClock]]
  <2>1. Never \in Never..MaxClock
    BY Numbers
  <2> QED BY <2>1 DEF Spin, TypeOK
<1>4. started' \in [Hosts -> BOOLEAN]
  BY DEF Spin, TypeOK, CompletesStartup
<1>5. asked' \in [Hosts -> SUBSET Hosts]
  BY DEF Spin, TypeOK, OnStartupComplete, OnHostRemoved, Known
<1> QED BY <1>1, <1>2, <1>3, <1>4, <1>5 DEF Spin, TypeOK

LEMMA NextType ==
    ASSUME TypeOK, Next
    PROVE  TypeOK'
<1>1. CASE Tick
  BY <1>1, Numbers DEF Tick, TypeOK
<1>2. ASSUME NEW n \in Hosts, Start(n) PROVE TypeOK'
  BY <1>2, Numbers DEF Start, TypeOK
<1>3. ASSUME NEW n \in Hosts, Destroy(n) PROVE TypeOK'
  BY <1>3 DEF Destroy, TypeOK
<1>4. ASSUME NEW n \in Hosts, Crash(n) \/ SpinEnds(n) PROVE TypeOK'
  BY <1>4, GoneType DEF Crash, SpinEnds
<1> QED BY <1>1, <1>2, <1>3, <1>4, ReceiveType, SpinType DEF Next, Host

-----------------------------------------------------------------------------
(* Steps *)

LEMMA TickInv ==
    ASSUME Inv, TypeOK', Tick
    PROVE  Inv'
<1>0. TypeOK /\ OffIsEmpty /\ NextIsNear /\ PruneIsNear /\ HeardLately /\ AskedIsKnown
  BY DEF Inv
<1>1. /\ now' = now + 1 /\ UNCHANGED <<proc, startup, next, heard, inbox, started, asked, lost>>
      /\ \A n \in Hosts : Listening(n) => inbox[n] = {} /\ now < next[n]
  BY DEF Tick
<1>2. OffIsEmpty' /\ AskedIsKnown'
  BY <1>0, <1>1 DEF OffIsEmpty, AskedIsKnown, Listening, Known
<1>3. NextIsNear'
  <2> SUFFICES ASSUME NEW n \in Hosts PROVE next[n] <= now + 1 + MaxWait
    BY <1>1 DEF NextIsNear
  <2> QED BY <1>0, Times, Numbers DEF NextIsNear
<1>4. PruneIsNear'
  <2> SUFFICES ASSUME NEW n \in Hosts, NEW m \in Hosts, heard[n][m] # Never
               PROVE  /\ m # n
                      /\ 0 <= heard[n][m] /\ now + 1 <= heard[n][m] + Ttl + MaxWait
                      /\ next[n] <= heard[n][m] + Ttl + MaxWait
    BY <1>1 DEF PruneIsNear
  <2>1. now < next[n]
    BY <1>0, <1>1 DEF OffIsEmpty
  <2>2. m # n /\ 0 <= heard[n][m] /\ next[n] <= heard[n][m] + Ttl + MaxWait
    BY <1>0 DEF PruneIsNear
  <2> QED BY <1>0, <2>1, <2>2, Times, Numbers
<1>5. HeardLately'
  <2> SUFFICES ASSUME NEW n \in Hosts, NEW m \in Hosts, heard[n][m] # Never,
                      proc[m] = "spinning", <<m, n>> \notin lost
               PROVE  /\ now + 1 <= heard[n][m] + MaxWait
                      /\ next[m] <= heard[n][m] + MaxWait
    BY <1>1 DEF HeardLately, HeardLast
  <2>1. inbox[n] = {} /\ now < next[m]
    BY <1>0, <1>1 DEF OffIsEmpty, Listening
  <2>2. next[m] <= heard[n][m] + MaxWait
    BY <1>0, <2>1 DEF HeardLately, HeardLast
  <2> QED BY <1>0, <2>1, <2>2, Times, Numbers
<1> QED BY <1>2, <1>3, <1>4, <1>5 DEF Inv

LEMMA StartInv ==
    ASSUME Inv, TypeOK', NEW n \in Hosts, Start(n)
    PROVE  Inv'
<1>0. TypeOK /\ OffIsEmpty /\ NextIsNear /\ PruneIsNear /\ HeardLately /\ AskedIsKnown
  BY DEF Inv
<1>1. /\ proc' = [proc EXCEPT ![n] = "spinning"] /\ startup' = [startup EXCEPT ![n] = now]
      /\ next' = [next EXCEPT ![n] = 0] /\ UNCHANGED <<now, heard, inbox, started, asked, lost>>
  BY DEF Start
<1>2. /\ next'[n] = 0 /\ startup'[n] = now
      /\ \A m \in Hosts : m # n => next'[m] = next[m] /\ startup'[m] = startup[m] /\ proc'[m] = proc[m]
      /\ proc'[n] = "spinning"
  BY <1>0, <1>1 DEF TypeOK
<1>3. OffIsEmpty' /\ AskedIsKnown'
  BY <1>0, <1>1, <1>2 DEF OffIsEmpty, AskedIsKnown, Listening, Known
<1>4. NextIsNear'
  <2>1. 0 <= now + MaxWait
    BY <1>0, Times, Numbers
  <2> QED BY <1>0, <1>1, <1>2, <2>1 DEF NextIsNear
<1>5. \A m, k \in Hosts : heard[k][m] # Never => 0 <= heard[k][m] + MaxWait /\ 0 <= heard[k][m] + Ttl + MaxWait
  <2> SUFFICES ASSUME NEW m \in Hosts, NEW k \in Hosts, heard[k][m] # Never
               PROVE  0 <= heard[k][m] + MaxWait /\ 0 <= heard[k][m] + Ttl + MaxWait
    OBVIOUS
  <2>1. 0 <= heard[k][m] /\ heard[k][m] \in Int
    BY <1>0, Times DEF PruneIsNear
  <2> QED BY <2>1, Numbers
<1>6. PruneIsNear'
  BY <1>0, <1>1, <1>2, <1>5 DEF PruneIsNear
<1>7. HeardLately'
  <2> SUFFICES ASSUME NEW k \in Hosts, NEW m \in Hosts, heard[k][m] # Never,
                      proc'[m] = "spinning", <<m, k>> \notin lost
               PROVE  HeardLast(k, m)'
    BY <1>1 DEF HeardLately
  <2>1. CASE m = n
    BY <1>1, <1>2, <1>5, <2>1 DEF HeardLast
  <2>2. CASE m # n
    BY <1>0, <1>1, <1>2, <2>2 DEF HeardLast, HeardLately
  <2> QED BY <2>1, <2>2
<1> QED BY <1>3, <1>4, <1>6, <1>7 DEF Inv

LEMMA GoneInv ==
    ASSUME Inv, TypeOK', NEW n \in Hosts, Gone(n)
    PROVE  Inv'
<1>0. TypeOK /\ OffIsEmpty /\ NextIsNear /\ PruneIsNear /\ HeardLately /\ AskedIsKnown
  BY DEF Inv
<1>1. /\ now' = now /\ lost' = lost /\ proc'[n] = "off" /\ ~started'[n] /\ next'[n] = 0
      /\ \A m \in Hosts : heard'[n][m] = Never
  BY <1>0 DEF Gone, TypeOK
<1>2. \A m \in Hosts : m # n =>
         /\ proc'[m] = proc[m] /\ heard'[m] = heard[m] /\ inbox'[m] = inbox[m]
         /\ started'[m] = started[m] /\ asked'[m] = asked[m]
         /\ startup'[m] = startup[m] /\ next'[m] = next[m]
  BY <1>0 DEF Gone, TypeOK
<1>3. OffIsEmpty' /\ AskedIsKnown'
  BY <1>0, <1>1, <1>2 DEF OffIsEmpty, AskedIsKnown, Listening, Known
<1>4. NextIsNear'
  <2>1. 0 <= now + MaxWait
    BY <1>0, Times, Numbers
  <2> QED BY <1>0, <1>1, <1>2, <2>1 DEF NextIsNear
<1>5. PruneIsNear'
  BY <1>0, <1>1, <1>2 DEF PruneIsNear
<1>6. HeardLately'
  <2> SUFFICES ASSUME NEW k \in Hosts, NEW m \in Hosts, heard'[k][m] # Never,
                      proc'[m] = "spinning", <<m, k>> \notin lost
               PROVE  HeardLast(k, m)'
    BY <1>1 DEF HeardLately
  <2>1. k # n /\ m # n
    BY <1>1
  <2> QED BY <1>0, <1>1, <1>2, <2>1 DEF HeardLast, HeardLately
<1> QED BY <1>3, <1>4, <1>5, <1>6 DEF Inv

LEMMA DestroyInv ==
    ASSUME Inv, TypeOK', NEW n \in Hosts, Destroy(n)
    PROVE  Inv'
<1>0. TypeOK /\ OffIsEmpty /\ NextIsNear /\ PruneIsNear /\ HeardLately /\ AskedIsKnown
  BY DEF Inv
<1>1. UNCHANGED <<now, startup, next, heard, inbox, started, asked, lost>>
  BY DEF Destroy
<1>2. /\ proc[n] = "spinning" /\ proc'[n] = "ending"
      /\ \A m \in Hosts : m # n => proc'[m] = proc[m]
  BY <1>0 DEF Destroy, TypeOK
<1>3. OffIsEmpty' /\ AskedIsKnown'
  BY <1>0, <1>1, <1>2 DEF OffIsEmpty, AskedIsKnown, Listening, Known
<1>4. NextIsNear' /\ PruneIsNear'
  BY <1>0, <1>1 DEF NextIsNear, PruneIsNear
<1>5. HeardLately'
  BY <1>0, <1>1, <1>2 DEF HeardLately, HeardLast
<1> QED BY <1>3, <1>4, <1>5 DEF Inv

LEMMA ReceiveInv ==
    ASSUME Inv, TypeOK', NEW n \in Hosts, Receive(n)
    PROVE  Inv'
<1>0. TypeOK /\ OffIsEmpty /\ NextIsNear /\ PruneIsNear /\ HeardLately /\ AskedIsKnown
  BY DEF Inv
<1>1. PICK p \in inbox[n] :
         /\ p \in Hosts /\ inbox' = [inbox EXCEPT ![n] = inbox[n] \ {p}] /\ HandlePing(n, p)
         /\ UNCHANGED <<now, proc, startup, started, starts, around, forgot, lost>>
  BY <1>0, Received
<1>2. /\ Listening(n) /\ inbox'[n] = inbox[n] \ {p}
      /\ \A k \in Hosts : k # n => inbox'[k] = inbox[k]
  BY <1>0, <1>1 DEF Receive, TypeOK
<1>3. CASE p = n
  <2>1. UNCHANGED <<asked, next, heard>>
    BY <1>1, <1>3 DEF HandlePing
  <2>2. OffIsEmpty' /\ AskedIsKnown' /\ NextIsNear' /\ PruneIsNear'
    BY <1>0, <1>1, <2>1 DEF OffIsEmpty, AskedIsKnown, Listening, Known, NextIsNear, PruneIsNear
  <2>3. HeardLately'
    <3> SUFFICES ASSUME NEW k \in Hosts, NEW m \in Hosts, heard[k][m] # Never,
                        proc[m] = "spinning", <<m, k>> \notin lost
                 PROVE  HeardLast(k, m)'
      BY <1>1, <2>1 DEF HeardLately
    <3>1. HeardLast(k, m) /\ m # k
      BY <1>0 DEF HeardLately, PruneIsNear
    <3>2. m \in inbox[k] => m \in inbox'[k]
      BY <1>2, <1>3, <3>1
    <3> QED BY <1>1, <2>1, <3>1, <3>2 DEF HeardLast
  <2> QED BY <2>2, <2>3 DEF Inv
<1>4. CASE p # n
  <2>1. /\ heard'[n][p] = now
        /\ \A m \in Hosts : m # p => heard'[n][m] = heard[n][m]
        /\ \A k, m \in Hosts : k # n => heard'[k][m] = heard[k][m]
    BY <1>0, <1>1, <1>4 DEF HandlePing, TypeOK
  <2>2. /\ next'[n] = next[n] \/ next'[n] = 0
        /\ \A k \in Hosts : k # n => next'[k] = next[k] /\ asked'[k] = asked[k]
        /\ asked'[n] = IF p \in Known(n) THEN asked[n] ELSE OnHostAdded(n, p)
    BY <1>0, <1>1, <1>4 DEF HandlePing, TypeOK
  <2>3. now # Never /\ 0 <= now + MaxWait /\ 0 <= now
    BY <1>0, Times, Numbers
  <2>4. OffIsEmpty'
    BY <1>0, <1>1, <1>2, <2>1 DEF OffIsEmpty, Listening
  <2>5. AskedIsKnown'
    <3>1. Known(n)' = Known(n) \cup {p}
      BY <1>1, <2>1, <2>3 DEF Known
    <3>2. \A k \in Hosts : k # n => Known(k)' = Known(k)
      BY <2>1 DEF Known
    <3> QED BY <1>0, <1>1, <2>2, <3>1, <3>2 DEF AskedIsKnown, OnHostAdded
  <2>6. NextIsNear'
    BY <1>0, <1>1, <2>2, <2>3 DEF NextIsNear
  <2>7. PruneIsNear'
    <3> SUFFICES ASSUME NEW k \in Hosts, NEW m \in Hosts, heard'[k][m] # Never
                 PROVE  /\ m # k
                        /\ 0 <= heard'[k][m] /\ now <= heard'[k][m] + Ttl + MaxWait
                        /\ next'[k] <= heard'[k][m] + Ttl + MaxWait
      BY <1>1 DEF PruneIsNear
    <3>1. next[k] <= now + MaxWait /\ next'[k] \in Int /\ (next'[k] = next[k] \/ next'[k] = 0)
      BY <1>0, <2>2, Times, Numbers DEF NextIsNear
    <3>2. CASE k = n /\ m = p
      BY <1>0, <1>4, <2>1, <2>3, <3>1, <3>2, Times, Numbers
    <3>3. CASE ~(k = n /\ m = p)
      <4>1. heard'[k][m] = heard[k][m]
        BY <2>1, <3>3
      <4>2. /\ m # k /\ 0 <= heard[k][m] /\ now <= heard[k][m] + Ttl + MaxWait
            /\ next[k] <= heard[k][m] + Ttl + MaxWait
        BY <1>0, <4>1 DEF PruneIsNear
      <4> QED BY <1>0, <3>1, <4>1, <4>2, Times, Numbers
    <3> QED BY <3>2, <3>3
  <2>8. HeardLately'
    <3> SUFFICES ASSUME NEW k \in Hosts, NEW m \in Hosts, heard'[k][m] # Never,
                        proc[m] = "spinning", <<m, k>> \notin lost
                 PROVE  HeardLast(k, m)'
      BY <1>1 DEF HeardLately
    <3>1. next[m] <= now + MaxWait /\ (next'[m] = next[m] \/ next'[m] = 0)
      BY <1>0, <2>2 DEF NextIsNear
    <3>2. CASE k = n /\ m = p
      <4>1. next'[m] <= now + MaxWait /\ now <= now + MaxWait
        BY <1>0, <2>3, <3>1, Times, Numbers
      <4> QED BY <1>1, <2>1, <3>2, <4>1 DEF HeardLast
    <3>3. CASE ~(k = n /\ m = p)
      <4>1. heard'[k][m] = heard[k][m]
        BY <2>1, <3>3
      <4>2. HeardLast(k, m) /\ 0 <= heard[k][m]
        BY <1>0, <4>1 DEF HeardLately, PruneIsNear
      <4>3. m \in inbox[k] => m \in inbox'[k]
        BY <1>2, <3>3
      <4>4. 0 <= heard[k][m] + MaxWait
        BY <1>0, <4>2, Times, Numbers
      <4> QED BY <1>1, <3>1, <4>1, <4>2, <4>3, <4>4 DEF HeardLast
    <3> QED BY <3>2, <3>3
  <2> QED BY <2>4, <2>5, <2>6, <2>7, <2>8 DEF Inv
<1> QED BY <1>3, <1>4

LEMMA SpinInv ==
    ASSUME Inv, TypeOK', NEW n \in Hosts, Spin(n)
    PROVE  Inv'
<1>0. TypeOK /\ OffIsEmpty /\ NextIsNear /\ PruneIsNear /\ HeardLately /\ AskedIsKnown
  BY DEF Inv
<1>1. UNCHANGED <<now, proc, startup, starts, around, forgot>> /\ Listening(n)
  BY DEF Spin, Listening
<1>2. PICK t \in (now + Pd)..(now + MaxWait) : next' = [next EXCEPT ![n] = t]
  BY DEF Spin
<1>3. /\ next'[n] = t /\ t \in Int /\ t <= now + MaxWait
      /\ \A k \in Hosts : k # n => next'[k] = next[k]
  BY <1>0, <1>2, Times, Numbers DEF TypeOK
<1>4. /\ \A m \in Hosts : heard'[n][m] = IF m \in Expired(n) THEN Never ELSE heard[n][m]
      /\ \A k \in Hosts : k # n => heard'[k] = heard[k]
  BY <1>0 DEF Spin, TypeOK
<1>5. PICK missed \in SUBSET {m \in Hosts : Listening(m) /\ <<n, m>> \in Lossy} :
        /\ inbox' = [m \in Hosts |->
              IF Listening(m) /\ m \notin missed THEN inbox[m] \cup {n} ELSE inbox[m]]
        /\ lost' = lost \cup {<<n, m>> : m \in missed}
  BY DEF Spin, Broadcast
<1>6. OffIsEmpty'
  BY <1>0, <1>1, <1>4 DEF OffIsEmpty, Listening, Spin, TypeOK
<1>7. AskedIsKnown'
  <2>1. Known(n)' = Known(n) \ Expired(n)
    BY <1>4 DEF Known, Expired
  <2>2. \A k \in Hosts : k # n => Known(k)' = Known(k)
    BY <1>4 DEF Known
  <2>3. \A k \in Hosts : k # n => started'[k] = started[k] /\ asked'[k] = asked[k]
    BY <1>0 DEF Spin, TypeOK
  <2>4. started'[n] => asked'[n] = Known(n) \ Expired(n)
    <3>1. CASE CompletesStartup(n)
      BY <1>0, <3>1 DEF Spin, TypeOK, OnStartupComplete, OnHostRemoved
    <3>2. CASE ~CompletesStartup(n) /\ started[n]
      BY <1>0, <3>2 DEF Spin, TypeOK, OnHostRemoved, AskedIsKnown
    <3>3. CASE ~CompletesStartup(n) /\ ~started[n]
      BY <1>0, <3>3 DEF Spin, TypeOK
    <3> QED BY <3>1, <3>2, <3>3
  <2> QED BY <1>0, <2>1, <2>2, <2>3, <2>4 DEF AskedIsKnown
<1>8. NextIsNear'
  BY <1>0, <1>1, <1>3 DEF NextIsNear
<1>9. PruneIsNear'
  <2> SUFFICES ASSUME NEW k \in Hosts, NEW m \in Hosts, heard'[k][m] # Never
               PROVE  /\ m # k
                      /\ 0 <= heard'[k][m] /\ now <= heard'[k][m] + Ttl + MaxWait
                      /\ next'[k] <= heard'[k][m] + Ttl + MaxWait
    BY <1>1 DEF PruneIsNear
  <2>1. heard'[k][m] = heard[k][m]
    BY <1>4
  <2>2. /\ m # k /\ 0 <= heard[k][m] /\ now <= heard[k][m] + Ttl + MaxWait
        /\ next[k] <= heard[k][m] + Ttl + MaxWait
    BY <1>0, <2>1 DEF PruneIsNear
  <2>3. CASE k = n
    <3>1. ~(now > heard[n][m] + Ttl)
      BY <1>4, <2>1, <2>3 DEF Expired, Known
    <3>2. t <= heard[n][m] + Ttl + MaxWait
      BY <1>0, <1>3, <3>1, Times, Numbers
    <3> QED BY <1>3, <2>1, <2>2, <2>3, <3>2
  <2>4. CASE k # n
    BY <1>3, <2>1, <2>2, <2>4
  <2> QED BY <2>3, <2>4
<1>10. HeardLately'
  <2> SUFFICES ASSUME NEW k \in Hosts, NEW m \in Hosts, heard'[k][m] # Never,
                      proc[m] = "spinning", <<m, k>> \notin lost'
               PROVE  HeardLast(k, m)'
    BY <1>1 DEF HeardLately
  <2>1. heard'[k][m] = heard[k][m] /\ <<m, k>> \notin lost
    BY <1>4, <1>5
  <2>2. HeardLast(k, m)
    BY <1>0, <2>1 DEF HeardLately
  <2>3. CASE m = n
    <3>1. Listening(k)
      BY <1>0, <2>1 DEF OffIsEmpty
    <3>2. k \notin missed
      BY <1>5, <2>3
    <3>3. m \in inbox'[k]
      BY <1>5, <2>3, <3>1, <3>2
    <3> QED BY <1>1, <2>1, <2>2, <3>3 DEF HeardLast
  <2>4. CASE m # n
    <3>1. m \in inbox[k] => m \in inbox'[k]
      BY <1>5
    <3> QED BY <1>1, <1>3, <2>1, <2>2, <2>4, <3>1 DEF HeardLast
  <2> QED BY <2>3, <2>4
<1> QED BY <1>6, <1>7, <1>8, <1>9, <1>10 DEF Inv

LEMMA NextInv == Inv /\ [Next]_vars => Inv'
<1> SUFFICES ASSUME Inv, [Next]_vars PROVE Inv'
  OBVIOUS
<1>1. CASE Next
  <2>1. TypeOK'
    BY <1>1, NextType DEF Inv
  <2> QED BY <1>1, <2>1, TickInv, StartInv, GoneInv, DestroyInv, ReceiveInv, SpinInv
          DEF Next, Host, Crash, SpinEnds
<1>2. CASE UNCHANGED vars
  BY <1>2 DEF vars, Inv, TypeOK, OffIsEmpty, Listening, NextIsNear, PruneIsNear, HeardLately,
              HeardLast, AskedIsKnown, Known
<1> QED BY <1>1, <1>2

-----------------------------------------------------------------------------
(* The theorems *)

\* The invariant holds whatever hosts start, stop and lose.
THEOREM Invariance == Spec => []Inv
BY InitInv, NextInv, PTL DEF Spec

\* The variables of discovery keep their types.
THEOREM TypeCorrectness == Spec => []TypeOK
<1>1. Inv => TypeOK
  BY DEF Inv
<1> QED BY <1>1, Invariance, PTL

\* For any number of hosts and any times: the membership LANPrintQueue asks for
\* is what discovery knows, and nobody is known who was silent for longer than
\* the ttl and one period.
THEOREM MembershipFollows == Spec => [](AskedIsKnown /\ SilentIsForgotten)
<1>1. Inv => AskedIsKnown /\ SilentIsForgotten
  BY DEF Inv, PruneIsNear, SilentIsForgotten, Known
<1> QED BY <1>1, Invariance, PTL

\* In particular a silent host is given up in time on every peer, for any times.
THEOREM SilentHostsGo == Spec => []SilentIsForgotten
<1>1. AskedIsKnown /\ SilentIsForgotten => SilentIsForgotten
  OBVIOUS
<1> QED BY <1>1, MembershipFollows, PTL

\* _prune removes no running host whose pings arrive, as the ttl is not shorter
\* than the longest time between two pings.
THEOREM LiveHostsStay == Spec => LiveHostStays
<1>1. ASSUME Inv, [Next]_vars, NEW n \in Hosts, NEW m \in Hosts, Removes(n, m), <<m, n>> \notin lost,
             proc[m] = "spinning", startup[m] < now
      PROVE  FALSE
  <2>0. TypeOK /\ HeardLately
    BY <1>1 DEF Inv
  <2>1. heard[n][m] # Never /\ heard'[n][m] = Never /\ proc'[n] = "spinning"
    BY <1>1 DEF Removes
  <2>2. now <= heard[n][m] + MaxWait
    BY <1>1, <2>0, <2>1, Times DEF HeardLately, HeardLast
  <2>3. CASE Spin(n)
    <3>1. m \in Expired(n)
      BY <2>0, <2>1, <2>3 DEF Spin, TypeOK
    <3> QED BY <2>0, <2>2, <3>1, Times, Numbers DEF Expired
  <2>4. ASSUME NEW k \in Hosts, k # n, Spin(k) PROVE FALSE
    BY <2>0, <2>1, <2>4 DEF Spin, TypeOK
  <2>5. ASSUME NEW k \in Hosts, Receive(k) PROVE FALSE
    <3>1. PICK p \in inbox[k] : p \in Hosts /\ HandlePing(k, p)
      BY <2>0, <2>5, Received
    <3>2. now # Never
      BY <2>0, Times, Numbers
    <3> QED BY <2>0, <2>1, <3>1, <3>2 DEF HandlePing, TypeOK
  <2>6. ASSUME NEW k \in Hosts, Gone(k) PROVE FALSE
    BY <2>0, <2>1, <2>6 DEF Gone, TypeOK
  <2>7. ASSUME UNCHANGED heard PROVE FALSE
    BY <2>1, <2>7
  <2> QED BY <1>1, <2>3, <2>4, <2>5, <2>6, <2>7
          DEF Next, Host, Tick, Start, Crash, Destroy, SpinEnds, vars
<1>2. Inv /\ [Next]_vars =>
        [\A n, m \in Hosts :
            Removes(n, m) /\ <<m, n>> \notin lost
                => ~(proc[m] = "spinning" /\ startup[m] < now)]_vars
  BY <1>1
<1> QED BY <1>2, Invariance, PTL DEF Spec, LiveHostStays

-----------------------------------------------------------------------------
(* Start-up *)

\* Who was there when n began is still there and began no later; what n has
\* heard it heard since.
Since(n) ==
    /\ startup[n] <= now
    /\ \A m \in around[n] : m # n /\ proc[m] = "spinning" /\ startup[m] <= startup[n]
    /\ \A m \in Hosts : heard[n][m] # Never => startup[n] <= heard[n][m]

\* The first ping of n, the answer of m, and n that reads it: each of them is
\* due before time goes on.
Answering(n, m) ==
    \/ next[n] = 0 /\ n \notin Known(m)
    \/ n \in inbox[m] /\ n \notin Known(m)
    \/ next[m] = 0
    \/ m \in inbox[n]

Meets(n, m) == m \in Known(n) \/ (now = startup[n] /\ Answering(n, m))

Begins(n, m) ==
    proc[n] = "spinning" /\ ~started[n] /\ m \in around[n] \cap forgot[n] /\ Reliable(n, m)

MeetInv ==
    /\ \A n \in Hosts : Since(n)
    /\ \A n, m \in Hosts : Begins(n, m) => Meets(n, m)

\* Nobody is there.
LEMMA MeetInit == Init => MeetInv
<1> SUFFICES ASSUME Init PROVE MeetInv
  OBVIOUS
<1>1. \A n \in Hosts : /\ startup[n] = 0 /\ now = 0 /\ around[n] = {} /\ proc[n] = "off"
                       /\ \A m \in Hosts : heard[n][m] = Never
  BY DEF Init
<1> QED BY <1>1 DEF MeetInv, Since, Begins

\* Time goes on once everybody has read the answers.
LEMMA MeetTick ==
    ASSUME TypeOK, MeetInv, Tick
    PROVE  MeetInv'
<1>1. /\ now' = now + 1
      /\ UNCHANGED <<proc, startup, next, heard, inbox, started, around, forgot, lost>>
      /\ \A n \in Hosts : Listening(n) => inbox[n] = {} /\ now < next[n]
  BY DEF Tick
<1>2. \A n \in Hosts : Since(n)'
  <2> SUFFICES ASSUME NEW n \in Hosts PROVE Since(n)'
    OBVIOUS
  <2>1. startup[n] <= now + 1
    BY Times DEF MeetInv, Since
  <2> QED BY <1>1, <2>1 DEF MeetInv, Since
<1>3. ASSUME NEW n \in Hosts, NEW m \in Hosts, Begins(n, m)' PROVE Meets(n, m)'
  <2>1. Begins(n, m) /\ Meets(n, m)
    BY <1>1, <1>3 DEF Begins, Reliable, MeetInv
  <2>2. Listening(n) /\ Listening(m)
    BY <2>1 DEF Begins, MeetInv, Since, Listening
  <2>3. ~Answering(n, m)
    BY <1>1, <2>2, Times DEF Answering
  <2> QED BY <1>1, <2>1, <2>3 DEF Meets, Known
<1> QED BY <1>2, <1>3 DEF MeetInv

\* A host begins: its ping is due.
LEMMA MeetStart ==
    ASSUME TypeOK, OffIsEmpty, MeetInv, NEW k \in Hosts, Start(k)
    PROVE  MeetInv'
<1>1. /\ proc[k] = "off" /\ UNCHANGED <<now, heard, inbox, started, lost>>
      /\ proc'[k] = "spinning" /\ startup'[k] = now /\ next'[k] = 0
      /\ around'[k] = {m \in Hosts : proc[m] = "spinning"}
      /\ forgot'[k] = {m \in Hosts : k \notin Known(m)}
      /\ \A n \in Hosts : n # k => /\ proc'[n] = proc[n] /\ startup'[n] = startup[n]
                                   /\ next'[n] = next[n] /\ around'[n] = around[n]
                                   /\ forgot'[n] = forgot[n]
  BY DEF Start, TypeOK
<1>2. \A n \in Hosts : around[n] \subseteq Hosts
  BY DEF TypeOK
<1>3. ASSUME NEW n \in Hosts PROVE Since(n)'
  <2>1. CASE n = k
    <3>1. \A m \in Hosts : heard[k][m] = Never /\ startup[m] <= now
      BY <1>1 DEF OffIsEmpty, Listening, MeetInv, Since
    <3>2. startup'[k] <= now
      BY <1>1, Times
    <3> QED BY <1>1, <2>1, <3>1, <3>2 DEF Since
  <2>2. CASE n # k
    <3>1. k \notin around[n]
      BY <1>1 DEF MeetInv, Since
    <3> QED BY <1>1, <1>2, <2>2, <3>1 DEF MeetInv, Since
  <2> QED BY <2>1, <2>2
<1>4. ASSUME NEW n \in Hosts, NEW m \in Hosts, Begins(n, m)' PROVE Meets(n, m)'
  <2>1. Known(m)' = Known(m) /\ Known(n)' = Known(n)
    BY <1>1 DEF Known
  <2>2. CASE n = k
    BY <1>1, <1>4, <2>1, <2>2 DEF Begins, Meets, Answering
  <2>3. CASE n # k
    <3>1. m # k
      BY <1>1, <1>4, <2>3 DEF Begins, MeetInv, Since
    <3>2. Begins(n, m) /\ Meets(n, m)
      BY <1>1, <1>4, <2>3 DEF Begins, Reliable, MeetInv
    <3> QED BY <1>1, <2>1, <2>3, <3>1, <3>2 DEF Meets, Answering
  <2> QED BY <2>2, <2>3
<1> QED BY <1>3, <1>4 DEF MeetInv

\* A host ends: nobody meets it any more.
LEMMA MeetGone ==
    ASSUME TypeOK, MeetInv, NEW k \in Hosts, Gone(k)
    PROVE  MeetInv'
<1>1. /\ UNCHANGED <<now, lost>>
      /\ proc'[k] = "off" /\ startup'[k] = 0 /\ around'[k] = {}
      /\ \A m \in Hosts : heard'[k][m] = Never
      /\ \A n \in Hosts : n # k => /\ proc'[n] = proc[n] /\ startup'[n] = startup[n]
                                   /\ next'[n] = next[n] /\ around'[n] = around[n] \ {k}
                                   /\ forgot'[n] = forgot[n] /\ heard'[n] = heard[n]
                                   /\ inbox'[n] = inbox[n] /\ started'[n] = started[n]
  BY DEF Gone, TypeOK
<1>2. \A n \in Hosts : around[n] \subseteq Hosts
  BY DEF TypeOK
<1>3. ASSUME NEW n \in Hosts PROVE Since(n)'
  <2>1. CASE n = k
    BY <1>1, <2>1, Times DEF Since
  <2>2. CASE n # k
    BY <1>1, <1>2, <2>2 DEF MeetInv, Since
  <2> QED BY <2>1, <2>2
<1>4. ASSUME NEW n \in Hosts, NEW m \in Hosts, Begins(n, m)' PROVE Meets(n, m)'
  <2>1. n # k /\ m # k
    BY <1>1, <1>4 DEF Begins
  <2>2. Known(m)' = Known(m) /\ Known(n)' = Known(n)
    BY <1>1, <2>1 DEF Known
  <2>3. Begins(n, m) /\ Meets(n, m)
    BY <1>1, <1>4, <2>1 DEF Begins, Reliable, MeetInv
  <2> QED BY <1>1, <2>1, <2>2, <2>3 DEF Meets, Answering
<1> QED BY <1>3, <1>4 DEF MeetInv

\* destroy.
LEMMA MeetDestroy ==
    ASSUME TypeOK, MeetInv, NEW k \in Hosts, Destroy(k)
    PROVE  MeetInv'
<1>1. /\ UNCHANGED <<now, startup, next, heard, inbox, started, forgot, lost>>
      /\ proc'[k] = "ending"
      /\ \A n \in Hosts : around'[n] = around[n] \ {k} /\ (n # k => proc'[n] = proc[n])
  BY DEF Destroy, TypeOK
<1>2. \A n \in Hosts : around[n] \subseteq Hosts
  BY DEF TypeOK
<1>3. \A n \in Hosts : Since(n)'
  BY <1>1, <1>2 DEF MeetInv, Since
<1>4. ASSUME NEW n \in Hosts, NEW m \in Hosts, Begins(n, m)' PROVE Meets(n, m)'
  <2>1. n # k /\ Begins(n, m) /\ Meets(n, m)
    BY <1>1, <1>4 DEF Begins, Reliable, MeetInv
  <2> QED BY <1>1, <2>1 DEF Meets, Answering, Known
<1> QED BY <1>3, <1>4 DEF MeetInv

\* A ping is read: m answers n as a new host, or n reads the answer.
LEMMA MeetReceive ==
    ASSUME TypeOK, MeetInv, NEW k \in Hosts, Receive(k)
    PROVE  MeetInv'
<1>1. PICK p \in inbox[k] :
         /\ p \in Hosts /\ inbox' = [inbox EXCEPT ![k] = inbox[k] \ {p}] /\ HandlePing(k, p)
         /\ UNCHANGED <<now, proc, startup, started, starts, around, forgot, lost>>
  BY Received
<1>2. /\ now < next[k] /\ inbox'[k] = inbox[k] \ {p}
      /\ \A n \in Hosts : n # k => inbox'[n] = inbox[n]
  BY <1>1 DEF Receive, TypeOK
<1>3. /\ \A n \in Hosts : n # k => next'[n] = next[n] /\ Known(n)' = Known(n)
      /\ p = k => UNCHANGED <<next, heard>>
      /\ p # k => Known(k)' = Known(k) \cup {p}
      /\ p # k /\ p \notin Known(k) => next'[k] = 0
      /\ next'[k] = next[k] \/ next'[k] = 0
      /\ \A n, m \in Hosts : heard'[n][m] = heard[n][m] \/ (heard'[n][m] = now /\ n = k)
  <2>1. now # Never
    BY Times, Numbers
  <2>2. CASE p = k
    BY <1>1, <2>2 DEF HandlePing, Known
  <2>3. CASE p # k
    <3>1. heard' = [heard EXCEPT ![k][p] = now]
      BY <1>1, <2>3 DEF HandlePing
    <3>2. /\ heard'[k][p] = now
          /\ \A m \in Hosts : m # p => heard'[k][m] = heard[k][m]
          /\ \A n \in Hosts : n # k => heard'[n] = heard[n]
      BY <1>1, <3>1 DEF TypeOK
    <3>3. next' = [next EXCEPT ![k] = IF p \in Known(k) THEN next[k] ELSE 0]
      BY <1>1, <2>3 DEF HandlePing
    <3>4. /\ next'[k] = IF p \in Known(k) THEN next[k] ELSE 0
          /\ \A n \in Hosts : n # k => next'[n] = next[n]
      BY <3>3 DEF TypeOK
    <3>5. Known(k)' = Known(k) \cup {p}
      BY <1>1, <2>1, <3>2 DEF Known
    <3>6. \A n \in Hosts : n # k => Known(n)' = Known(n)
      BY <3>2 DEF Known
    <3>7. \A n, m \in Hosts : heard'[n][m] = heard[n][m] \/ (heard'[n][m] = now /\ n = k)
      BY <3>2
    <3> QED BY <2>3, <3>4, <3>5, <3>6, <3>7
  <2> QED BY <2>2, <2>3
<1>4. \A n \in Hosts : Since(n)'
  BY <1>1, <1>3 DEF MeetInv, Since
<1>5. ASSUME NEW n \in Hosts, NEW m \in Hosts, Begins(n, m)' PROVE Meets(n, m)'
  <2>1. Begins(n, m) /\ Meets(n, m) /\ m # n
    BY <1>1, <1>5 DEF Begins, Reliable, MeetInv, Since
  <2>2. now' = now /\ startup' = startup
    BY <1>1
  <2>3. next[k] # 0
    BY <1>2, Times
  <2>4. CASE m \in Known(n)
    <3>1. m \in Known(n)'
      BY <1>3, <2>4 DEF Known
    <3> QED BY <3>1 DEF Meets
  <2>5. CASE m \notin Known(n) /\ k # n /\ k # m
    <3>1. Known(m)' = Known(m) /\ next'[n] = next[n] /\ next'[m] = next[m]
          /\ inbox'[n] = inbox[n] /\ inbox'[m] = inbox[m]
      BY <1>2, <1>3, <2>5
    <3> QED BY <2>1, <2>2, <2>5, <3>1 DEF Meets, Answering
  <2>6. CASE m \notin Known(n) /\ k = n
    <3>1. Known(m)' = Known(m) /\ inbox'[m] = inbox[m] /\ next'[m] = next[m]
      BY <1>2, <1>3, <2>1, <2>6
    <3>2. CASE p = m
      BY <1>3, <2>1, <2>6, <3>2 DEF Meets
    <3>3. CASE p # m
      BY <1>2, <2>1, <2>2, <2>3, <2>6, <3>1, <3>3 DEF Meets, Answering
    <3> QED BY <3>2, <3>3
  <2>7. CASE m \notin Known(n) /\ k = m
    <3>1. next'[n] = next[n] /\ inbox'[n] = inbox[n]
      BY <1>2, <1>3, <2>1, <2>7
    <3>2. CASE p = n
      BY <1>3, <2>1, <2>2, <2>3, <2>7, <3>1, <3>2 DEF Meets, Answering
    <3>3. CASE p # n
      <4>1. n \notin Known(m) => n \notin Known(m)'
        BY <1>3, <2>7, <3>3 DEF Known
      <4> QED BY <1>2, <2>1, <2>2, <2>3, <2>7, <3>1, <3>3, <4>1 DEF Meets, Answering
    <3> QED BY <3>2, <3>3
  <2> QED BY <2>4, <2>5, <2>6, <2>7
<1> QED BY <1>4, <1>5 DEF MeetInv

\* Who was there when n began and pings is not pruned by it.
LEMMA MetIsKept ==
    ASSUME Inv, MeetInv, NEW n \in Hosts, NEW m \in Hosts, m \in around[n], <<m, n>> \notin lost,
           m \in Known(n)
    PROVE  m \notin Expired(n)
<1>0. TypeOK /\ HeardLately
  BY DEF Inv
<1>1. /\ proc[m] = "spinning" /\ startup[m] <= startup[n] /\ startup[n] <= heard[n][m]
      /\ heard[n][m] # Never
  BY DEF MeetInv, Since, Known
<1>2. startup[m] = now \/ now <= heard[n][m] + MaxWait
  BY <1>0, <1>1 DEF HeardLately, HeardLast
<1>3. ~(now > heard[n][m] + Ttl)
  BY <1>0, <1>1, <1>2, Times, Numbers
<1> QED BY <1>3 DEF Expired

\* An iteration of the loop: n pings for the first time, or m answers.
LEMMA MeetSpin ==
    ASSUME Inv, MeetInv, NEW k \in Hosts, Spin(k)
    PROVE  MeetInv'
<1>0. TypeOK
  BY DEF Inv
<1>1. /\ UNCHANGED <<now, proc, startup, around, forgot>>
      /\ \A n \in Hosts : n # k => started'[n] = started[n] /\ next'[n] = next[n]
      /\ started[k] => started'[k]
  BY <1>0 DEF Spin, TypeOK
<1>2. /\ \A m \in Hosts : heard'[k][m] = IF m \in Expired(k) THEN Never ELSE heard[k][m]
      /\ \A n \in Hosts : n # k => heard'[n] = heard[n]
  BY <1>0 DEF Spin, TypeOK
<1>3. PICK missed \in SUBSET {m \in Hosts : Listening(m) /\ <<k, m>> \in Lossy} :
        /\ inbox' = [m \in Hosts |->
              IF Listening(m) /\ m \notin missed THEN inbox[m] \cup {k} ELSE inbox[m]]
        /\ lost' = lost \cup {<<k, m>> : m \in missed}
  BY DEF Spin, Broadcast
<1>4. \A n \in Hosts : Since(n)'
  <2> SUFFICES ASSUME NEW n \in Hosts PROVE Since(n)'
    OBVIOUS
  <2>1. \A m \in Hosts : heard'[n][m] # Never => heard'[n][m] = heard[n][m]
    BY <1>2
  <2> QED BY <1>1, <2>1 DEF MeetInv, Since
<1>5. ASSUME NEW n \in Hosts, NEW m \in Hosts, Begins(n, m)' PROVE Meets(n, m)'
  <2>1. /\ Begins(n, m) /\ Meets(n, m) /\ m # n /\ m \in around[n] /\ <<m, n>> \notin lost
        /\ Listening(n) /\ Listening(m)
    BY <1>1, <1>3, <1>5 DEF Begins, Reliable, MeetInv, Since, Listening
  <2>2. \A q \in Hosts : inbox[q] \subseteq inbox'[q]
    BY <1>3
  <2>3. CASE m \in Known(n)
    <3>1. m \notin Expired(n)
      BY <2>1, <2>3, MetIsKept
    <3>2. m \in Known(n)'
      BY <1>2, <2>3, <3>1 DEF Known
    <3> QED BY <3>2 DEF Meets
  <2>4. CASE m \notin Known(n) /\ k = m
    <3>1. n \notin missed
      BY <1>3, <1>5, <2>4 DEF Begins, Reliable
    <3>2. m \in inbox'[n]
      BY <1>3, <2>1, <2>4, <3>1
    <3> QED BY <1>1, <2>1, <2>4, <3>2 DEF Meets, Answering
  <2>5. CASE m \notin Known(n) /\ k = n
    <3>1. m \notin missed
      BY <1>3, <1>5, <2>5 DEF Begins, Reliable
    <3>2. n \in inbox'[m] /\ next'[m] = next[m] /\ Known(m)' = Known(m)
      BY <1>1, <1>2, <1>3, <2>1, <2>5, <3>1 DEF Known
    <3> QED BY <1>1, <2>1, <2>2, <2>5, <3>2 DEF Meets, Answering
  <2>6. CASE m \notin Known(n) /\ k # n /\ k # m
    <3>1. next'[n] = next[n] /\ next'[m] = next[m] /\ Known(m)' = Known(m)
      BY <1>1, <1>2, <2>6 DEF Known
    <3> QED BY <1>1, <2>1, <2>2, <2>6, <3>1 DEF Meets, Answering
  <2> QED BY <2>3, <2>4, <2>5, <2>6
<1> QED BY <1>4, <1>5 DEF MeetInv

\* Every step keeps what is known of the hosts that meet.
LEMMA NextMeet == Inv /\ MeetInv /\ [Next]_vars => MeetInv'
<1> SUFFICES ASSUME Inv, MeetInv, [Next]_vars PROVE MeetInv'
  OBVIOUS
<1>0. TypeOK /\ OffIsEmpty
  BY DEF Inv
<1>1. CASE Next
  BY <1>0, <1>1, MeetTick, MeetStart, MeetGone, MeetDestroy, MeetReceive, MeetSpin
     DEF Next, Host, Crash, SpinEnds
<1>2. CASE UNCHANGED vars
  BY <1>2 DEF vars, MeetInv, Since, Begins, Reliable, Meets, Answering, Known
<1> QED BY <1>1, <1>2

\* A host completes start-up with all that were there when it began, had no entry
\* for it and lost no ping to or from it: the exchange is over before the first
\* moment at which _on_startup_complete can be called.
THEOREM StartupIsComplete == Spec => StartupKnowsAll
<1>1. ASSUME Inv, MeetInv, [Next]_vars, NEW n \in Hosts, NEW m \in Hosts,
             ~started[n], started'[n], m \in around[n] \cap forgot[n], Reliable(n, m)
      PROVE  m \in asked'[n]
  <2>0. TypeOK
    BY <1>1 DEF Inv
  <2>1. Spin(n)
    <3>1. ASSUME NEW k \in Hosts, k # n, Spin(k) PROVE FALSE
      BY <1>1, <2>0, <3>1 DEF Spin, TypeOK
    <3>2. ASSUME NEW k \in Hosts, Gone(k) PROVE FALSE
      BY <1>1, <2>0, <3>2 DEF Gone, TypeOK
    <3>3. ASSUME UNCHANGED started PROVE FALSE
      BY <1>1, <3>3
    <3> QED BY <1>1, <3>1, <3>2, <3>3
            DEF Next, Host, Tick, Start, Crash, Destroy, SpinEnds, Receive, vars
  <2>2. CompletesStartup(n)
    BY <1>1, <2>0, <2>1 DEF Spin, TypeOK
  <2>3. now # startup[n]
    <3>1. 2 * (now - startup[n]) > Pd
      BY <2>2 DEF CompletesStartup
    <3> QED BY <2>0, <3>1, Times, Numbers
  <2>4. m \in Known(n)
    BY <1>1, <2>1, <2>3 DEF MeetInv, Begins, Meets, Spin
  <2>5. m \notin Expired(n)
    BY <1>1, <2>4, MetIsKept DEF Reliable
  <2>6. asked'[n] = Known(n) \ Expired(n)
    BY <2>0, <2>1, <2>2 DEF Spin, TypeOK, OnStartupComplete, OnHostRemoved
  <2> QED BY <2>4, <2>5, <2>6
<1>2. Inv /\ MeetInv /\ [Next]_vars =>
        [\A n, m \in Hosts :
            ~started[n] /\ started'[n] /\ m \in around[n] \cap forgot[n] /\ Reliable(n, m)
                => m \in asked'[n]]_vars
  BY <1>1
<1> QED BY <1>2, Invariance, MeetInit, NextMeet, PTL DEF Spec, StartupKnowsAll
=============================================================================
