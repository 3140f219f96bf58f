--------------------------- MODULE StartupProofs ----------------------------
(***************************************************************************)
(* For any number of processes, key files, peers and bootstrap peers: a    *)
(* server is ready only after a connection and never by the DHT, it keeps  *)
(* the identity in its key files, and the registry lists it.               *)
(***************************************************************************)
EXTENDS Startup, FiniteSetTheorems, SequenceTheorems, TLAPS

-----------------------------------------------------------------------------
(* Discovery *)

\* Without New there is no goroutine; who notifies has connected, and whoever
\* heard of it heard of a connection; with the DHT the discovery goroutine never
\* waits for a notification.
DiscoveryInv ==
    /\ main = "off" => search = "start"
    /\ \A p \in D!Hosts : handling[p] = "notify" => p \in met
    /\ search = "heard" \/ main = "ready" => met # {}
    /\ method = "DHT" => search \in {"start", "bootstrap", "find", "range"} /\ main # "ready"

\* Discovery starts with nobody connected.
LEMMA DiscoveryInit ==
    ASSUME D!Init
    PROVE  D!TypeOK /\ DiscoveryInv
BY DEF D!Init, D!TypeOK, DiscoveryInv, D!Hosts

\* The start and the end of a process.
LEMMA DiscoveryEnds ==
    ASSUME D!TypeOK, DiscoveryInv, D!New \/ D!Stop
    PROVE  D!TypeOK' /\ DiscoveryInv'
<1>1. CASE D!New
  BY <1>1 DEF D!New, D!TypeOK, DiscoveryInv, D!Hosts
<1>2. CASE D!Stop
  BY <1>2 DEF D!Stop, D!TypeOK, DiscoveryInv, D!Hosts
<1> QED BY <1>1, <1>2

\* The main goroutine and the discovery goroutine.
LEMMA DiscoverySearch ==
    ASSUME D!TypeOK, DiscoveryInv, D!Await \/ D!Timeout \/ D!Search
    PROVE  D!TypeOK' /\ DiscoveryInv'
<1> USE DEF D!TypeOK, DiscoveryInv, D!Hosts, D!Runs
<1>1. CASE D!Await
  BY <1>1 DEF D!Await
<1>2. CASE D!Timeout
  BY <1>2 DEF D!Timeout
<1>3. CASE D!StartMDNS
  BY <1>3 DEF D!StartMDNS
<1>4. CASE D!StartDHT
  BY <1>4 DEF D!StartDHT
<1>5. CASE D!InitDHT
  BY <1>5 DEF D!InitDHT
<1>6. CASE D!FindPeers
  BY <1>6 DEF D!FindPeers
<1>7. CASE D!RangePeers
  BY <1>7 DEF D!RangePeers
<1>8. CASE D!NotifyOnReady
  BY <1>8 DEF D!NotifyOnReady
<1> QED BY <1>1, <1>2, <1>3, <1>4, <1>5, <1>6, <1>7, <1>8 DEF D!Search

\* HandlePeerFound, MDNS and the bootstrap peers.
LEMMA DiscoveryPeers ==
    ASSUME D!TypeOK, DiscoveryInv,
           \/ \E p \in D!Hosts : D!HandlePeerFound(p) \/ D!FoundMDNS(p)
           \/ \E b \in Bootstraps : D!BootstrapPeer(b)
    PROVE  D!TypeOK' /\ DiscoveryInv'
<1> USE DEF D!TypeOK, DiscoveryInv, D!Hosts, D!Runs
<1>1. ASSUME NEW p \in D!Hosts, D!Connect(p) PROVE D!TypeOK' /\ DiscoveryInv'
  BY <1>1, ServerAssumption DEF D!Connect, D!Handled
<1>2. ASSUME NEW p \in D!Hosts, D!NotifyNewConn(p) PROVE D!TypeOK' /\ DiscoveryInv'
  BY <1>2 DEF D!NotifyNewConn, D!Handled
<1>3. ASSUME NEW p \in D!Hosts, D!FoundMDNS(p) PROVE D!TypeOK' /\ DiscoveryInv'
  BY <1>3 DEF D!FoundMDNS
<1>4. ASSUME NEW b \in Bootstraps, D!BootstrapPeer(b) PROVE D!TypeOK' /\ DiscoveryInv'
  BY <1>4 DEF D!BootstrapPeer
<1> QED BY <1>1, <1>2, <1>3, <1>4 DEF D!HandlePeerFound

-----------------------------------------------------------------------------
(* Key files *)

Writes == [path : Paths, keys : SUBSET Keys]

\* All that a process with this pair had to write, when it has generated its last
\* key as the k-th.
WholeOf(i, k) == IF i = 0 THEN RegistryWrites(k - Pairs) ELSE KeyPairWrites(i, k)

\* The files that generate_registry writes, one by one.
LEMMA RegistryElements ==
    ASSUME NEW k \in Nat
    PROVE  LET W == RegistryWrites(k) IN
           /\ W \in Seq([path : Paths, keys : SUBSET Nat])
           /\ Len(W) = 2 * Pairs + 1
           /\ \A i \in 1..Pairs : /\ W[2 * i - 1] = WriteOf(<<"priv", i>>, {k + i})
                                  /\ W[2 * i] = WriteOf(<<"pub", i>>, {k + i})
           /\ W[2 * Pairs + 1] = WriteOf(<<"registry", 0>>, (k + 1)..(k + Pairs))
<1> DEFINE S == [path : Paths, keys : SUBSET Nat]
           el(j) == KeyPairWrites((j + 1) \div 2, k + (j + 1) \div 2)[2 - (j % 2)]
           A == [j \in 1..(2 * Pairs) |-> el(j)]
           r == WriteOf(<<"registry", 0>>, (k + 1)..(k + Pairs))
           W == RegistryWrites(k)
<1>0. Pairs \in Nat /\ Pairs # 0
  BY SizesAssumption
<1>1. \A j \in 1..(2 * Pairs) : (j + 1) \div 2 \in 1..Pairs /\ (j % 2 = 0 \/ j % 2 = 1)
  BY <1>0
<1>2. ASSUME NEW i \in 1..Pairs
      PROVE  /\ el(2 * i - 1) = WriteOf(<<"priv", i>>, {k + i})
             /\ el(2 * i) = WriteOf(<<"pub", i>>, {k + i})
  <2>1. /\ ((2 * i - 1) + 1) \div 2 = i /\ 2 - ((2 * i - 1) % 2) = 1
        /\ (2 * i + 1) \div 2 = i /\ 2 - ((2 * i) % 2) = 2
    BY <1>0
  <2>2. /\ el(2 * i - 1) = KeyPairWrites(i, k + i)[1]
        /\ el(2 * i) = KeyPairWrites(i, k + i)[2]
    <3> HIDE DEF KeyPairWrites
    <3> QED BY <2>1
  <2> QED BY <2>2 DEF KeyPairWrites
<1>3. \A j \in 1..(2 * Pairs) : el(j) \in S
  <2> TAKE j \in 1..(2 * Pairs)
  <2>1. PICK i \in 1..Pairs : j = 2 * i - 1 \/ j = 2 * i
    <3>1. j = 2 * ((j + 1) \div 2) - 1 \/ j = 2 * ((j + 1) \div 2)
      BY <1>0
    <3> QED BY <1>1, <3>1
  <2>2. /\ {k + i} \in SUBSET Nat
        /\ <<"priv", i>> \in Paths /\ <<"pub", i>> \in Paths
    BY DEF Paths
  <2>3. /\ WriteOf(<<"priv", i>>, {k + i}) \in S
        /\ WriteOf(<<"pub", i>>, {k + i}) \in S
    BY <2>2 DEF WriteOf
  <2> HIDE DEF el, S
  <2> QED BY <2>1, <1>2, <2>3
<1>4. A \in Seq(S) /\ Len(A) = 2 * Pairs
  <2> HIDE DEF el
  <2>1. A \in [1..(2 * Pairs) -> S]
    BY <1>3
  <2> QED BY <2>1, <1>0
<1>5. r \in S
  BY <1>0 DEF WriteOf, Paths
<1>6. W = A \o <<r>>
  BY DEF RegistryWrites
<1>7. /\ W \in Seq(S) /\ Len(W) = 2 * Pairs + 1 /\ W[2 * Pairs + 1] = r
      /\ \A j \in 1..(2 * Pairs) : W[j] = A[j]
  <2> HIDE DEF A, r, S, W
  <2>1. <<r>> \in Seq(S) /\ Len(<<r>>) = 1 /\ <<r>>[1] = r
    BY <1>5
  <2> DEFINE B == <<r>>
  <2> HIDE DEF B
  <2>2. B \in Seq(S) /\ Len(B) = 1 /\ B[1] = r /\ W = A \o B
    BY <2>1, <1>6 DEF B
  <2>3. /\ A \o B \in Seq(S) /\ Len(A \o B) = Len(A) + Len(B)
        /\ \A j \in 1..(Len(A) + Len(B)) :
               (A \o B)[j] = IF j <= Len(A) THEN A[j] ELSE B[j - Len(A)]
    BY <1>4, <2>2, ConcatProperties, Zenon
  <2> QED BY <1>0, <1>4, <2>2, <2>3
<1>8. \A j \in 1..(2 * Pairs) : A[j] = el(j)
  OBVIOUS
<1>9. \A i \in 1..Pairs : 2 * i - 1 \in 1..(2 * Pairs) /\ 2 * i \in 1..(2 * Pairs)
  BY <1>0
<1> HIDE DEF A, el
<1> QED BY <1>2, <1>7, <1>8, <1>9

\* What matters of it: every file is written once, a private key just before its
\* public key, and a key file gets one key.
Planned(W, i, k) ==
    /\ \A a, b \in 1..Len(W) : W[a].path = W[b].path => a = b
    /\ \A j \in 1..Len(W) :
          \/ i = 0 /\ j = Len(W) /\ W[j].path = <<"registry", 0>>
          \/ \E n \in 1..Pairs :
               /\ \E x \in Keys : W[j].keys = {x}
               /\ i # 0 => n = i
               /\ \/ W[j].path = <<"priv", n>> /\ j < Len(W) /\ W[j + 1].path = <<"pub", n>>
                  \/ /\ W[j].path = <<"pub", n>> /\ j > 1
                     /\ W[j - 1].path = <<"priv", n>> /\ W[j - 1].keys = W[j].keys
    /\ i = 0 =>
         /\ \A n \in 1..Pairs :
               \E a, b \in 1..Len(W) : /\ W[a] = WriteOf(<<"priv", n>>, {k - Pairs + n})
                                       /\ W[b] = WriteOf(<<"pub", n>>, {k - Pairs + n})
         /\ W[Len(W)] = WriteOf(<<"registry", 0>>, (k - Pairs + 1)..k)

\* Both kinds of processes write like that.
LEMMA Plan ==
    ASSUME NEW i \in 0..Pairs, NEW k \in Keys, i = 0 => k >= Pairs
    PROVE  LET W == WholeOf(i, k) IN
           /\ W \in Seq(Writes) /\ Len(W) \in Nat /\ Len(W) > 1 /\ Len(W) <= 2 * Pairs + 1
           /\ Planned(W, i, k)
<1> DEFINE W == WholeOf(i, k)
<1>0. Pairs \in Nat /\ Pairs # 0 /\ MaxKeys \in Nat
  BY SizesAssumption
<1>1. CASE i # 0
  <2>1. W = <<WriteOf(<<"priv", i>>, {k}), WriteOf(<<"pub", i>>, {k})>>
    BY <1>1 DEF WholeOf, KeyPairWrites
  <2>2. /\ WriteOf(<<"priv", i>>, {k}) \in Writes
        /\ WriteOf(<<"pub", i>>, {k}) \in Writes
    BY <1>0, <1>1 DEF WriteOf, Writes, Paths, Keys
  <2>3. W \in Seq(Writes) /\ Len(W) = 2
    BY <2>1, <2>2
  <2>4. /\ W[1].path = <<"priv", i>> /\ W[1].keys = {k}
        /\ W[2].path = <<"pub", i>> /\ W[2].keys = {k}
    BY <2>1 DEF WriteOf
  <2> HIDE DEF W
  <2>5. W[1].path # W[2].path
    BY <2>4
  <2>6. \A j \in 1..Len(W) : j = 1 \/ j = 2
    BY <2>3
  <2>7. i \in 1..Pairs /\ 2 <= 2 * Pairs + 1
    BY <1>0, <1>1
  <2>8. \A a, b \in 1..Len(W) : W[a].path = W[b].path => a = b
    BY <2>5, <2>6
  <2>9. ASSUME NEW j \in 1..Len(W)
        PROVE  \E n \in 1..Pairs :
               /\ \E x \in Keys : W[j].keys = {x}
               /\ n = i
               /\ \/ W[j].path = <<"priv", n>> /\ j < Len(W) /\ W[j + 1].path = <<"pub", n>>
                  \/ /\ W[j].path = <<"pub", n>> /\ j > 1
                     /\ W[j - 1].path = <<"priv", n>> /\ W[j - 1].keys = W[j].keys
    <3>1. CASE j = 1
      <4>1. j + 1 = 2 /\ j < Len(W)
        BY <2>3, <3>1
      <4> QED BY <2>4, <2>7, <3>1, <4>1
    <3>2. CASE j = 2
      <4>1. j - 1 = 1 /\ j > 1
        BY <3>2
      <4> QED BY <2>4, <2>7, <3>2, <4>1
    <3> QED BY <2>6, <3>1, <3>2
  <2>10. Planned(W, i, k)
    BY <1>1, <2>8, <2>9 DEF Planned
  <2> QED BY <2>3, <2>7, <2>10 DEF W
<1>2. CASE i = 0
  <2> DEFINE l == k - Pairs
  <2>0. l \in Nat /\ l + Pairs = k /\ k <= MaxKeys
    BY <1>0, <1>2 DEF Keys
  <2>1. W = RegistryWrites(l)
    BY <1>2 DEF WholeOf
  <2> HIDE DEF W, l
  <2>2. /\ W \in Seq([path : Paths, keys : SUBSET Nat])
        /\ Len(W) = 2 * Pairs + 1
        /\ \A n \in 1..Pairs : /\ W[2 * n - 1] = WriteOf(<<"priv", n>>, {l + n})
                               /\ W[2 * n] = WriteOf(<<"pub", n>>, {l + n})
        /\ W[2 * Pairs + 1] = WriteOf(<<"registry", 0>>, (l + 1)..(l + Pairs))
    BY <2>0, <2>1, RegistryElements
  <2>3. ASSUME NEW j \in 1..Len(W)
        PROVE  j = 2 * Pairs + 1 \/ \E n \in 1..Pairs : j = 2 * n - 1 \/ j = 2 * n
    <3>1. CASE j # 2 * Pairs + 1
      <4>1. j = 2 * ((j + 1) \div 2) - 1 \/ j = 2 * ((j + 1) \div 2)
        BY <1>0, <2>2
      <4>2. (j + 1) \div 2 \in 1..Pairs
        BY <1>0, <2>2, <3>1
      <4> QED BY <4>1, <4>2
    <3> QED BY <3>1
  <2>4. \A n \in 1..Pairs :
            /\ W[2 * n - 1].path = <<"priv", n>> /\ W[2 * n].path = <<"pub", n>>
            /\ W[2 * n - 1].keys = {l + n} /\ W[2 * n].keys = {l + n}
            /\ l + n \in Keys
    <3> TAKE n \in 1..Pairs
    <3>1. W[2 * n - 1] = [path |-> <<"priv", n>>, keys |-> {l + n}]
      BY <2>2 DEF WriteOf
    <3>2. W[2 * n] = [path |-> <<"pub", n>>, keys |-> {l + n}]
      BY <2>2 DEF WriteOf
    <3>3. l + n \in Keys
      BY <2>0, <1>0 DEF Keys
    <3> QED BY <3>1, <3>2, <3>3
  <2>5. W[2 * Pairs + 1].path = <<"registry", 0>>
    BY <2>2 DEF WriteOf
  <2>6. ASSUME NEW j \in 1..Len(W) PROVE W[j] \in Writes
    <3>1. W[2 * Pairs + 1] \in Writes
      <4>1. (l + 1)..(l + Pairs) \in SUBSET Keys
        BY <2>0, <1>0 DEF Keys
      <4> QED BY <2>2, <4>1 DEF WriteOf, Writes, Paths
    <3>2. \A n \in 1..Pairs : WriteOf(<<"priv", n>>, {l + n}) \in Writes
                              /\ WriteOf(<<"pub", n>>, {l + n}) \in Writes
      BY <2>4 DEF WriteOf, Writes, Paths
    <3> QED BY <2>2, <2>3, <3>1, <3>2
  <2>7. W \in Seq(Writes)
    <3>1. W \in [1..Len(W) -> [path : Paths, keys : SUBSET Nat]] /\ Len(W) \in Nat
      BY <2>2, LenProperties
    <3>2. W \in [1..Len(W) -> Writes]
      BY <3>1, <2>6
    <3> QED BY <3>1, <3>2
  <2>8. ASSUME NEW a \in 1..Len(W), NEW b \in 1..Len(W), W[a].path = W[b].path
        PROVE  a = b
    <3>1. \A n \in 1..Pairs : <<"priv", n>> # <<"registry", 0>> /\ <<"pub", n>> # <<"registry", 0>>
      OBVIOUS
    <3>2. \A n, m \in 1..Pairs : /\ <<"priv", n>> # <<"pub", m>>
                                 /\ <<"priv", n>> = <<"priv", m>> => n = m
                                 /\ <<"pub", n>> = <<"pub", m>> => n = m
      OBVIOUS
    <3> DEFINE Place(j) == \/ W[j].path = <<"registry", 0>> /\ j = 2 * Pairs + 1
                           \/ \E n \in 1..Pairs : W[j].path = <<"priv", n>> /\ j = 2 * n - 1
                           \/ \E n \in 1..Pairs : W[j].path = <<"pub", n>> /\ j = 2 * n
    <3>3. Place(a)
      BY <2>3, <2>4, <2>5
    <3>4. Place(b)
      BY <2>3, <2>4, <2>5
    <3>5. CASE W[a].path = <<"registry", 0>> /\ a = 2 * Pairs + 1
      BY <2>8, <3>1, <3>4, <3>5
    <3>6. ASSUME NEW n \in 1..Pairs, W[a].path = <<"priv", n>>, a = 2 * n - 1 PROVE a = b
      <4>1. PICK m \in 1..Pairs : W[b].path = <<"priv", m>> /\ b = 2 * m - 1
        BY <2>8, <3>1, <3>2, <3>4, <3>6
      <4> QED BY <2>8, <3>2, <3>6, <4>1
    <3>7. ASSUME NEW n \in 1..Pairs, W[a].path = <<"pub", n>>, a = 2 * n PROVE a = b
      <4>1. PICK m \in 1..Pairs : W[b].path = <<"pub", m>> /\ b = 2 * m
        BY <2>8, <3>1, <3>2, <3>4, <3>7
      <4> QED BY <2>8, <3>2, <3>7, <4>1
    <3> QED BY <3>3, <3>5, <3>6, <3>7
  <2>9. ASSUME NEW j \in 1..Len(W), j # 2 * Pairs + 1
        PROVE  \E n \in 1..Pairs :
                    /\ \E x \in Keys : W[j].keys = {x}
                    /\ \/ W[j].path = <<"priv", n>> /\ j < Len(W) /\ W[j + 1].path = <<"pub", n>>
                       \/ /\ W[j].path = <<"pub", n>> /\ j > 1
                          /\ W[j - 1].path = <<"priv", n>> /\ W[j - 1].keys = W[j].keys
    <3>1. PICK n \in 1..Pairs : j = 2 * n - 1 \/ j = 2 * n
      BY <2>3, <2>9
    <3>2. CASE j = 2 * n - 1
      <4>1. j + 1 = 2 * n /\ j < Len(W)
        BY <3>2, <2>2, <1>0
      <4> QED BY <2>4, <3>2, <4>1
    <3>3. CASE j = 2 * n
      <4>1. j - 1 = 2 * n - 1 /\ j > 1
        BY <3>3, <1>0
      <4> QED BY <2>4, <3>3, <4>1
    <3> QED BY <3>1, <3>2, <3>3
  <2>10. ASSUME NEW n \in 1..Pairs
         PROVE  \E a, b \in 1..Len(W) : /\ W[a] = WriteOf(<<"priv", n>>, {k - Pairs + n})
                                        /\ W[b] = WriteOf(<<"pub", n>>, {k - Pairs + n})
    <3>1. 2 * n - 1 \in 1..Len(W) /\ 2 * n \in 1..Len(W)
      BY <1>0, <2>2
    <3> QED BY <2>2, <3>1 DEF l
  <2>11. Len(W) \in Nat /\ Len(W) > 1 /\ Len(W) <= 2 * Pairs + 1
    BY <1>0, <2>2
  <2>12. W[Len(W)] = WriteOf(<<"registry", 0>>, (k - Pairs + 1)..k)
    BY <2>0, <2>2 DEF l
  <2>13. ASSUME NEW j \in 1..Len(W), j = 2 * Pairs + 1
         PROVE  j = Len(W) /\ W[j].path = <<"registry", 0>>
    BY <2>2, <2>5, <2>13
  <2>14. Planned(W, i, k)
    BY <1>2, <2>8, <2>9, <2>10, <2>12, <2>13 DEF Planned
  <2> QED BY <2>7, <2>11, <2>14 DEF W
<1> QED BY <1>1, <1>2

\* All that a process which is writing had to write; Solo keeps others from
\* generating keys meanwhile.
Whole(p) == WholeOf(pair[p], keys)

\* W was to be written, the first d files are, t is left.
Rest(W, t, d) ==
    /\ Len(W) = d + Len(t)
    /\ \A j \in 1..Len(t) : t[j] = W[d + j]
    /\ \A j \in 1..d : file[W[j].path] = Full(W[j].keys)

InProgress(p) ==
    /\ keys >= (IF pair[p] = 0 THEN Pairs ELSE 1)
    /\ \E d \in 0..(2 * Pairs) : Rest(Whole(p), todo[p], d)

OneWriter ==
    \A p \in Procs : job[p] = "write" =>
        /\ InProgress(p)
        /\ \A q \in Procs : job[q] = "write" => q = p

\* A key file that is not empty holds one key.
OneKey ==
    \A f \in {"priv", "pub"} \X (1..Pairs) :
        file[f].state = "full" => \E k \in Keys : file[f].keys = {k}

\* Files that a server has run with stay as they were.
RanWithFiles ==
    \A i \in 1..Pairs : ran[i] # {} =>
        /\ Loadable(i) /\ ran[i] = file[<<"priv", i>>].keys
        /\ \A p \in Procs : job[p] = "write" => pair[p] \notin {0, i}

\* Nobody writes once the registry is complete.
Complete ==
    settled =>
        /\ \A p \in Procs : job[p] # "write"
        /\ \A i \in 1..Pairs :
              /\ Loadable(i) /\ file[<<"priv", i>>] = file[<<"pub", i>>]
              /\ file[<<"priv", i>>].keys \subseteq file[<<"registry", 0>>].keys

StillToWrite(i) ==
    \E p \in Procs : /\ job[p] = "write"
                     /\ \E j \in 1..Len(todo[p]) :
                            todo[p][j].path \in {<<"priv", i>>, <<"pub", i>>}

\* While no process is interrupted, a pair of files that nobody is about to write
\* is complete or not there at all.
BothOrNone ==
    ~cut =>
        /\ \A i \in 1..Pairs :
              \/ ~FileExists(<<"priv", i>>) /\ ~FileExists(<<"pub", i>>)
              \/ Loadable(i)
              \/ StillToWrite(i)
        /\ \A p \in Procs : job[p] # "refused"

FilesInv == Solo => OneWriter /\ OneKey /\ RanWithFiles /\ Complete /\ BothOrNone
-----------------------------------------------------------------------------
(* Key files: types *)

\* What LoadOrGenerateKeys and GenerateRegistry have to write.
LEMMA WritesTyped ==
    /\ \A i \in 1..Pairs, k \in Keys :
          KeyPairWrites(i, k) \in Seq(Writes) /\ KeyPairWrites(i, k) # <<>>
    /\ \A k \in Nat : k + Pairs <= MaxKeys =>
          RegistryWrites(k) \in Seq(Writes) /\ RegistryWrites(k) # <<>>
<1>0. Pairs \in Nat /\ Pairs # 0 /\ MaxKeys \in Nat
  BY SizesAssumption
<1>1. ASSUME NEW i \in 1..Pairs, NEW k \in Keys
      PROVE  KeyPairWrites(i, k) \in Seq(Writes) /\ KeyPairWrites(i, k) # <<>>
  <2>1. WholeOf(i, k) = KeyPairWrites(i, k) /\ i \in 0..Pairs /\ i # 0
    BY <1>0 DEF WholeOf
  <2>2. WholeOf(i, k) \in Seq(Writes) /\ Len(WholeOf(i, k)) > 1
    BY <2>1, Plan
  <2> QED BY <2>1, <2>2
<1>2. ASSUME NEW k \in Nat, k + Pairs <= MaxKeys
      PROVE  RegistryWrites(k) \in Seq(Writes) /\ RegistryWrites(k) # <<>>
  <2>1. k + Pairs \in Keys /\ k + Pairs >= Pairs /\ (k + Pairs) - Pairs = k /\ 0 \in 0..Pairs
    BY <1>0, <1>2 DEF Keys
  <2>2. WholeOf(0, k + Pairs) = RegistryWrites(k)
    BY <2>1 DEF WholeOf
  <2>3. WholeOf(0, k + Pairs) \in Seq(Writes) /\ Len(WholeOf(0, k + Pairs)) > 1
    BY <2>1, Plan
  <2> QED BY <2>2, <2>3
<1> QED BY <1>1, <1>2

\* No files are there at first.
LEMMA FilesInitTyped ==
    ASSUME Init
    PROVE  TypeOK
<1>1. \A f \in Paths : Absent \in Content
  BY DEF Absent, Content
<1>2. <<>> \in Seq([path : Paths, keys : SUBSET Keys])
  OBVIOUS
<1>3. 0 \in 0..MaxKeys /\ 0 \in 0..Pairs
  BY SizesAssumption
<1> QED BY <1>1, <1>2, <1>3 DEF Init, TypeOK

\* A process gets something else to do.
LEMMA BecomeTyped ==
    ASSUME TypeOK, NEW p \in Procs, NEW what \in {"off", "write", "run", "refused"},
           NEW writes \in Seq(Writes), what = "write" <=> writes # <<>>,
           Become(p, what, writes),
           opened' = [opened EXCEPT ![p] = FALSE] \/ (UNCHANGED opened /\ ~opened[p])
    PROVE  /\ job' \in [Procs -> {"off", "write", "run", "refused"}]
           /\ todo' \in [Procs -> Seq([path : Paths, keys : SUBSET Keys])]
           /\ opened' \in [Procs -> BOOLEAN]
           /\ \A q \in Procs : /\ job'[q] = "write" <=> todo'[q] # <<>>
                               /\ opened'[q] => job'[q] = "write"
<1>1. /\ job' = [job EXCEPT ![p] = what] /\ todo' = [todo EXCEPT ![p] = writes]
      /\ job \in [Procs -> {"off", "write", "run", "refused"}]
      /\ todo \in [Procs -> Seq(Writes)] /\ opened \in [Procs -> BOOLEAN]
  BY DEF Become, TypeOK, Writes
<1>2. todo' \in [Procs -> Seq(Writes)] /\ job' \in [Procs -> {"off", "write", "run", "refused"}]
  BY <1>1
<1>3. opened' \in [Procs -> BOOLEAN] /\ ~opened'[p] /\ \A q \in Procs : opened'[q] => opened[q]
  BY <1>1
<1>4. ASSUME NEW q \in Procs
      PROVE  /\ job'[q] = "write" <=> todo'[q] # <<>>
             /\ opened'[q] => job'[q] = "write"
  <2>1. CASE q = p
    BY <1>1, <1>3, <2>1
  <2>2. CASE q # p
    <3>1. job'[q] = job[q] /\ todo'[q] = todo[q]
      BY <1>1, <2>2
    <3> QED BY <1>3, <3>1 DEF TypeOK
  <2> QED BY <2>1, <2>2
<1> QED BY <1>2, <1>3, <1>4 DEF Writes

\* A process starts.
LEMMA StartTyped ==
    ASSUME TypeOK, NEW p \in Procs,
           (\E i \in 1..Pairs : LoadOrGenerateKeys(p, i)) \/ GenerateRegistry(p)
    PROVE  TypeOK'
<1>0. Pairs \in Nat /\ Pairs # 0 /\ MaxKeys \in Nat /\ keys \in Nat /\ <<>> \in Seq(Writes)
  BY SizesAssumption DEF TypeOK
<1>1. ASSUME NEW i \in 1..Pairs, LoadOrGenerateKeys(p, i) PROVE TypeOK'
  <2>0. /\ i \in 0..Pairs /\ pair' \in [Procs -> 0..Pairs] /\ ~opened[p]
        /\ UNCHANGED <<file, opened, settled, cut>>
    BY <1>0, <1>1 DEF LoadOrGenerateKeys, TypeOK, MayStart
  <2>1. CASE ~FileExists(<<"priv", i>>) /\ ~FileExists(<<"pub", i>>)
    <3>1. keys + 1 \in Keys /\ keys' = keys + 1 /\ keys' \in 0..MaxKeys
      BY <1>0, <1>1, <2>1 DEF LoadOrGenerateKeys, Keys
    <3>2. KeyPairWrites(i, keys + 1) \in Seq(Writes) /\ KeyPairWrites(i, keys + 1) # <<>>
      BY <3>1, WritesTyped
    <3>3. Become(p, "write", KeyPairWrites(i, keys + 1)) /\ UNCHANGED ran
      BY <1>1, <2>1 DEF LoadOrGenerateKeys
    <3> QED BY <2>0, <3>1, <3>2, <3>3, BecomeTyped DEF TypeOK
  <2>2. CASE FileExists(<<"priv", i>>) /\ FileExists(<<"pub", i>>) /\ Loadable(i)
    <3>1. /\ Become(p, "run", <<>>) /\ UNCHANGED keys
          /\ ran' = [ran EXCEPT ![i] = @ \cup file[<<"priv", i>>].keys]
      BY <1>1, <2>2 DEF LoadOrGenerateKeys, Run
    <3>2. file[<<"priv", i>>].keys \subseteq Keys
      <4>1. <<"priv", i>> \in Paths
        BY DEF Paths
      <4> QED BY <4>1 DEF TypeOK, Content
    <3>3. ran' \in [1..Pairs -> SUBSET Keys]
      BY <3>1, <3>2 DEF TypeOK
    <3> QED BY <1>0, <2>0, <3>1, <3>3, BecomeTyped DEF TypeOK
  <2>3. CASE /\ ~(~FileExists(<<"priv", i>>) /\ ~FileExists(<<"pub", i>>))
             /\ ~(FileExists(<<"priv", i>>) /\ FileExists(<<"pub", i>>) /\ Loadable(i))
    <3>1. Become(p, "refused", <<>>) /\ UNCHANGED <<keys, ran>>
      BY <1>1, <2>3 DEF LoadOrGenerateKeys
    <3> QED BY <1>0, <2>0, <3>1, BecomeTyped DEF TypeOK
  <2> QED BY <2>1, <2>2, <2>3
<1>2. CASE GenerateRegistry(p)
  <2>0. pair' \in [Procs -> 0..Pairs] /\ ran' \in [1..Pairs -> SUBSET Keys] /\ ~opened[p]
    BY <1>0, <1>2 DEF GenerateRegistry, TypeOK, MayStart
  <2>1. keys' \in 0..MaxKeys
    BY <1>0, <1>2 DEF GenerateRegistry
  <2>2. RegistryWrites(keys) \in Seq(Writes) /\ RegistryWrites(keys) # <<>>
    BY <1>0, <1>2, WritesTyped DEF GenerateRegistry
  <2>3. /\ Become(p, "write", RegistryWrites(keys))
        /\ settled' = FALSE /\ UNCHANGED <<file, opened, cut>>
    BY <1>2 DEF GenerateRegistry
  <2> QED BY <2>0, <2>1, <2>2, <2>3, BecomeTyped DEF TypeOK
<1> QED BY <1>1, <1>2

\* There is a first file to write, and perhaps a rest.
LEMMA OneOrMore ==
    ASSUME NEW S, NEW s \in Seq(S), s # <<>>
    PROVE  /\ Head(s) = s[1] /\ Head(s) \in S /\ Tail(s) \in Seq(S)
           /\ Len(s) = 1 \/ Len(s) > 1
           /\ Len(s) = 1 => ~(Len(s) > 1)
           /\ Len(s) > 1 => Tail(s) # <<>>
<1>1. /\ Head(s) = s[1] /\ Head(s) \in S /\ Tail(s) \in Seq(S)
      /\ Len(s) \in Nat \ {0} /\ Len(Tail(s)) = Len(s) - 1
  BY EmptySeq, HeadTailProperties
<1>2. ASSUME Len(s) > 1 PROVE Tail(s) # <<>>
  BY <1>1, <1>2
<1> QED BY <1>1, <1>2

\* Of a process that writes.
LEMMA HeadTyped ==
    ASSUME TypeOK, NEW p \in Procs, job[p] = "write"
    PROVE  /\ todo[p] \in Seq(Writes)
           /\ Head(todo[p]) = todo[p][1] /\ Head(todo[p]) \in Writes
           /\ Tail(todo[p]) \in Seq(Writes)
           /\ Len(todo[p]) = 1 \/ Len(todo[p]) > 1
           /\ Len(todo[p]) = 1 => ~(Len(todo[p]) > 1)
           /\ Len(todo[p]) > 1 => Tail(todo[p]) # <<>>
<1>1. todo[p] \in Seq(Writes) /\ todo[p] # <<>>
  BY DEF TypeOK, Writes
<1> QED BY <1>1, OneOrMore, Zenon

\* The three ways in which a file is filled.
LEMMA FillCases ==
    ASSUME TypeOK, NEW p \in Procs, Fill(p)
    PROVE  \/ /\ Len(todo[p]) > 1
              /\ Become(p, "write", Tail(todo[p])) /\ UNCHANGED <<ran, settled>>
           \/ /\ Len(todo[p]) = 1 /\ pair[p] = 0
              /\ Become(p, "off", <<>>) /\ settled' = TRUE /\ UNCHANGED ran
           \/ /\ Len(todo[p]) = 1 /\ pair[p] # 0
              /\ Become(p, "run", <<>>) /\ UNCHANGED settled
              /\ ran' = [ran EXCEPT ![pair[p]] = @ \cup Head(todo[p]).keys]
<1>1. /\ Len(todo[p]) = 1 \/ Len(todo[p]) > 1
      /\ Len(todo[p]) = 1 => ~(Len(todo[p]) > 1)
  BY HeadTyped DEF Fill
<1>2. CASE Len(todo[p]) > 1
  BY <1>1, <1>2 DEF Fill, Become
<1>3. CASE Len(todo[p]) = 1 /\ pair[p] = 0
  BY <1>1, <1>3 DEF Fill, Become
<1>4. CASE Len(todo[p]) = 1 /\ pair[p] # 0
  BY <1>1, <1>4 DEF Fill, Become, Run
<1> QED BY <1>1, <1>2, <1>3, <1>4, Zenon

\* A process writes, or it ends.
LEMMA WriteTyped ==
    ASSUME TypeOK, NEW p \in Procs, Truncate(p) \/ Fill(p) \/ End(p)
    PROVE  TypeOK'
<1>0. Pairs \in Nat /\ <<>> \in Seq(Writes)
  BY SizesAssumption
<1>1. ASSUME job[p] = "write"
      PROVE  /\ Head(todo[p]).path \in Paths /\ Full(Head(todo[p]).keys) \in Content
             /\ Head(todo[p]).keys \subseteq Keys
  BY <1>1, HeadTyped DEF Writes, Full, Content
<1>2. CASE Truncate(p)
  <2>1. Truncated \in Content
    BY DEF Truncated, Content
  <2> QED BY <1>1, <1>2, <2>1 DEF Truncate, TypeOK
<1>3. CASE Fill(p)
  <2> DEFINE w == Head(todo[p])
  <2>1. /\ job[p] = "write" /\ opened[p]
        /\ file' = [file EXCEPT ![w.path] = Full(w.keys)]
        /\ opened' = [opened EXCEPT ![p] = FALSE]
        /\ UNCHANGED <<pair, keys, cut>>
    BY <1>3 DEF Fill
  <2>2. file' \in [Paths -> Content]
    BY <1>1, <2>1 DEF TypeOK
  <2>3. CASE Become(p, "write", Tail(todo[p])) /\ UNCHANGED <<ran, settled>> /\ Len(todo[p]) > 1
    <3>1. Tail(todo[p]) \in Seq(Writes) /\ Tail(todo[p]) # <<>>
      BY <2>1, <2>3, HeadTyped, Zenon
    <3> HIDE DEF w
    <3> QED BY <2>1, <2>2, <2>3, <3>1, BecomeTyped DEF TypeOK
  <2>4. CASE Become(p, "off", <<>>) /\ settled' = TRUE /\ UNCHANGED ran
    <3> HIDE DEF w
    <3> QED BY <1>0, <2>1, <2>2, <2>4, BecomeTyped DEF TypeOK
  <2>5. CASE /\ Become(p, "run", <<>>) /\ UNCHANGED settled /\ pair[p] # 0
             /\ ran' = [ran EXCEPT ![pair[p]] = @ \cup Head(todo[p]).keys]
    <3>1. ran' \in [1..Pairs -> SUBSET Keys]
      <4>1. pair[p] \in 1..Pairs /\ w.keys \subseteq Keys
        BY <1>0, <1>1, <2>1, <2>5 DEF TypeOK
      <4>2. ran' = [ran EXCEPT ![pair[p]] = @ \cup w.keys]
        BY <2>5
      <4> HIDE DEF w
      <4> QED BY <4>1, <4>2 DEF TypeOK
    <3> HIDE DEF w
    <3> QED BY <1>0, <2>1, <2>2, <2>5, <3>1, BecomeTyped DEF TypeOK
  <2> QED BY <1>3, <2>3, <2>4, <2>5, FillCases, Zenon
<1>4. CASE End(p)
  <2>1. /\ Become(p, "off", <<>>) /\ opened' = [opened EXCEPT ![p] = FALSE]
        /\ UNCHANGED <<file, pair, keys, ran, settled>>
        /\ cut' = (cut \/ job[p] = "write")
    BY <1>4 DEF End
  <2>2. cut' \in BOOLEAN
    BY <2>1
  <2> QED BY <1>0, <2>1, <2>2, BecomeTyped DEF TypeOK
<1> QED BY <1>2, <1>3, <1>4

-----------------------------------------------------------------------------
(* Key files: the invariant *)

\* What is known of a process that writes.
LEMMA Writer ==
    ASSUME TypeOK, OneWriter, NEW p \in Procs, job[p] = "write"
    PROVE  \E W, t \in Seq(Writes), d \in 0..(2 * Pairs) :
              /\ W = Whole(p) /\ t = todo[p] /\ t # <<>>
              /\ Rest(W, t, d) /\ Planned(W, pair[p], keys)
<1>0. Pairs \in Nat /\ Pairs # 0 /\ MaxKeys \in Nat
  BY SizesAssumption
<1>1. InProgress(p)
  BY DEF OneWriter
<1>2. PICK d \in 0..(2 * Pairs) : Rest(Whole(p), todo[p], d)
  BY <1>1 DEF InProgress
<1>3. pair[p] \in 0..Pairs /\ keys \in Keys /\ (pair[p] = 0 => keys >= Pairs)
  BY <1>0, <1>1 DEF InProgress, TypeOK, Keys
<1>4. Whole(p) \in Seq(Writes) /\ Planned(Whole(p), pair[p], keys)
  BY <1>3, Plan DEF Whole
<1>5. todo[p] \in Seq(Writes) /\ todo[p] # <<>>
  BY DEF TypeOK, Writes
<1> QED BY <1>2, <1>4, <1>5

\* os.WriteFile has truncated a file.
LEMMA TruncateFiles ==
    ASSUME TypeOK, FilesInv, Solo, NEW p \in Procs, Truncate(p)
    PROVE  FilesInv'
<1>0. /\ OneWriter /\ OneKey /\ RanWithFiles /\ Complete /\ BothOrNone
      /\ job[p] = "write" /\ Pairs \in Nat
      /\ UNCHANGED <<job, pair, todo, keys, ran, settled, cut>>
  BY SizesAssumption DEF FilesInv, Truncate
<1>1. PICK W \in Seq(Writes), t \in Seq(Writes), d \in 0..(2 * Pairs) :
              /\ W = Whole(p) /\ t = todo[p] /\ t # <<>>
              /\ Rest(W, t, d) /\ Planned(W, pair[p], keys)
  BY <1>0, Writer
<1> DEFINE f == W[d + 1].path
<1>2. /\ Len(W) \in Nat /\ Len(t) \in Nat /\ Len(t) >= 1 /\ Len(W) = d + Len(t)
      /\ d + 1 \in 1..Len(W) /\ t[1] = W[d + 1] /\ Head(t) = t[1]
  BY <1>0, <1>1 DEF Rest
<1>3. f \in Paths /\ file' = [file EXCEPT ![f] = Truncated]
  <2>1. W[d + 1] \in Writes
    BY <1>2
  <2> QED BY <1>1, <1>2, <2>1 DEF Truncate, Writes
<1>4. \A g \in Paths : g # f => file'[g] = file[g]
  BY <1>3 DEF TypeOK
<1>5. file'[f].state = "empty"
  BY <1>3 DEF TypeOK, Truncated
<1>6. \A i \in 1..Pairs : <<"priv", i>> \in Paths /\ <<"pub", i>> \in Paths
  BY DEF Paths
<1>7. OneWriter'
  <2>1. ASSUME NEW j \in 1..d PROVE file'[W[j].path] = Full(W[j].keys)
    <3>1. j \in 1..Len(W) /\ j # d + 1
      BY <1>2
    <3>2. W[j].path # f /\ W[j].path \in Paths
      <4>1. W[j].path # W[d + 1].path
        BY <1>1, <1>2, <3>1 DEF Planned
      <4>2. W[j] \in Writes
        BY <3>1
      <4> QED BY <4>1, <4>2 DEF Writes
    <3> QED BY <1>1, <1>4, <3>2 DEF Rest
  <2>2. Rest(W, t, d)'
    BY <1>1, <2>1 DEF Rest
  <2>3. InProgress(p)'
    BY <1>0, <1>1, <2>2 DEF InProgress, OneWriter, Whole
  <2> QED BY <1>0, <2>3 DEF OneWriter
<1>8. OneKey'
  <2> SUFFICES ASSUME NEW g \in {"priv", "pub"} \X (1..Pairs), file'[g].state = "full"
               PROVE  \E k \in Keys : file'[g].keys = {k}
    BY DEF OneKey
  <2>1. g # f /\ g \in Paths
    BY <1>5 DEF Paths
  <2> QED BY <1>0, <1>4, <2>1 DEF OneKey
<1>9. RanWithFiles'
  <2> SUFFICES ASSUME NEW i \in 1..Pairs, ran[i] # {}
               PROVE  file'[<<"priv", i>>] = file[<<"priv", i>>] /\ file'[<<"pub", i>>] = file[<<"pub", i>>]
    BY <1>0 DEF RanWithFiles, Loadable
  <2>1. pair[p] # 0 /\ pair[p] # i
    BY <1>0 DEF RanWithFiles
  <2>2. f # <<"priv", i>> /\ f # <<"pub", i>>
    BY <1>1, <1>2, <2>1 DEF Planned
  <2> QED BY <1>4, <1>6, <2>2
<1>10. Complete'
  BY <1>0 DEF Complete
<1>11. BothOrNone'
  <2> SUFFICES ASSUME ~cut, NEW i \in 1..Pairs
               PROVE  \/ ~FileExists(<<"priv", i>>)' /\ ~FileExists(<<"pub", i>>)'
                      \/ Loadable(i)'
                      \/ StillToWrite(i)'
    BY <1>0 DEF BothOrNone
  <2>1. CASE f \in {<<"priv", i>>, <<"pub", i>>}
    <3>1. todo'[p] = t /\ job'[p] = "write" /\ t[1].path = f /\ 1 \in 1..Len(t)
      BY <1>0, <1>1, <1>2
    <3> QED BY <2>1, <3>1 DEF StillToWrite
  <2>2. CASE f \notin {<<"priv", i>>, <<"pub", i>>}
    <3>1. file'[<<"priv", i>>] = file[<<"priv", i>>] /\ file'[<<"pub", i>>] = file[<<"pub", i>>]
      BY <1>4, <1>6, <2>2
    <3>2. StillToWrite(i) => StillToWrite(i)'
      BY <1>0 DEF StillToWrite
    <3> QED BY <1>0, <3>1, <3>2 DEF BothOrNone, FileExists, Loadable
  <2> QED BY <2>1, <2>2
<1> QED BY <1>7, <1>8, <1>9, <1>10, <1>11 DEF FilesInv

\* What a full file holds.
LEMMA FullFields == \A ks : Full(ks).state = "full" /\ Full(ks).keys = ks
BY DEF Full

\* A file is filled, whether or not it is the last.
LEMMA FillFiles ==
    ASSUME TypeOK, FilesInv, Solo, NEW p \in Procs, Fill(p)
    PROVE  FilesInv'
<1>0. /\ OneWriter /\ OneKey /\ RanWithFiles /\ Complete /\ BothOrNone
      /\ job[p] = "write" /\ Pairs \in Nat /\ UNCHANGED <<pair, keys, cut>> /\ ~settled
  BY SizesAssumption DEF FilesInv, Fill, Complete
<1>1. PICK W \in Seq(Writes), t \in Seq(Writes), d \in 0..(2 * Pairs) :
              /\ W = Whole(p) /\ t = todo[p] /\ t # <<>>
              /\ Rest(W, t, d) /\ Planned(W, pair[p], keys)
  BY <1>0, Writer
<1> DEFINE f == W[d + 1].path
           ks == W[d + 1].keys
<1>2. /\ Len(W) \in Nat /\ Len(t) \in Nat /\ Len(t) >= 1 /\ Len(W) = d + Len(t)
      /\ d + 1 \in 1..Len(W) /\ t[1] = W[d + 1] /\ Head(t) = t[1]
  BY <1>0, <1>1 DEF Rest
<1>3. f \in Paths /\ file' = [file EXCEPT ![f] = Full(ks)]
  <2>1. W[d + 1] \in Writes
    BY <1>2
  <2> QED BY <1>1, <1>2, <2>1 DEF Fill, Writes
<1>4. \A g \in Paths : g # f => file'[g] = file[g]
  BY <1>3 DEF TypeOK
<1>5. file'[f] = Full(ks) /\ file'[f].state = "full" /\ file'[f].keys = ks
  BY <1>3 DEF TypeOK, Full
<1>6. \A i \in 1..Pairs : <<"priv", i>> \in Paths /\ <<"pub", i>> \in Paths
  BY DEF Paths
<1>7. \A j \in 1..Len(W) : W[j] \in Writes /\ W[j].path \in Paths
  <2>1. \A j \in 1..Len(W) : W[j] \in Writes
    OBVIOUS
  <2> QED BY <2>1 DEF Writes
<1>8. ASSUME NEW j \in 1..(d + 1) PROVE file'[W[j].path] = Full(W[j].keys)
  <2>1. CASE j = d + 1
    BY <1>5, <2>1
  <2>2. CASE j # d + 1
    <3>1. j \in 1..d /\ j \in 1..Len(W)
      BY <1>2, <2>2
    <3>2. W[j].path # f
      BY <1>1, <1>2, <2>2, <3>1 DEF Planned
    <3> QED BY <1>1, <1>4, <1>7, <3>1, <3>2 DEF Rest
  <2> QED BY <2>1, <2>2
<1> HIDE DEF f, ks
\* Which file it is.
<1>9. \/ pair[p] = 0 /\ d + 1 = Len(W) /\ f = <<"registry", 0>>
      \/ \E n \in 1..Pairs :
            /\ \E x \in Keys : ks = {x}
            /\ pair[p] # 0 => n = pair[p]
            /\ \/ f = <<"priv", n>> /\ d + 1 < Len(W) /\ W[d + 2].path = <<"pub", n>>
               \/ f = <<"pub", n>> /\ d + 1 > 1 /\ W[d].path = <<"priv", n>> /\ W[d].keys = ks
  <2>1. (d + 1) + 1 = d + 2 /\ (d + 1) - 1 = d
    OBVIOUS
  <2>2. \/ pair[p] = 0 /\ d + 1 = Len(W) /\ W[d + 1].path = <<"registry", 0>>
        \/ \E n \in 1..Pairs :
              /\ \E x \in Keys : W[d + 1].keys = {x}
              /\ pair[p] # 0 => n = pair[p]
              /\ \/ W[d + 1].path = <<"priv", n>> /\ d + 1 < Len(W) /\ W[(d + 1) + 1].path = <<"pub", n>>
                 \/ /\ W[d + 1].path = <<"pub", n>> /\ d + 1 > 1
                    /\ W[(d + 1) - 1].path = <<"priv", n>> /\ W[(d + 1) - 1].keys = W[d + 1].keys
    BY <1>1, <1>2 DEF Planned
  <2> QED BY <2>1, <2>2 DEF f, ks
<1>10. OneKey'
  <2> SUFFICES ASSUME NEW g \in {"priv", "pub"} \X (1..Pairs), file'[g].state = "full"
               PROVE  \E k \in Keys : file'[g].keys = {k}
    BY DEF OneKey
  <2>1. g \in Paths /\ g # <<"registry", 0>>
    BY DEF Paths
  <2>2. CASE g = f
    BY <1>5, <1>9, <2>1, <2>2
  <2>3. CASE g # f
    BY <1>0, <1>4, <2>1, <2>3 DEF OneKey
  <2> QED BY <2>2, <2>3
\* The pairs of others.
<1>11. ASSUME NEW i \in 1..Pairs, f \notin {<<"priv", i>>, <<"pub", i>>}
       PROVE  file'[<<"priv", i>>] = file[<<"priv", i>>] /\ file'[<<"pub", i>>] = file[<<"pub", i>>]
  BY <1>4, <1>6, <1>11
<1>12. ASSUME NEW i \in 1..Pairs, ran[i] # {}
       PROVE  pair[p] \notin {0, i} /\ f \notin {<<"priv", i>>, <<"pub", i>>}
  <2>1. pair[p] # 0 /\ pair[p] # i
    BY <1>0, <1>12 DEF RanWithFiles
  <2> QED BY <1>9, <2>1
\* The private key has been written when the public key is.
<1>13. ASSUME NEW i \in 1..Pairs, f = <<"pub", i>>
       PROVE  /\ Loadable(i)' /\ file'[<<"priv", i>>].keys = ks
              /\ pair[p] # 0 => i = pair[p]
  <2>1. W[d].path = <<"priv", i>> /\ W[d].keys = ks /\ d \in 1..(d + 1) /\ (pair[p] # 0 => i = pair[p])
    BY <1>9, <1>13
  <2>2. file'[<<"priv", i>>] = Full(ks)
    BY <1>8, <2>1
  <2> QED BY <1>5, <1>13, <2>1, <2>2 DEF Loadable, Full
<1>16. /\ Len(t) > 1 \/ Len(t) = 1
       /\ Len(t) = 1 => ~(Len(t) > 1)
  BY <1>1, OneOrMore
<1>17. \/ /\ Len(t) > 1
          /\ Become(p, "write", Tail(t)) /\ UNCHANGED <<ran, settled>>
       \/ /\ Len(t) = 1 /\ pair[p] = 0
          /\ Become(p, "off", <<>>) /\ settled' = TRUE /\ UNCHANGED ran
       \/ /\ Len(t) = 1 /\ pair[p] # 0
          /\ Become(p, "run", <<>>) /\ UNCHANGED settled
          /\ ran' = [ran EXCEPT ![pair[p]] = @ \cup Head(t).keys]
  BY <1>1, FillCases
<1>14. CASE Len(t) > 1
  <2>1. /\ job' = [job EXCEPT ![p] = "write"] /\ todo' = [todo EXCEPT ![p] = Tail(t)]
        /\ UNCHANGED <<ran, settled>>
    BY <1>14, <1>16, <1>17 DEF Become
  <2>2. PICK u \in Seq(Writes) : u = Tail(t)
    BY <1>1, HeadTailProperties
  <2>3. Len(u) \in Nat /\ Len(u) = Len(t) - 1 /\ \A j \in 1..Len(u) : u[j] = t[j + 1]
    BY <1>1, <2>2, HeadTailProperties
  <2>4. todo'[p] = u /\ \A q \in Procs : job'[q] = job[q] /\ (q # p => todo'[q] = todo[q])
    BY <1>0, <2>1, <2>2 DEF TypeOK
  <2>5. OneWriter'
    <3>1. Rest(W, u, d + 1)'
      <4>1. Len(W) = (d + 1) + Len(u)
        BY <1>2, <2>3
      <4>2. ASSUME NEW j \in 1..Len(u) PROVE u[j] = W[(d + 1) + j]
        <5>1. j + 1 \in 1..Len(t) /\ d + (j + 1) = (d + 1) + j
          BY <1>2, <2>3
        <5> QED BY <1>1, <2>3, <5>1 DEF Rest
      <4> QED BY <1>8, <4>1, <4>2 DEF Rest
    <3>2. d + 1 \in 0..(2 * Pairs)
      <4>1. Len(W) <= 2 * Pairs + 1
        <5>1. pair[p] \in 0..Pairs /\ keys \in Keys /\ (pair[p] = 0 => keys >= Pairs)
          BY <1>0, SizesAssumption DEF OneWriter, InProgress, TypeOK, Keys
        <5> QED BY <1>1, <5>1, Plan DEF Whole
      <4> QED BY <1>0, <1>2, <1>14, <4>1
    <3>3. InProgress(p)'
      BY <1>0, <1>1, <2>4, <3>1, <3>2 DEF InProgress, OneWriter, Whole
    <3> QED BY <1>0, <2>4, <3>3 DEF OneWriter
  <2>6. RanWithFiles'
    <3> SUFFICES ASSUME NEW i \in 1..Pairs, ran[i] # {}
                 PROVE  /\ Loadable(i)' /\ ran[i] = file'[<<"priv", i>>].keys
                        /\ \A q \in Procs : job[q] = "write" => pair[q] \notin {0, i}
      BY <1>0, <2>1, <2>4 DEF RanWithFiles
    <3> QED BY <1>0, <1>11, <1>12 DEF RanWithFiles, Loadable
  <2>7. Complete'
    BY <1>0, <2>1 DEF Complete
  <2>8. BothOrNone'
    <3> SUFFICES ASSUME ~cut, NEW i \in 1..Pairs
                 PROVE  \/ ~FileExists(<<"priv", i>>)' /\ ~FileExists(<<"pub", i>>)'
                        \/ Loadable(i)'
                        \/ StillToWrite(i)'
      BY <1>0, <2>4 DEF BothOrNone
    <3>1. CASE f = <<"priv", i>>
      <4>1. d + 1 < Len(W) /\ W[d + 2].path = <<"pub", i>>
        BY <1>9, <3>1
      <4>2. 1 \in 1..Len(u) /\ u[1] = t[2] /\ t[2] = W[d + 2]
        BY <1>1, <1>2, <2>3, <4>1 DEF Rest
      <4>3. u[1].path = <<"pub", i>> /\ job'[p] = "write"
        BY <1>0, <2>4, <4>1, <4>2
      <4> QED BY <2>4, <4>2, <4>3 DEF StillToWrite
    <3>2. CASE f = <<"pub", i>>
      BY <1>13, <3>2
    <3>3. CASE f \notin {<<"priv", i>>, <<"pub", i>>}
      <4>1. ASSUME StillToWrite(i) PROVE StillToWrite(i)'
        <5>1. PICK q \in Procs : /\ job[q] = "write"
                                 /\ \E j \in 1..Len(todo[q]) :
                                        todo[q][j].path \in {<<"priv", i>>, <<"pub", i>>}
          BY <4>1 DEF StillToWrite
        <5>2. q = p
          BY <1>0, <5>1 DEF OneWriter
        <5>3. PICK j \in 1..Len(t) : t[j].path \in {<<"priv", i>>, <<"pub", i>>}
          BY <1>1, <5>1, <5>2
        <5>4. j # 1
          BY <1>2, <3>3, <5>3 DEF f
        <5>5. j - 1 \in 1..Len(u) /\ u[j - 1] = t[j]
          BY <1>2, <2>3, <5>4
        <5> QED BY <1>0, <2>4, <5>3, <5>5 DEF StillToWrite
      <4> QED BY <1>0, <1>11, <3>3, <4>1 DEF BothOrNone, FileExists, Loadable
    <3> QED BY <3>1, <3>2, <3>3
  <2> QED BY <1>10, <2>5, <2>6, <2>7, <2>8 DEF FilesInv
<1>15. CASE Len(t) = 1
  <2>0. d + 1 = Len(W)
    BY <1>2, <1>15
  <2>1. CASE pair[p] = 0
    <3>1. /\ job' = [job EXCEPT ![p] = "off"] /\ settled' = TRUE /\ UNCHANGED ran
      BY <1>15, <1>16, <1>17, <2>1 DEF Become
    <3>2. \A q \in Procs : job'[q] # "write" /\ (job'[q] = job[q] \/ job'[q] = "off")
      BY <1>0, <3>1 DEF OneWriter, TypeOK
    <3>3. \A i \in 1..Pairs : ran'[i] = {}
      BY <1>12, <2>1, <3>1
    <3>4. \A i \in 1..Pairs :
             /\ file'[<<"priv", i>>] = Full({keys - Pairs + i})
             /\ file'[<<"pub", i>>] = Full({keys - Pairs + i})
      <4> TAKE i \in 1..Pairs
      <4>1. PICK a \in 1..Len(W), b \in 1..Len(W) :
                /\ W[a] = WriteOf(<<"priv", i>>, {keys - Pairs + i})
                /\ W[b] = WriteOf(<<"pub", i>>, {keys - Pairs + i})
        BY <1>1, <2>1 DEF Planned
      <4>2. /\ W[a].path = <<"priv", i>> /\ W[a].keys = {keys - Pairs + i}
            /\ W[b].path = <<"pub", i>> /\ W[b].keys = {keys - Pairs + i}
        BY <4>1 DEF WriteOf
      <4> QED BY <1>8, <2>0, <4>2
    <3>5. file'[<<"registry", 0>>] = Full((keys - Pairs + 1)..keys)
      <4>1. W[d + 1] = WriteOf(<<"registry", 0>>, (keys - Pairs + 1)..keys)
        BY <1>1, <2>0, <2>1 DEF Planned
      <4>2. W[d + 1].path = <<"registry", 0>> /\ W[d + 1].keys = (keys - Pairs + 1)..keys
        BY <4>1 DEF WriteOf
      <4> QED BY <1>5, <4>2 DEF f, ks
    <3>6. Complete'
      <4> SUFFICES ASSUME NEW i \in 1..Pairs
                   PROVE  /\ Loadable(i)' /\ file'[<<"priv", i>>] = file'[<<"pub", i>>]
                          /\ file'[<<"priv", i>>].keys \subseteq file'[<<"registry", 0>>].keys
        BY <3>2 DEF Complete
      <4>1. keys - Pairs + i \in (keys - Pairs + 1)..keys
        BY <1>0, SizesAssumption DEF TypeOK
      <4>2. /\ file'[<<"priv", i>>].state = "full" /\ file'[<<"pub", i>>].state = "full"
            /\ file'[<<"priv", i>>].keys = {keys - Pairs + i}
            /\ file'[<<"registry", 0>>].keys = (keys - Pairs + 1)..keys
        BY <3>4, <3>5, FullFields
      <4> QED BY <3>4, <4>1, <4>2 DEF Loadable
    <3>7. BothOrNone'
      <4>1. \A i \in 1..Pairs : Loadable(i)'
        <5>1. \A i \in 1..Pairs : /\ file'[<<"priv", i>>].state = "full"
                                  /\ file'[<<"pub", i>>].state = "full"
          BY <3>4, FullFields
        <5> QED BY <5>1 DEF Loadable
      <4>2. ASSUME ~cut PROVE \A q \in Procs : job'[q] # "refused"
        BY <1>0, <3>2, <4>2 DEF BothOrNone
      <4> QED BY <1>0, <4>1, <4>2 DEF BothOrNone
    <3>8. OneWriter' /\ RanWithFiles'
      BY <3>2, <3>3 DEF OneWriter, RanWithFiles
    <3> QED BY <1>10, <3>6, <3>7, <3>8 DEF FilesInv
  <2>2. CASE pair[p] # 0
    <3>0. PICK m \in 0..Pairs : m = pair[p]
      BY DEF TypeOK
    <3>1. /\ job' = [job EXCEPT ![p] = "run"] /\ UNCHANGED settled
          /\ ran' = [ran EXCEPT ![m] = @ \cup ks]
      <4>1. Head(t).keys = ks
        BY <1>2 DEF ks
      <4> QED BY <1>15, <1>16, <1>17, <2>2, <3>0, <4>1 DEF Become
    <3>2. \A q \in Procs : job'[q] # "write" /\ (job'[q] = job[q] \/ job'[q] = "run")
      BY <1>0, <3>1 DEF OneWriter, TypeOK
    <3>3. m \in 1..Pairs /\ f = <<"pub", m>>
      <4>1. ~(d + 1 < Len(W))
        BY <1>2, <2>0
      <4> QED BY <1>9, <2>2, <3>0, <4>1
    <3>4. Loadable(m)' /\ file'[<<"priv", m>>].keys = ks
      BY <1>13, <3>3
    <3>5. ran'[m] = ks /\ \A i \in 1..Pairs : i # m => ran'[i] = ran[i]
      <4>1. ran[m] = {}
        BY <1>12, <3>0, <3>3
      <4> QED BY <3>1, <3>3, <4>1 DEF TypeOK
    <3>6. \A i \in 1..Pairs : i # m => f \notin {<<"priv", i>>, <<"pub", i>>}
      BY <3>3
    <3>7. RanWithFiles'
      <4> SUFFICES ASSUME NEW i \in 1..Pairs, ran'[i] # {}
                   PROVE  Loadable(i)' /\ ran'[i] = file'[<<"priv", i>>].keys
        BY <3>2 DEF RanWithFiles
      <4>1. CASE i = m
        BY <3>4, <3>5, <4>1
      <4>2. CASE i # m
        BY <1>0, <1>11, <3>5, <3>6, <4>2 DEF RanWithFiles, Loadable
      <4> QED BY <4>1, <4>2
    <3>8. Complete' /\ OneWriter'
      BY <1>0, <3>1, <3>2 DEF Complete, OneWriter
    <3>9. BothOrNone'
      <4> SUFFICES ASSUME ~cut, NEW i \in 1..Pairs
                   PROVE  \/ ~FileExists(<<"priv", i>>)' /\ ~FileExists(<<"pub", i>>)'
                          \/ Loadable(i)'
        BY <1>0, <3>2 DEF BothOrNone
      <4>1. CASE i = m
        BY <3>4, <4>1
      <4>2. CASE i # m
        <5>1. ~StillToWrite(i)
          <6>1. \A q \in Procs : job[q] = "write" => q = p
            BY <1>0 DEF OneWriter
          <6>2. \A j \in 1..Len(t) : t[j].path = f
            <7> TAKE j \in 1..Len(t)
            <7>1. j = 1
              BY <1>1, <1>15
            <7> QED BY <1>2, <7>1 DEF f
          <6>3. \A j \in 1..Len(todo[p]) : todo[p][j].path \notin {<<"priv", i>>, <<"pub", i>>}
            BY <1>1, <3>6, <4>2, <6>2
          <6> QED BY <6>1, <6>3 DEF StillToWrite
        <5> QED BY <1>0, <1>11, <3>6, <4>2, <5>1 DEF BothOrNone, FileExists, Loadable
      <4> QED BY <4>1, <4>2
    <3> QED BY <1>10, <3>7, <3>8, <3>9 DEF FilesInv
  <2> QED BY <2>1, <2>2
<1> QED BY <1>14, <1>15, <1>16

\* A process begins to write: nothing is written yet.
LEMMA BeginWriting ==
    ASSUME TypeOK, TypeOK', NEW p \in Procs, job'[p] = "write", keys' >= (IF pair'[p] = 0 THEN Pairs ELSE 1),
           todo'[p] = Whole(p)', \A q \in Procs : job'[q] = "write" => q = p
    PROVE  OneWriter'
<1>0. Pairs \in Nat /\ 0 \in 0..(2 * Pairs)
  BY SizesAssumption
<1>1. PICK t \in Seq(Writes) : t = todo'[p]
  BY DEF TypeOK, Writes
<1>2. Rest(t, t, 0)'
  BY <1>1 DEF Rest
<1>3. InProgress(p)'
  BY <1>0, <1>1, <1>2 DEF InProgress
<1> QED BY <1>3 DEF OneWriter

\* A process starts when nobody writes.
LEMMA StartFiles ==
    ASSUME TypeOK, TypeOK', FilesInv, Solo, NEW p \in Procs,
           (\E i \in 1..Pairs : LoadOrGenerateKeys(p, i)) \/ GenerateRegistry(p)
    PROVE  FilesInv'
<1>0. /\ OneWriter /\ OneKey /\ RanWithFiles /\ Complete /\ BothOrNone
      /\ Pairs \in Nat /\ Pairs # 0 /\ keys \in Nat
      /\ \A q \in Procs : job[q] # "write"
      /\ UNCHANGED <<file, opened, cut>>
  <2>1. MayStart(p) /\ UNCHANGED <<file, opened, cut>>
    BY DEF LoadOrGenerateKeys, GenerateRegistry
  <2>2. Pairs \in Nat /\ Pairs # 0 /\ keys \in Nat
    BY SizesAssumption DEF TypeOK
  <2> QED BY <2>1, <2>2 DEF FilesInv, MayStart
<1>1. OneKey'
  BY <1>0 DEF OneKey
<1>2. \A i \in 1..Pairs : ~StillToWrite(i)
  BY <1>0 DEF StillToWrite
<1>3. ASSUME NEW i \in 1..Pairs, LoadOrGenerateKeys(p, i) PROVE FilesInv'
  <2>0. pair' = [pair EXCEPT ![p] = i] /\ UNCHANGED settled
    BY <1>3 DEF LoadOrGenerateKeys
  <2>1. CASE ~FileExists(<<"priv", i>>) /\ ~FileExists(<<"pub", i>>)
    <3>1. /\ job' = [job EXCEPT ![p] = "write"] /\ keys' = keys + 1 /\ UNCHANGED ran
          /\ todo' = [todo EXCEPT ![p] = KeyPairWrites(i, keys + 1)]
      BY <1>3, <2>1 DEF LoadOrGenerateKeys, Become
    <3>2. /\ job'[p] = "write" /\ pair'[p] = i /\ todo'[p] = KeyPairWrites(i, keys')
          /\ \A q \in Procs : q # p => job'[q] = job[q] /\ pair'[q] = pair[q]
      BY <2>0, <3>1 DEF TypeOK
    <3>3. ~Loadable(i)
      BY <2>1 DEF Loadable, FileExists
    <3>4. OneWriter'
      <4>1. i # 0 /\ keys' >= 1
        BY <1>0, <3>1
      <4>2. todo'[p] = Whole(p)'
        BY <3>2, <4>1 DEF Whole, WholeOf
      <4> QED BY <1>0, <3>2, <4>1, <4>2, BeginWriting
    <3>5. RanWithFiles'
      <4> SUFFICES ASSUME NEW n \in 1..Pairs, ran[n] # {}
                   PROVE  /\ Loadable(n)' /\ ran[n] = file'[<<"priv", n>>].keys
                          /\ \A q \in Procs : job'[q] = "write" => pair'[q] \notin {0, n}
        BY <3>1 DEF RanWithFiles
      <4>1. Loadable(n) /\ ran[n] = file[<<"priv", n>>].keys
        BY <1>0 DEF RanWithFiles
      <4>2. Loadable(n)' /\ n # i
        BY <1>0, <3>3, <4>1 DEF Loadable
      <4> QED BY <1>0, <3>2, <4>1, <4>2
    <3>6. Complete'
      BY <1>0, <2>0, <3>3 DEF Complete
    <3>7. BothOrNone'
      <4>1. ASSUME ~cut PROVE \A q \in Procs : job'[q] # "refused"
        BY <1>0, <3>2, <4>1 DEF BothOrNone
      <4> QED BY <1>0, <1>2, <4>1 DEF BothOrNone, FileExists, Loadable
    <3> QED BY <1>1, <3>4, <3>5, <3>6, <3>7 DEF FilesInv
  <2>2. CASE FileExists(<<"priv", i>>) /\ FileExists(<<"pub", i>>) /\ Loadable(i)
    <3>1. /\ job' = [job EXCEPT ![p] = "run"] /\ UNCHANGED keys
          /\ ran' = [ran EXCEPT ![i] = @ \cup file[<<"priv", i>>].keys]
      BY <1>3, <2>2 DEF LoadOrGenerateKeys, Become, Run
    <3>2. \A q \in Procs : job'[q] # "write" /\ (job'[q] = job[q] \/ job'[q] = "run")
      BY <1>0, <3>1 DEF TypeOK
    <3>3. RanWithFiles'
      <4> SUFFICES ASSUME NEW n \in 1..Pairs, ran'[n] # {}
                   PROVE  Loadable(n)' /\ ran'[n] = file'[<<"priv", n>>].keys
        BY <3>2 DEF RanWithFiles
      <4>1. ran[n] # {} => Loadable(n) /\ ran[n] = file[<<"priv", n>>].keys
        BY <1>0 DEF RanWithFiles
      <4>2. Loadable(n) => Loadable(n)'
        BY <1>0 DEF Loadable
      <4>3. CASE n = i
        BY <1>0, <2>2, <3>1, <4>1, <4>2, <4>3 DEF TypeOK
      <4>4. CASE n # i
        BY <1>0, <3>1, <4>1, <4>2, <4>4 DEF TypeOK
      <4> QED BY <4>3, <4>4
    <3>4. Complete' /\ OneWriter'
      BY <1>0, <2>0, <3>2 DEF Complete, OneWriter, Loadable
    <3>5. BothOrNone'
      <4>1. ASSUME ~cut PROVE \A q \in Procs : job'[q] # "refused"
        BY <1>0, <3>2, <4>1 DEF BothOrNone
      <4> QED BY <1>0, <1>2, <4>1 DEF BothOrNone, FileExists, Loadable
    <3> QED BY <1>1, <3>3, <3>4, <3>5 DEF FilesInv
  <2>3. CASE /\ ~(~FileExists(<<"priv", i>>) /\ ~FileExists(<<"pub", i>>))
             /\ ~(FileExists(<<"priv", i>>) /\ FileExists(<<"pub", i>>) /\ Loadable(i))
    <3>1. job' = [job EXCEPT ![p] = "refused"] /\ UNCHANGED <<keys, ran>>
      BY <1>3, <2>3 DEF LoadOrGenerateKeys, Become
    <3>2. \A q \in Procs : job'[q] # "write"
      BY <1>0, <3>1 DEF TypeOK
    <3>3. cut
      BY <1>0, <1>2, <2>3 DEF BothOrNone, Loadable, FileExists
    <3>4. RanWithFiles'
      BY <1>0, <3>1, <3>2 DEF RanWithFiles, Loadable
    <3>5. Complete' /\ OneWriter' /\ BothOrNone'
      BY <1>0, <2>0, <3>2, <3>3 DEF Complete, OneWriter, Loadable, BothOrNone
    <3> QED BY <1>1, <3>4, <3>5 DEF FilesInv
  <2> QED BY <2>1, <2>2, <2>3
<1>4. CASE GenerateRegistry(p)
  <2>1. /\ job' = [job EXCEPT ![p] = "write"] /\ keys' = keys + Pairs /\ settled' = FALSE
        /\ todo' = [todo EXCEPT ![p] = RegistryWrites(keys)]
        /\ pair' = [pair EXCEPT ![p] = 0] /\ ran' = [i \in 1..Pairs |-> {}]
    BY <1>4 DEF GenerateRegistry, Become
  <2>2. /\ job'[p] = "write" /\ pair'[p] = 0 /\ todo'[p] = RegistryWrites(keys)
        /\ \A q \in Procs : q # p => job'[q] = job[q]
    BY <1>0, <2>1 DEF TypeOK
  <2>3. OneWriter'
    <3>1. keys' - Pairs = keys /\ keys' >= Pairs
      BY <1>0, <2>1
    <3>2. todo'[p] = Whole(p)'
      BY <2>2, <3>1 DEF Whole, WholeOf
    <3> QED BY <1>0, <2>2, <3>1, <3>2, BeginWriting
  <2>4. RanWithFiles' /\ Complete'
    BY <2>1 DEF RanWithFiles, Complete
  <2>5. BothOrNone'
    <3>1. ASSUME ~cut PROVE \A q \in Procs : job'[q] # "refused"
      BY <1>0, <2>2, <3>1 DEF BothOrNone
    <3> QED BY <1>0, <1>2, <3>1 DEF BothOrNone, FileExists, Loadable
  <2> QED BY <1>1, <2>3, <2>4, <2>5 DEF FilesInv
<1> QED BY <1>3, <1>4

\* A process ends: the files stay as they are.
LEMMA EndFiles ==
    ASSUME TypeOK, FilesInv, Solo, NEW p \in Procs, End(p)
    PROVE  FilesInv'
<1>0. /\ OneWriter /\ OneKey /\ RanWithFiles /\ Complete /\ BothOrNone
      /\ job' = [job EXCEPT ![p] = "off"] /\ todo' = [todo EXCEPT ![p] = <<>>]
      /\ UNCHANGED <<file, pair, keys, ran, settled>>
      /\ cut' = (cut \/ job[p] = "write")
  BY DEF FilesInv, End, Become
<1>1. /\ job'[p] = "off"
      /\ \A q \in Procs : q # p => job'[q] = job[q] /\ todo'[q] = todo[q]
  BY <1>0 DEF TypeOK
<1>2. OneWriter'
  <2> SUFFICES ASSUME NEW q \in Procs, job'[q] = "write"
               PROVE  InProgress(q)' /\ \A r \in Procs : job'[r] = "write" => r = q
    BY DEF OneWriter
  <2>1. q # p /\ job[q] = "write"
    BY <1>1
  <2>2. InProgress(q)
    BY <1>0, <2>1 DEF OneWriter
  <2>3. InProgress(q)'
    BY <1>0, <1>1, <2>1, <2>2 DEF InProgress, Rest, Whole
  <2> QED BY <1>0, <1>1, <2>1, <2>3 DEF OneWriter
<1>3. OneKey' /\ Complete'
  BY <1>0, <1>1 DEF OneKey, Complete, Loadable
<1>4. RanWithFiles'
  BY <1>0, <1>1 DEF RanWithFiles, Loadable
<1>5. BothOrNone'
  <2> SUFFICES ASSUME ~cut' PROVE BothOrNone'
    BY DEF BothOrNone
  <2>1. ~cut /\ job[p] # "write"
    BY <1>0
  <2>2. \A i \in 1..Pairs : StillToWrite(i) => StillToWrite(i)'
    BY <1>1, <2>1 DEF StillToWrite
  <2>3. \A q \in Procs : job'[q] # "refused"
    BY <1>0, <1>1, <2>1 DEF BothOrNone
  <2> QED BY <1>0, <2>1, <2>2, <2>3 DEF BothOrNone, FileExists, Loadable
<1> QED BY <1>2, <1>3, <1>4, <1>5 DEF FilesInv

\* At first there is no file, no server and nobody who writes.
LEMMA InitFiles ==
    ASSUME Init
    PROVE  FilesInv
<1>1. \A p \in Procs : job[p] = "off"
  BY DEF Init
<1>2. \A i \in 1..Pairs : ran[i] = {}
  BY DEF Init
<1>3. \A f \in Paths : file[f].state = "absent"
  BY DEF Init, Absent
<1>4. \A i \in 1..Pairs : <<"priv", i>> \in Paths /\ <<"pub", i>> \in Paths
  BY DEF Paths
<1>5. OneKey
  BY <1>3 DEF OneKey, Paths
<1>6. ~settled /\ ~cut
  BY DEF Init
<1> QED BY <1>1, <1>2, <1>3, <1>4, <1>5, <1>6
        DEF FilesInv, OneWriter, RanWithFiles, Complete, BothOrNone, FileExists

-----------------------------------------------------------------------------
(* Both together *)

Inv == StartupTypeOK /\ DiscoveryInv /\ FilesInv

\* No files, and discovery is not started.
LEMMA StartupInitInv == StartupInit => Inv
BY FilesInitTyped, InitFiles, DiscoveryInit DEF StartupInit, Inv, StartupTypeOK, D!Init

\* A step with the files keeps the types and the invariant of the files.
LEMMA FilesStep ==
    ASSUME TypeOK, FilesInv, NEW p \in Procs, Step(p) \/ End(p)
    PROVE  TypeOK' /\ FilesInv'
<1>1. TypeOK'
  BY StartTyped, WriteTyped DEF Step
<1>2. ASSUME Solo PROVE FilesInv'
  BY <1>1, <1>2, StartFiles, TruncateFiles, FillFiles, EndFiles DEF Step
<1>3. ASSUME ~Solo PROVE FilesInv'
  BY <1>3 DEF FilesInv
<1> QED BY <1>1, <1>2, <1>3

\* What a process does about files, it does before it runs, and it does it alone.
LEMMA StepOthers ==
    ASSUME TypeOK, NEW p \in Procs, Step(p) \/ End(p)
    PROVE  /\ \A q \in Procs \ {p} : job'[q] = job[q]
           /\ Step(p) => job[p] # "run"
<1> USE DEF Step, LoadOrGenerateKeys, GenerateRegistry, Truncate, Fill, End, MayStart, Become
<1>1. \A q \in Procs \ {p} : job'[q] = job[q]
  <2>1. ASSUME NEW i \in 1..Pairs, LoadOrGenerateKeys(p, i)
        PROVE  \A q \in Procs \ {p} : job'[q] = job[q]
    BY <2>1 DEF TypeOK
  <2>2. CASE GenerateRegistry(p)
    BY <2>2 DEF TypeOK
  <2>3. CASE Truncate(p)
    BY <2>3
  <2>4. CASE Fill(p)
    <3> HIDE DEF Fill, Become
    <3>1. \/ Become(p, "write", Tail(todo[p])) \/ Become(p, "off", <<>>) \/ Become(p, "run", <<>>)
      BY <2>4, FillCases
    <3> QED BY <3>1 DEF Become, TypeOK
  <2>5. CASE End(p)
    BY <2>5 DEF TypeOK
  <2> HIDE DEF LoadOrGenerateKeys, GenerateRegistry, Truncate, Fill, End
  <2> QED BY <2>1, <2>2, <2>3, <2>4, <2>5
<1>2. Step(p) => job[p] # "run"
  OBVIOUS
<1> QED BY <1>1, <1>2

\* Every step of the program keeps the invariant.
LEMMA StartupInductive == Inv /\ [StartupNext]_startupVars => Inv'
<1> SUFFICES ASSUME Inv, [StartupNext]_startupVars PROVE Inv'
  OBVIOUS
<1>0. TypeOK /\ D!TypeOK /\ DiscoveryInv /\ FilesInv /\ (main # "off" => job[Server] = "run")
  BY DEF Inv, StartupTypeOK
<1>u. ASSUME UNCHANGED discoveryVars PROVE (D!TypeOK /\ DiscoveryInv)' /\ UNCHANGED main
  BY <1>0, <1>u DEF discoveryVars, D!TypeOK, DiscoveryInv
<1>v. ASSUME UNCHANGED vars PROVE (TypeOK /\ FilesInv)' /\ UNCHANGED job
  <2> USE <1>v DEF vars
  <2>1. TypeOK'
    BY <1>0 DEF TypeOK
  <2>2. OneWriter => OneWriter'
    BY DEF OneWriter, InProgress, Rest, Whole
  <2>3. (OneKey => OneKey') /\ (RanWithFiles => RanWithFiles') /\ (Complete => Complete')
    BY DEF OneKey, RanWithFiles, Complete, Loadable
  <2>4. BothOrNone => BothOrNone'
    BY DEF BothOrNone, StillToWrite, FileExists, Loadable
  <2> QED BY <1>0, <2>1, <2>2, <2>3, <2>4 DEF FilesInv
<1>1. ASSUME NEW p \in Procs, Step(p), UNCHANGED discoveryVars PROVE Inv'
  <2>1. main # "off" => job'[Server] = "run"
    BY <1>0, <1>1, StepOthers, ServerAssumption
  <2> QED BY <1>0, <1>1, <1>u, <2>1, FilesStep DEF Inv, StartupTypeOK
<1>2. ASSUME NEW p \in Procs \ {Server}, End(p), UNCHANGED discoveryVars PROVE Inv'
  <2>1. main # "off" => job'[Server] = "run"
    BY <1>0, <1>2, StepOthers, ServerAssumption
  <2> QED BY <1>0, <1>2, <1>u, <2>1, FilesStep DEF Inv, StartupTypeOK
<1>3. CASE EndServer
  <2>1. TypeOK' /\ FilesInv'
    BY <1>0, <1>3, FilesStep, ServerAssumption DEF EndServer
  <2>2. CASE main = "off"
    BY <1>3, <1>u, <2>1, <2>2 DEF EndServer, Inv, StartupTypeOK
  <2>3. CASE main # "off"
    <3>1. D!Stop
      BY <1>3, <2>3 DEF EndServer
    <3>2. main' = "off"
      BY <3>1 DEF D!Stop
    <3> QED BY <1>0, <2>1, <3>1, <3>2, DiscoveryEnds DEF Inv, StartupTypeOK
  <2> QED BY <2>2, <2>3
<1>4. CASE Discover
  BY <1>0, <1>4, <1>v, DiscoveryEnds DEF Discover, Inv, StartupTypeOK
<1>5. CASE D!Step /\ UNCHANGED vars
  <2>1. D!TypeOK' /\ DiscoveryInv'
    BY <1>0, <1>5, DiscoverySearch, DiscoveryPeers DEF D!Step
  <2>2. main # "off"
    BY <1>5 DEF D!Step, D!Await, D!Timeout, D!Search, D!StartMDNS, D!StartDHT, D!InitDHT, D!FindPeers,
                D!RangePeers, D!NotifyOnReady, D!HandlePeerFound, D!Connect, D!NotifyNewConn,
                D!FoundMDNS, D!BootstrapPeer, D!Runs
  <2> QED BY <1>0, <1>5, <1>v, <2>1, <2>2 DEF Inv, StartupTypeOK
<1>6. CASE UNCHANGED startupVars
  BY <1>0, <1>6, <1>u, <1>v DEF startupVars, Inv, StartupTypeOK
<1> QED BY <1>1, <1>2, <1>3, <1>4, <1>5, <1>6 DEF StartupNext

\* The invariant holds always.
THEOREM Invariance == StartupSpec => []Inv
<1> QED BY StartupInitInv, StartupInductive, PTL DEF StartupSpec

\* Type correctness: and only a server that has its keys looks for peers.
THEOREM TypeCorrectness == StartupSpec => []StartupTypeOK
<1>1. Inv => StartupTypeOK
  BY DEF Inv
<1> QED BY <1>1, Invariance, PTL

\* All servers with the same key files have the same identity, from one
\* generate_registry to the next: loadOrGenerateKeys loads what is there.
THEOREM IdentityKept == StartupSpec => []IdentityIsKept
<1>1. Inv => IdentityIsKept
  <2> SUFFICES ASSUME Inv, Solo, NEW i \in 1..Pairs PROVE Cardinality(ran[i]) <= 1
    BY DEF IdentityIsKept
  <2>1. OneKey /\ RanWithFiles
    BY DEF Inv, FilesInv
  <2>2. CASE ran[i] = {}
    BY <2>2, FS_EmptySet
  <2>3. CASE ran[i] # {}
    <3>1. Loadable(i) /\ ran[i] = file[<<"priv", i>>].keys
      BY <2>1, <2>3 DEF RanWithFiles
    <3>2. PICK k \in Keys : ran[i] = {k}
      BY <2>1, <3>1 DEF OneKey, Loadable
    <3>3. Cardinality({k}) = 1
      BY FS_Singleton
    <3> QED BY <3>2, <3>3
  <2> QED BY <2>2, <2>3
<1> QED BY <1>1, Invariance, PTL

\* Once generate_registry has run to its end, the registry lists the keys in the
\* files and the identity of every server that ran with them.
THEOREM RegistryLists == StartupSpec => []RegistryListsKeys
<1>1. Inv => RegistryListsKeys
  BY DEF Inv, FilesInv, Complete, RanWithFiles, RegistryListsKeys
<1> QED BY <1>1, Invariance, PTL

\* A server is refused its keys only if a process was interrupted while it wrote.
THEOREM RefusalExplained == StartupSpec => []RefusedIsExplained
<1>1. Inv => RefusedIsExplained
  BY DEF Inv, FilesInv, BothOrNone, RefusedIsExplained
<1> QED BY <1>1, Invariance, PTL

\* AwaitReady returns without error only after Connect has succeeded in this life
\* of the process.
THEOREM ReadyOnlyWhenMet == StartupSpec => []ReadyMeansMet
<1>1. Inv => ReadyMeansMet
  BY DEF Inv, DiscoveryInv, ReadyMeansMet, D!ReadyMeansMet
<1> QED BY <1>1, Invariance, PTL

\* With the DHT AwaitReady never returns without error, whomever this host finds
\* and connects to: the goroutine that would hear of a new connection is the one
\* that notifies.
NeverReadyByDHT == method = "DHT" => main # "ready"

\* AwaitReady of a server that uses the DHT ends in its timeout, if it ends:
\* discoverPeersDHT never sends on ready.
THEOREM NotReadyByDHT == StartupSpec => []NeverReadyByDHT
<1>1. Inv => NeverReadyByDHT
  BY DEF Inv, DiscoveryInv, NeverReadyByDHT
<1> QED BY <1>1, Invariance, PTL

=============================================================================
