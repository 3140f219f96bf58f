------------------------------ MODULE KeyFiles ------------------------------
(***************************************************************************)
(* The files that give peers their identity and say who is trusted:        *)
(*                                                                         *)
(*   main.go                main, fileExists, loadOrGenerateKeys           *)
(*   registry_generator.go  GenKeyPairFile, LoadKeys, genRegistry,         *)
(*                          writeAsYaml, GenRegistryFiles                  *)
(*                                                                         *)
(* A process is a server that uses one pair of key files, or               *)
(* generate_registry, which writes all pairs and then the registry.  A     *)
(* file is written in two steps, truncated and filled, and a process may   *)
(* end between any two steps: it is killed, or a write fails.              *)
(***************************************************************************)
EXTENDS Naturals, Sequences, FiniteSets

CONSTANTS
    Procs,    \* processes
    Pairs,    \* how many pairs of key files: <num_peers>
    Solo,     \* TRUE if nobody starts while another process writes
    MaxKeys   \* bound: key pairs that are generated

ASSUME SizesAssumption == Pairs \in Nat \ {0} /\ MaxKeys \in Nat
ASSUME SoloAssumption == Solo \in BOOLEAN

VARIABLES
    file,     \* what the files hold
    job,      \* job[p]: what process p does
    pair,     \* pair[p]: the key files of p, 0 for generate_registry
    todo,     \* todo[p]: the files p has still to write
    opened,   \* opened[p]: the first of them is truncated
    keys,     \* how many key pairs were generated
    ran,      \* history: ran[i]: the identities of servers with pair i
    settled,  \* history: the last generate_registry ran to its end
    cut       \* history: a process has ended while it was writing

vars == <<file, job, pair, todo, opened, keys, ran, settled, cut>>

Keys == 1..MaxKeys

Paths == ({"priv", "pub"} \X (1..Pairs)) \cup {<<"registry", 0>>}

\* A key file holds one key, the registry those of the trusted peers.
Content == [state : {"absent", "empty"}, keys : {{}}] \cup [state : {"full"}, keys : SUBSET Keys]
Absent == [state |-> "absent", keys |-> {}]
Truncated == [state |-> "empty", keys |-> {}]
Full(ks) == [state |-> "full", keys |-> ks]

WriteOf(path, ks) == [path |-> path, keys |-> ks]

TypeOK ==
    /\ file \in [Paths -> Content]
    /\ job \in [Procs -> {"off", "write", "run", "refused"}]
    /\ pair \in [Procs -> 0..Pairs]
    /\ todo \in [Procs -> Seq([path : Paths, keys : SUBSET Keys])]
    /\ opened \in [Procs -> BOOLEAN]
    /\ \A p \in Procs : /\ job[p] = "write" <=> todo[p] # <<>>
                        /\ opened[p] => job[p] = "write"
    /\ keys \in 0..MaxKeys
    /\ ran \in [1..Pairs -> SUBSET Keys]
    /\ settled \in BOOLEAN /\ cut \in BOOLEAN

Init ==
    /\ file = [f \in Paths |-> Absent]
    /\ job = [p \in Procs |-> "off"]
    /\ pair = [p \in Procs |-> 0]
    /\ todo = [p \in Procs |-> <<>>]
    /\ opened = [p \in Procs |-> FALSE]
    /\ keys = 0
    /\ ran = [i \in 1..Pairs |-> {}]
    /\ settled = FALSE /\ cut = FALSE

-----------------------------------------------------------------------------
(* What is written and read *)

FileExists(f) == file[f].state # "absent"

\* Mutant: the public key is not written.
KeyPairWritesOne(i, k) == <<WriteOf(<<"priv", i>>, {k}), WriteOf(<<"priv", i>>, {k})>>

\* GenKeyPairFile
KeyPairWrites(i, k) == <<WriteOf(<<"priv", i>>, {k}), WriteOf(<<"pub", i>>, {k})>>

\* Mutant: the registry lists one peer too few.
RegistryWritesShort(k) ==
    [j \in 1..(2 * Pairs) |-> KeyPairWrites((j + 1) \div 2, k + (j + 1) \div 2)[2 - (j % 2)]]
    \o <<WriteOf(<<"registry", 0>>, (k + 1)..(k + Pairs - 1))>>

\* GenRegistryFiles, with the keys after k.
RegistryWrites(k) ==
    [j \in 1..(2 * Pairs) |-> KeyPairWrites((j + 1) \div 2, k + (j + 1) \div 2)[2 - (j % 2)]]
    \o <<WriteOf(<<"registry", 0>>, (k + 1)..(k + Pairs))>>

\* Can LoadKeys unmarshal both files?  It does not compare them.
Loadable(i) == file[<<"priv", i>>].state = "full" /\ file[<<"pub", i>>].state = "full"

-----------------------------------------------------------------------------
(* Processes *)

MayStart(p) ==
    /\ job[p] = "off"
    /\ Solo => \A q \in Procs : job[q] # "write"

Become(p, what, writes) ==
    /\ job' = [job EXCEPT ![p] = what]
    /\ todo' = [todo EXCEPT ![p] = writes]

\* The server takes its identity from the private key.
Run(i, ks) == ran' = [ran EXCEPT ![i] = @ \cup ks]

\* Mutant: keys are generated although there are some.
LoadOrGenerateKeysAnew(p, i) ==
    /\ MayStart(p)
    /\ keys < MaxKeys /\ keys' = keys + 1
    /\ pair' = [pair EXCEPT ![p] = i]
    /\ Become(p, "write", KeyPairWrites(i, keys + 1))
    /\ UNCHANGED <<file, opened, ran, settled, cut>>

\* loadOrGenerateKeys, and what main makes of it.
LoadOrGenerateKeys(p, i) ==
    /\ MayStart(p)
    /\ pair' = [pair EXCEPT ![p] = i]
    /\ CASE ~FileExists(<<"priv", i>>) /\ ~FileExists(<<"pub", i>>) ->
              /\ keys < MaxKeys /\ keys' = keys + 1
              /\ Become(p, "write", KeyPairWrites(i, keys + 1))
              /\ UNCHANGED ran
         [] FileExists(<<"priv", i>>) /\ FileExists(<<"pub", i>>) /\ Loadable(i) ->
              /\ Become(p, "run", <<>>)
              /\ Run(i, file[<<"priv", i>>].keys)
              /\ UNCHANGED keys
         [] OTHER ->
              /\ Become(p, "refused", <<>>)
              /\ UNCHANGED <<keys, ran>>
    /\ UNCHANGED <<file, opened, settled, cut>>

GenerateRegistry(p) ==
    /\ MayStart(p)
    /\ keys + Pairs <= MaxKeys /\ keys' = keys + Pairs
    /\ pair' = [pair EXCEPT ![p] = 0]
    /\ Become(p, "write", RegistryWrites(keys))
    /\ ran' = [i \in 1..Pairs |-> {}]
    /\ settled' = FALSE
    /\ UNCHANGED <<file, opened, cut>>

\* os.WriteFile opens and truncates ...
Truncate(p) ==
    /\ job[p] = "write" /\ ~opened[p]
    /\ file' = [file EXCEPT ![Head(todo[p]).path] = Truncated]
    /\ opened' = [opened EXCEPT ![p] = TRUE]
    /\ UNCHANGED <<job, pair, todo, keys, ran, settled, cut>>

\* ... and fills the file.  After its last file a server runs, generate_registry ends.
Fill(p) ==
    LET w == Head(todo[p]) IN
    /\ job[p] = "write" /\ opened[p]
    /\ file' = [file EXCEPT ![w.path] = Full(w.keys)]
    /\ opened' = [opened EXCEPT ![p] = FALSE]
    /\ CASE Len(todo[p]) > 1 ->
              Become(p, "write", Tail(todo[p])) /\ UNCHANGED <<ran, settled>>
         [] Len(todo[p]) = 1 /\ pair[p] = 0 ->
              Become(p, "off", <<>>) /\ settled' = TRUE /\ UNCHANGED ran
         [] Len(todo[p]) = 1 /\ pair[p] # 0 ->
              Become(p, "run", <<>>) /\ Run(pair[p], w.keys) /\ UNCHANGED settled
    /\ UNCHANGED <<pair, keys, cut>>

\* Mutant: something of the process stays behind.
EndHalfway(p) ==
    /\ job[p] # "off"
    /\ job' = [job EXCEPT ![p] = "off"]
    /\ UNCHANGED <<file, pair, todo, opened, keys, ran, settled, cut>>

\* The process ends, wherever it is.
End(p) ==
    /\ job[p] # "off"
    /\ cut' = (cut \/ job[p] = "write")
    /\ Become(p, "off", <<>>)
    /\ opened' = [opened EXCEPT ![p] = FALSE]
    /\ UNCHANGED <<file, pair, keys, ran, settled>>

Step(p) ==
    \/ \E i \in 1..Pairs : LoadOrGenerateKeys(p, i)
    \/ GenerateRegistry(p) \/ Truncate(p) \/ Fill(p)

Next == \E p \in Procs : Step(p) \/ End(p)

Spec == Init /\ [][Next]_vars

-----------------------------------------------------------------------------
(* Properties *)

\* From one generate_registry to the next all servers with the same key files
\* have the same identity, whatever was interrupted before or in between.
IdentityIsKept == Solo => \A i \in 1..Pairs : Cardinality(ran[i]) <= 1

\* After generate_registry has run to its end the registry lists the keys in the
\* files and the identity of every server that ran with them since: no server
\* that starts, ends or is interrupted makes itself untrusted.
RegistryListsKeys ==
    Solo /\ settled =>
        \A i \in 1..Pairs :
            /\ Loadable(i) /\ file[<<"priv", i>>] = file[<<"pub", i>>]
            /\ file[<<"priv", i>>].keys \cup ran[i] \subseteq file[<<"registry", 0>>].keys

\* A server is refused its keys only if a process has ended while it wrote some:
\* without that both files of a pair are there or none.
RefusedIsExplained == Solo /\ (\E p \in Procs : job[p] = "refused") => cut
=============================================================================
