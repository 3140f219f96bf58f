-------------------------- MODULE OrderedReplDict ---------------------------
(***************************************************************************)
(* CPOrderedReplDict (sync_objects.py): a dict replicated by pysyncobj     *)
(* with a doubly linked list as ordered index.  Every replica applies the  *)
(* same calls in the same order, so one replica is modelled; a call made   *)
(* on an outdated view of the dict is a call with any keys.                *)
(*                                                                         *)
(* A KeyError ends a call where it is raised: what was done before stays.  *)
(***************************************************************************)
EXTENDS Naturals, FiniteSets

CONSTANTS Keys,    \* keys of the dict
          Values,  \* values, which the dict does not look at
          Nil,     \* None
          Missing  \* no entry in a dict

ASSUME KeysAssumption ==
    IsFiniteSet(Keys) /\ Nil \notin Keys /\ Missing \notin Keys /\ Nil # Missing
ASSUME ValuesAssumption == Nil \notin Values

VARIABLES data,   \* __data: the value of a key, or Nil if it is not stored
          list,   \* __before, __after, __first, __last
          raised  \* the last call raised a KeyError

vars == <<data, list, raised>>

Links == [Keys \cup {Nil} -> Keys \cup {Nil, Missing}]

TypeOK ==
    /\ data \in [Keys -> Values \cup {Nil}]
    /\ list \in [before : Links, after : Links, first : Keys \cup {Nil},
                 last : Keys \cup {Nil}]
    /\ raised \in BOOLEAN

Init ==
    /\ data = [k \in Keys |-> Nil]
    /\ list = [before |-> [k \in Keys \cup {Nil} |-> Missing],
               after  |-> [k \in Keys \cup {Nil} |-> Missing],
               first  |-> Nil, last |-> Nil]
    /\ raised = FALSE

\* The entries of k in __before and __after, which _unlink reads.
Linked(k) == list.before[k] # Missing
Unlinkable(k) == Linked(k) /\ list.after[k] # Missing

-----------------------------------------------------------------------------
(* The linked list *)

\* Mutant: the entries of k are deleted before its neighbours are read.
UnlinkDeletesFirst(l, k) ==
    LET b == [l.before EXCEPT ![k] = Missing]
        a == [l.after EXCEPT ![k] = Missing]
    IN  [before |-> b, after |-> a,
         first |-> IF l.first = k THEN a[k] ELSE l.first,
         last  |-> IF l.last = k THEN b[k] ELSE l.last]

\* _unlink of a linked key
Unlink(l, k) ==
    LET prev == l.before[k]
        nxt  == l.after[k]
        b    == IF nxt = Nil THEN l.before ELSE [l.before EXCEPT ![nxt] = prev]
        a    == IF prev = Nil THEN l.after ELSE [l.after EXCEPT ![prev] = nxt]
    IN  [before |-> [b EXCEPT ![k] = Missing],
         after  |-> [a EXCEPT ![k] = Missing],
         first  |-> IF b[k] = Nil THEN a[k] ELSE l.first,
         last   |-> IF a[k] = Nil THEN b[k] ELSE l.last]

\* _link to the front: the old first item keeps None as its predecessor.
LinkFront(l, k) ==
    [before |-> [l.before EXCEPT ![k] = Nil],
     after  |-> [l.after EXCEPT ![k] = l.first],
     first  |-> k,
     last   |-> IF l.last = Nil THEN k ELSE l.last]

\* Mutant: the successor is not told about its new predecessor.
LinkBehindOneWay(l, k, p) ==
    [before |-> [l.before EXCEPT ![k] = p],
     after  |-> [l.after EXCEPT ![p] = k, ![k] = l.after[p]],
     first  |-> l.first,
     last   |-> IF l.after[p] = Nil THEN k ELSE l.last]

\* _link behind a linked key p.  At the end it also sets __before[None].
LinkBehind(l, k, p) ==
    LET nxt == l.after[p]
    IN  [before |-> [l.before EXCEPT ![k] = p, ![nxt] = k],
         after  |-> [l.after EXCEPT ![p] = k, ![k] = nxt],
         first  |-> l.first,
         last   |-> IF nxt = Nil THEN k ELSE l.last]

Link(l, k, p) == IF p = Nil THEN LinkFront(l, k) ELSE LinkBehind(l, k, p)

-----------------------------------------------------------------------------
(* The replicated calls *)

\* Mutant: overwriting an item links it again.
SetItemAlwaysLinks(k, v) ==
    /\ data' = [data EXCEPT ![k] = v]
    /\ list' = Link(list, k, list.last)
    /\ raised' = FALSE

\* _setitem_impl: a key without a value is linked to the end.  _link raises if
\* the key is linked already or the last item has no successor entry.
SetItem(k, v) ==
    LET raises == Linked(k) \/ (list.last # Nil /\ list.after[list.last] = Missing)
    IN  /\ data' = [data EXCEPT ![k] = v]
        /\ list' = IF data[k] # Nil \/ raises THEN list ELSE Link(list, k, list.last)
        /\ raised' = (data[k] = Nil /\ raises)

\* _pop_impl: the value is gone even if _unlink raises.
Pop(k) ==
    /\ data[k] # Nil
    /\ data' = [data EXCEPT ![k] = Nil]
    /\ list' = IF Unlinkable(k) THEN Unlink(list, k) ELSE list
    /\ raised' = ~Unlinkable(k)

\* pop of a key that is not stored returns None.
PopMissing(k) ==
    /\ data[k] = Nil
    /\ raised' = FALSE
    /\ UNCHANGED <<data, list>>

\* _mv_impl
Mv(k, after) ==
    /\ Unlinkable(k) /\ (after = Nil \/ Linked(after))
    /\ after = Nil \/ Unlink(list, k).after[after] # Missing
    /\ list' = Link(Unlink(list, k), k, after)
    /\ raised' = FALSE
    /\ UNCHANGED data

\* _mv_impl raises in the test of `after` or in the first lines of _unlink.
MvRaises(k, after) ==
    /\ ~Unlinkable(k) \/ (after # Nil /\ ~Linked(after))
    /\ raised' = TRUE
    /\ UNCHANGED <<data, list>>

\* _mv_impl raises after _unlink: `after` is the key itself.
MvHalfway(k, after) ==
    /\ Unlinkable(k) /\ after # Nil /\ Linked(after)
    /\ Unlink(list, k).after[after] = Missing
    /\ list' = Unlink(list, k)
    /\ raised' = TRUE
    /\ UNCHANGED data

-----------------------------------------------------------------------------
\* Setting, popping, and moving behind another item.
Next ==
    \E k \in Keys :
        \/ \E v \in Values : SetItem(k, v)
        \/ Pop(k)
        \/ PopMissing(k)
        \/ \E after \in Keys \ {k} : Mv(k, after) \/ MvRaises(k, after)

Spec == Init /\ [][Next]_vars

\* Every call the class offers.
AnyNext ==
    \/ Next
    \/ \E k \in Keys : Mv(k, Nil) \/ MvRaises(k, Nil)
    \/ \E k \in Keys : MvHalfway(k, k) \/ MvRaises(k, k)

AnySpec == Init /\ [][AnyNext]_vars

-----------------------------------------------------------------------------
(* Properties *)

\* The sequence s of n keys is what the list l links: no cycle, no key twice,
\* the same in both directions, and nothing is left of other keys.
Represents(l, n, s) ==
    /\ \A i, j \in 1..n : s[i] = s[j] => i = j
    /\ \A i \in 1..n : /\ l.before[s[i]] = IF i = 1 THEN Nil ELSE s[i-1]
                       /\ l.after[s[i]] = IF i = n THEN Nil ELSE s[i+1]
    /\ \A k \in Keys : (\A i \in 1..n : s[i] # k)
                          => l.before[k] = Missing /\ l.after[k] = Missing
    /\ l.first = IF n = 0 THEN Nil ELSE s[1]
    /\ l.last = IF n = 0 THEN Nil ELSE s[n]

\* Whatever is set, popped and moved behind other items, in any order: the
\* links form one sequence, and it holds exactly the keys that are stored.
WellLinked ==
    \E n \in 0..Cardinality(Keys) : \E s \in [1..n -> Keys] :
        /\ Represents(list, n, s)
        /\ \A k \in Keys : data[k] # Nil <=> \E i \in 1..n : s[i] = k

\* ordered_items: the keys met from __first along __after.  A generator that
\* runs in a circle is cut off after as many keys as there are.
Walk(l) ==
    LET walk[i \in 0..Cardinality(Keys)] ==
            IF i = 0 THEN l.first
            ELSE IF walk[i-1] \in Keys THEN l.after[walk[i-1]] ELSE Nil
    IN  walk

WalkEnds(l, m) ==
    /\ \A i \in 0..(m-1) : Walk(l)[i] \in Keys
    /\ m = Cardinality(Keys) \/ Walk(l)[m] \notin Keys

ItemsOf(l) ==
    LET len == CHOOSE m \in 0..Cardinality(Keys) : WalkEnds(l, m)
    IN  [i \in 1..len |-> Walk(l)[i-1]]

OrderedItems == ItemsOf(list)

Queue == INSTANCE OrderedQueue WITH items <- data, order <- OrderedItems

\* Without moves to the front the dict behaves as the ordered queue it is meant
\* to be: ordered_items follows every call as the specification says.
ImplementsQueue == Queue!Spec

\* A pop takes the popped item out of ordered_items and no other.  Does not
\* hold once an item was moved to the front: see the findings.
PopTakesOneItem ==
    [][\A k \in Keys : data[k] # Nil /\ data'[k] = Nil =>
          {OrderedItems'[i] : i \in DOMAIN OrderedItems'}
             = {OrderedItems[i] : i \in DOMAIN OrderedItems} \ {k}]_vars
=============================================================================
