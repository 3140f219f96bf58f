---------------------------- MODULE OrderedQueue ----------------------------
(***************************************************************************)
(* What CPOrderedReplDict promises (sync_objects.py, its comments and      *)
(* tests): a dict with an order.  A new item goes to the end, a popped one *)
(* disappears, and mv puts an item behind another one.                     *)
(***************************************************************************)
EXTENDS Naturals, SequencesExt

CONSTANTS Keys, Values, Nil

VARIABLES items,  \* items[k]: the value of k, or Nil
          order   \* the keys that are stored, in queue order

Init == items = [k \in Keys |-> Nil] /\ order = <<>>

Stored(k) == items[k] # Nil

Set(k, v) ==
    /\ items' = [items EXCEPT ![k] = v]
    /\ order' = IF Stored(k) THEN order ELSE Append(order, k)

Pop(k) ==
    /\ Stored(k)
    /\ items' = [items EXCEPT ![k] = Nil]
    /\ \E i \in 1..Len(order) : order[i] = k /\ order' = RemoveAt(order, i)

Mv(k, after) ==
    /\ Stored(k) /\ Stored(after) /\ k # after
    /\ \E i \in 1..Len(order) : \E j \in 1..(Len(order) - 1) :
          LET rest == RemoveAt(order, i)
          IN  order[i] = k /\ rest[j] = after /\ order' = InsertAt(rest, j + 1, k)
    /\ UNCHANGED items

Next == \E k \in Keys : \/ \E v \in Values : Set(k, v)
                        \/ Pop(k)
                        \/ \E after \in Keys : Mv(k, after)

Spec == Init /\ [][Next]_<<items, order>>
=============================================================================
