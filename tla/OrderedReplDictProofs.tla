----------------------- MODULE OrderedReplDictProofs ------------------------
(***************************************************************************)
(* For any finite set of keys: without moves to the front, the doubly      *)
(* linked list of CPOrderedReplDict always links exactly the stored keys,  *)
(* in one sequence.  Each list operation is shown to carry out an          *)
(* operation on the represented sequence.                                  *)
(***************************************************************************)
EXTENDS OrderedReplDict, FiniteSetTheorems, SequenceTheorems, WellFoundedInduction, TLAPS

ListType == [before : Links, after : Links, first : Keys \cup {Nil}, last : Keys \cup {Nil}]

\* Sequence s of length n without its i-th element.
Removed(n, s, i) == [x \in 1..(n-1) |-> IF x < i THEN s[x] ELSE s[x+1]]

\* Sequence s of length n with k put behind the i-th element.
Inserted(n, s, i, k) ==
    [x \in 1..(n+1) |-> IF x <= i THEN s[x] ELSE IF x = i + 1 THEN k ELSE s[x-1]]

\* _unlink removes the key from the sequence.
LEMMA UnlinkRemoves ==
    ASSUME NEW l \in ListType, NEW n \in Nat, NEW s \in [1..n -> Keys],
           Represents(l, n, s), NEW i \in 1..n
    PROVE  /\ Unlink(l, s[i]) \in ListType
           /\ Represents(Unlink(l, s[i]), n - 1, Removed(n, s, i))
<1> DEFINE k == s[i]
           r == Removed(n, s, i)
           prev == l.before[k]
           nxt == l.after[k]
           b == IF nxt = Nil THEN l.before ELSE [l.before EXCEPT ![nxt] = prev]
           a == IF prev = Nil THEN l.after ELSE [l.after EXCEPT ![prev] = nxt]
           u == Unlink(l, k)
<1>1. /\ l.before \in Links /\ l.after \in Links
      /\ l.first \in Keys \cup {Nil} /\ l.last \in Keys \cup {Nil}
  BY DEF ListType
<1>2. k \in Keys /\ n - 1 \in Nat /\ r \in [1..(n-1) -> Keys]
  BY DEF Removed
<1>3. /\ prev = IF i = 1 THEN Nil ELSE s[i-1]
      /\ nxt = IF i = n THEN Nil ELSE s[i+1]
  BY DEF Represents
<1>4. /\ i # 1 => prev \in Keys /\ prev # Nil
      /\ i # n => nxt \in Keys /\ nxt # Nil
  BY <1>3, KeysAssumption
<1>5. prev # k /\ nxt # k
  <2>1. i # 1 => s[i-1] # s[i]
    BY DEF Represents
  <2>2. i # n => s[i+1] # s[i]
    BY DEF Represents
  <2> QED BY <1>2, <1>3, <2>1, <2>2, KeysAssumption
<1>6. b \in Links /\ a \in Links /\ b[k] = prev /\ a[k] = nxt
  BY <1>1, <1>2, <1>3, <1>4, <1>5 DEF Links
<1>7. /\ u.before = [b EXCEPT ![k] = Missing]
      /\ u.after = [a EXCEPT ![k] = Missing]
      /\ u.first = IF prev = Nil THEN nxt ELSE l.first
      /\ u.last = IF nxt = Nil THEN prev ELSE l.last
  BY <1>6 DEF Unlink
<1>8. u \in ListType
  <2>1. u.before \in Links /\ u.after \in Links
    BY <1>6, <1>7 DEF Links
  <2>2. u.first \in Keys \cup {Nil} /\ u.last \in Keys \cup {Nil}
    BY <1>1, <1>3, <1>4, <1>7
  <2> QED BY <2>1, <2>2 DEF Unlink, ListType
<1>9. \A x \in Keys : /\ x # k /\ x # nxt => u.before[x] = l.before[x]
                      /\ x # k /\ x # prev => u.after[x] = l.after[x]
                      /\ x = nxt => u.before[x] = prev
                      /\ x = prev => u.after[x] = nxt
                      /\ x = k => u.before[x] = Missing /\ u.after[x] = Missing
  BY <1>1, <1>2, <1>5, <1>6, <1>7, KeysAssumption DEF Links
<1>a. ASSUME NEW x \in 1..n
      PROVE  /\ s[x] # Nil
             /\ s[x] = k => x = i
             /\ s[x] = prev => x = i - 1
             /\ s[x] = nxt => x = i + 1
  <2>1. s[x] \in Keys /\ s[x] # Nil
    BY KeysAssumption
  <2>2. \A y \in 1..n : s[x] = s[y] => x = y
    BY DEF Represents
  <2>3. s[x] = prev => i # 1 /\ prev = s[i-1]
    BY <1>3, <2>1
  <2>4. s[x] = nxt => i # n /\ nxt = s[i+1]
    BY <1>3, <2>1
  <2> QED BY <2>1, <2>2, <2>3, <2>4
<1>10. \A x \in 1..(n-1) : r[x] # k /\ r[x] \in Keys
  <2> TAKE x \in 1..(n-1)
  <2>1. CASE x < i
    BY <2>1, <1>2 DEF Removed, Represents
  <2>2. CASE ~(x < i)
    BY <2>2, <1>2 DEF Removed, Represents
  <2> QED BY <2>1, <2>2
<1>11. \A x, y \in 1..(n-1) : r[x] = r[y] => x = y
  BY DEF Removed, Represents
<1>12. ASSUME NEW x \in 1..(n-1)
       PROVE  /\ u.before[r[x]] = IF x = 1 THEN Nil ELSE r[x-1]
              /\ u.after[r[x]] = IF x = n - 1 THEN Nil ELSE r[x+1]
  <2>1. CASE x < i - 1
    <3>0. x \in 1..n /\ r[x] = s[x]
      BY <2>1 DEF Removed
    <3>1. s[x] # nxt /\ s[x] # prev /\ s[x] # k
      <4>1. s[x] = nxt => x = i + 1
        BY <3>0, <1>a
      <4>2. s[x] = prev => x = i - 1
        BY <3>0, <1>a
      <4>3. s[x] = k => x = i
        BY <3>0, <1>a
      <4>4. x # i + 1 /\ x # i - 1 /\ x # i
        BY <2>1
      <4> QED BY <4>1, <4>2, <4>3, <4>4
    <3>2. u.before[r[x]] = l.before[s[x]] /\ u.after[r[x]] = l.after[s[x]]
      BY <3>0, <3>1, <1>9, <1>10
    <3> QED BY <2>1, <3>2 DEF Removed, Represents
  <2>2. CASE x = i - 1
    <3>1. r[x] = s[x] /\ s[x] # nxt /\ s[x] = prev /\ s[x] # k
      BY <2>2, <1>3, <1>4 DEF Removed, Represents
    <3> QED BY <2>2, <3>1, <1>3, <1>9, <1>10 DEF Removed, Represents
  <2>3. CASE x = i
    <3>1. r[x] = s[x+1] /\ s[x+1] = nxt /\ s[x+1] # prev /\ s[x+1] # k
      BY <2>3, <1>3, <1>4 DEF Removed, Represents
    <3> QED BY <2>3, <3>1, <1>3, <1>9, <1>10 DEF Removed, Represents
  <2>4. CASE x > i
    <3>0. x+1 \in 1..n /\ r[x] = s[x+1]
      BY <2>4 DEF Removed
    <3>1. s[x+1] # nxt /\ s[x+1] # prev /\ s[x+1] # k
      BY <2>4, <3>0, <1>a
    <3>2. u.before[r[x]] = l.before[s[x+1]] /\ u.after[r[x]] = l.after[s[x+1]]
      BY <3>0, <3>1, <1>9, <1>10
    <3> QED BY <2>4, <3>2 DEF Removed, Represents
  <2> QED BY <2>1, <2>2, <2>3, <2>4
<1>13. ASSUME NEW x \in Keys, \A y \in 1..(n-1) : r[y] # x
       PROVE  u.before[x] = Missing /\ u.after[x] = Missing
  <2>1. CASE x = k
    BY <2>1, <1>9
  <2>2. CASE x # k
    <3>1. \A y \in 1..n : s[y] # x
      <4> TAKE y \in 1..n
      <4>1. CASE y < i
        BY <4>1, <1>13 DEF Removed
      <4>2. CASE y = i
        BY <4>2, <2>2
      <4>3. CASE y > i
        <5>1. y - 1 \in 1..(n-1) /\ r[y-1] = s[y]
          BY <4>3 DEF Removed
        <5> QED BY <5>1, <1>13
      <4> QED BY <4>1, <4>2, <4>3
    <3>2. x # nxt /\ x # prev
      BY <3>1, <1>3, KeysAssumption
    <3> QED BY <2>2, <3>1, <3>2, <1>9 DEF Represents
  <2> QED BY <2>1, <2>2
<1>14. /\ u.first = IF n - 1 = 0 THEN Nil ELSE r[1]
       /\ u.last = IF n - 1 = 0 THEN Nil ELSE r[n-1]
  BY <1>3, <1>4, <1>7 DEF Removed, Represents
<1> QED BY <1>8, <1>11, <1>12, <1>13, <1>14 DEF Represents

\* _link behind the i-th key inserts the new key there.
LEMMA LinkBehindInserts ==
    ASSUME NEW l \in ListType, NEW n \in Nat, NEW s \in [1..n -> Keys],
           Represents(l, n, s), NEW i \in 1..n, NEW k \in Keys,
           \A x \in 1..n : s[x] # k
    PROVE  /\ LinkBehind(l, k, s[i]) \in ListType
           /\ Represents(LinkBehind(l, k, s[i]), n + 1, Inserted(n, s, i, k))
<1> DEFINE p == s[i]
           nxt == l.after[p]
           r == Inserted(n, s, i, k)
           u == LinkBehind(l, k, p)
<1>1. /\ l.before \in Links /\ l.after \in Links
      /\ l.first \in Keys \cup {Nil} /\ l.last \in Keys \cup {Nil}
  BY DEF ListType
<1>2. p \in Keys /\ p # k /\ n + 1 \in Nat /\ r \in [1..(n+1) -> Keys]
  BY DEF Inserted
<1>3. nxt = IF i = n THEN Nil ELSE s[i+1]
  BY DEF Represents
<1>4. nxt \in Keys \cup {Nil} /\ nxt # k
  BY <1>3, KeysAssumption
<1>5. /\ u.before = [l.before EXCEPT ![k] = p, ![nxt] = k]
      /\ u.after = [l.after EXCEPT ![p] = k, ![k] = nxt]
      /\ u.first = l.first
      /\ u.last = IF nxt = Nil THEN k ELSE l.last
  BY DEF LinkBehind
<1>6. u \in ListType
  <2>1. u.before \in Links /\ u.after \in Links
    <3>1. [l.before EXCEPT ![k] = p] \in Links /\ [l.after EXCEPT ![p] = k] \in Links
      BY <1>1, <1>2 DEF Links
    <3>2. /\ u.before = [[l.before EXCEPT ![k] = p] EXCEPT ![nxt] = k]
          /\ u.after = [[l.after EXCEPT ![p] = k] EXCEPT ![k] = nxt]
      BY <1>5
    <3> QED BY <3>1, <3>2, <1>4 DEF Links
  <2>2. u.first \in Keys \cup {Nil} /\ u.last \in Keys \cup {Nil}
    BY <1>1, <1>5
  <2> QED BY <2>1, <2>2 DEF LinkBehind, ListType
<1>7. \A x \in Keys : /\ x # k /\ x # nxt => u.before[x] = l.before[x]
                      /\ x # k /\ x # p => u.after[x] = l.after[x]
                      /\ x = nxt => u.before[x] = k
                      /\ x = p => u.after[x] = k
                      /\ x = k => u.before[x] = p /\ u.after[x] = nxt
  BY <1>1, <1>2, <1>4, <1>5 DEF Links
<1>8. ASSUME NEW x \in 1..n
      PROVE  /\ s[x] \in Keys /\ s[x] # Nil /\ s[x] # k
             /\ s[x] = p => x = i
             /\ s[x] = nxt => x = i + 1
  <2>1. s[x] \in Keys /\ s[x] # Nil
    BY KeysAssumption
  <2>2. \A y \in 1..n : s[x] = s[y] => x = y
    BY DEF Represents
  <2>3. s[x] = nxt => i # n /\ nxt = s[i+1]
    BY <1>3, <2>1
  <2> QED BY <2>1, <2>2, <2>3
<1>9. \A x, y \in 1..(n+1) : r[x] = r[y] => x = y
  BY DEF Inserted, Represents
<1>10. ASSUME NEW x \in 1..(n+1)
       PROVE  /\ u.before[r[x]] = IF x = 1 THEN Nil ELSE r[x-1]
              /\ u.after[r[x]] = IF x = n + 1 THEN Nil ELSE r[x+1]
  <2>1. CASE x <= i
    <3>1. x \in 1..n /\ r[x] = s[x]
      BY <2>1 DEF Inserted
    <3>2. s[x] \in Keys /\ s[x] # k /\ s[x] # nxt
      <4>1. s[x] = nxt => x = i + 1
        BY <3>1, <1>8
      <4>2. s[x] \in Keys /\ s[x] # k
        BY <3>1, <1>8
      <4> QED BY <2>1, <4>1, <4>2
    <3>3. u.before[r[x]] = l.before[s[x]]
      BY <3>1, <3>2, <1>7
    <3>4. u.before[r[x]] = IF x = 1 THEN Nil ELSE r[x-1]
      BY <2>1, <3>1, <3>3 DEF Inserted, Represents
    <3>5. CASE x = i
      BY <3>1, <3>2, <3>4, <3>5, <1>7 DEF Inserted
    <3>6. CASE x < i
      <4>1. s[x] # p
        <5>1. s[x] = p => x = i
          BY <3>1, <1>8
        <5> QED BY <3>6, <5>1
      <4>2. u.after[r[x]] = l.after[s[x]]
        BY <3>1, <3>2, <4>1, <1>7
      <4> QED BY <3>1, <3>4, <3>6, <4>2 DEF Inserted, Represents
    <3> QED BY <2>1, <3>5, <3>6
  <2>2. CASE x = i + 1
    <3>1. r[x] = k /\ r[x-1] = p
      BY <2>2 DEF Inserted
    <3>2. u.before[k] = p /\ u.after[k] = nxt
      BY <1>7
    <3> QED BY <2>2, <3>1, <3>2, <1>3 DEF Inserted
  <2>3. CASE x > i + 1
    <3>1. x - 1 \in 1..n /\ r[x] = s[x-1]
      BY <2>3 DEF Inserted
    <3>2. s[x-1] \in Keys /\ s[x-1] # k /\ s[x-1] # p
      <4>1. s[x-1] = p => x - 1 = i
        BY <3>1, <1>8
      <4>2. s[x-1] \in Keys /\ s[x-1] # k
        BY <3>1, <1>8
      <4> QED BY <2>3, <4>1, <4>2
    <3>3. u.after[r[x]] = l.after[s[x-1]]
      BY <3>1, <3>2, <1>7
    <3>4. u.after[r[x]] = IF x = n + 1 THEN Nil ELSE r[x+1]
      BY <2>3, <3>1, <3>3 DEF Inserted, Represents
    <3>5. CASE x = i + 2
      <4>1. s[x-1] = nxt /\ r[x-1] = k
        BY <2>3, <3>1, <3>5, <1>3 DEF Inserted
      <4> QED BY <3>1, <3>2, <3>4, <3>5, <4>1, <1>7
    <3>6. CASE x > i + 2
      <4>1. s[x-1] # nxt
        <5>1. s[x-1] = nxt => x - 1 = i + 1
          BY <3>1, <1>8
        <5> QED BY <3>6, <5>1
      <4>2. u.before[r[x]] = l.before[s[x-1]]
        BY <3>1, <3>2, <4>1, <1>7
      <4> QED BY <3>1, <3>4, <3>6, <4>2 DEF Inserted, Represents
    <3> QED BY <2>3, <3>5, <3>6
  <2> QED BY <2>1, <2>2, <2>3
<1>11. ASSUME NEW x \in Keys, \A y \in 1..(n+1) : r[y] # x
       PROVE  u.before[x] = Missing /\ u.after[x] = Missing
  <2>1. x # k
    <3>1. i + 1 \in 1..(n+1) /\ r[i+1] = k
      BY DEF Inserted
    <3> QED BY <3>1, <1>11
  <2>2. \A y \in 1..n : s[y] # x
    <3> TAKE y \in 1..n
    <3>1. CASE y <= i
      <4>1. y \in 1..(n+1) /\ r[y] = s[y]
        BY <3>1 DEF Inserted
      <4> QED BY <4>1, <1>11
    <3>2. CASE y > i
      <4>1. y + 1 \in 1..(n+1) /\ r[y+1] = s[y]
        BY <3>2 DEF Inserted
      <4> QED BY <4>1, <1>11
    <3> QED BY <3>1, <3>2
  <2>3. x # nxt /\ x # p
    BY <2>2, <1>3, KeysAssumption
  <2> QED BY <2>1, <2>2, <2>3, <1>7 DEF Represents
<1>12. /\ u.first = IF n + 1 = 0 THEN Nil ELSE r[1]
       /\ u.last = IF n + 1 = 0 THEN Nil ELSE r[n+1]
  <2>1. n # 0 /\ r[1] = s[1]
    BY DEF Inserted
  <2>2. u.first = s[1] /\ l.last = s[n]
    BY <1>5, <2>1 DEF Represents
  <2>3. r[n+1] = IF i = n THEN k ELSE s[n]
    BY DEF Inserted
  <2>4. (nxt = Nil) <=> (i = n)
    BY <1>3, KeysAssumption
  <2> QED BY <1>5, <2>1, <2>2, <2>3, <2>4
<1> QED BY <1>6, <1>9, <1>10, <1>11, <1>12 DEF Represents

\* The first key of an empty list is linked to its front.
LEMMA LinkFrontStarts ==
    ASSUME NEW l \in ListType, NEW s \in [1..0 -> Keys], Represents(l, 0, s), NEW k \in Keys
    PROVE  /\ LinkFront(l, k) \in ListType
           /\ Represents(LinkFront(l, k), 1, [x \in 1..1 |-> k])
<1> DEFINE u == LinkFront(l, k)
<1>1. /\ l.before \in Links /\ l.after \in Links /\ l.first = Nil /\ l.last = Nil
      /\ \A x \in Keys : l.before[x] = Missing /\ l.after[x] = Missing
  BY DEF ListType, Represents
<1>2. /\ u.before = [l.before EXCEPT ![k] = Nil] /\ u.after = [l.after EXCEPT ![k] = Nil]
      /\ u.first = k /\ u.last = k
  BY <1>1 DEF LinkFront
<1>3. u \in ListType
  <2>1. u.before \in Links /\ u.after \in Links
    BY <1>1, <1>2 DEF Links
  <2> QED BY <1>2, <2>1 DEF LinkFront, ListType
<1>4. Represents(u, 1, [x \in 1..1 |-> k])
  <2>1. u.before[k] = Nil /\ u.after[k] = Nil
    BY <1>1, <1>2 DEF Links
  <2>2. \A x \in Keys : x # k => u.before[x] = Missing /\ u.after[x] = Missing
    BY <1>1, <1>2 DEF Links
  <2> QED BY <1>2, <2>1, <2>2 DEF Represents
<1> QED BY <1>3, <1>4

-----------------------------------------------------------------------------
(* The inductive invariant *)

\* The stored keys are those of the sequence s of length n.
Holds(d, n, s) == \A k \in Keys : d[k] # Nil <=> \E i \in 1..n : s[i] = k

Sequenced ==
    \E n \in Nat : \E s \in [1..n -> Keys] : Represents(list, n, s) /\ Holds(data, n, s)

Inv == TypeOK /\ Sequenced

\* A sequence without repetition is no longer than there are keys.
LEMMA AtMostAllKeys ==
    ASSUME NEW n \in Nat, NEW s \in [1..n -> Keys],
           \A i, j \in 1..n : s[i] = s[j] => i = j
    PROVE  n \in 0..Cardinality(Keys)
<1>1. IsFiniteSet(1..n) /\ Cardinality(1..n) = n
  BY FS_Interval
<1>2. s \in Injection(1..n, Keys)
  BY DEF Injection, IsInjective
<1>3. Cardinality(1..n) <= Cardinality(Keys)
  BY <1>2, KeysAssumption, FS_Injection
<1>4. Cardinality(Keys) \in Nat
  BY KeysAssumption, FS_CardinalityType
<1> QED BY <1>1, <1>3, <1>4

\* In a represented list the linked keys are those of the sequence.
LEMMA LinkedIffIn ==
    ASSUME NEW n \in Nat, NEW s \in [1..n -> Keys], Represents(list, n, s), NEW k \in Keys
    PROVE  /\ Linked(k) <=> \E i \in 1..n : s[i] = k
           /\ Unlinkable(k) <=> \E i \in 1..n : s[i] = k
<1>1. ASSUME NEW i \in 1..n, s[i] = k
      PROVE  list.before[k] # Missing /\ list.after[k] # Missing
  <2>1. \A x \in 1..n : s[x] # Missing
    BY KeysAssumption
  <2> QED BY <1>1, <2>1, KeysAssumption DEF Represents
<1>2. ASSUME ~\E i \in 1..n : s[i] = k
      PROVE  list.before[k] = Missing
  BY <1>2 DEF Represents
<1> QED BY <1>1, <1>2 DEF Linked, Unlinkable

\* Nothing is linked in the beginning.
LEMMA InitInv == Init => Inv
<1> SUFFICES ASSUME Init PROVE Inv
  OBVIOUS
<1>1. TypeOK
  BY DEF Init, TypeOK, Links
<1>2. [x \in 1..0 |-> Nil] \in [1..0 -> Keys]
  OBVIOUS
<1>3. Represents(list, 0, [x \in 1..0 |-> Nil]) /\ Holds(data, 0, [x \in 1..0 |-> Nil])
  BY DEF Init, Represents, Holds
<1> QED BY <1>1, <1>2, <1>3 DEF Inv, Sequenced

\* A key without a value is linked to the end.
LEMMA SetItemLinks ==
    ASSUME Inv, NEW n \in Nat, NEW s \in [1..n -> Keys],
           Represents(list, n, s), Holds(data, n, s),
           NEW k \in Keys, NEW v \in Values, SetItem(k, v), data[k] = Nil
    PROVE  list' \in ListType /\ Represents(list', n + 1, Inserted(n, s, n, k))
<1>0. list \in ListType
  BY DEF Inv, TypeOK, ListType
<1>1. \A x \in 1..n : s[x] # k
  BY DEF Holds
<1>2. ~Linked(k)
  BY <1>1, LinkedIffIn
<1>3. CASE n = 0
  <2>1. list.last = Nil
    BY <1>3 DEF Represents
  <2>2. list' = LinkFront(list, k)
    BY <1>2, <2>1 DEF SetItem, Link
  <2>3. list' \in ListType /\ Represents(list', 1, [x \in 1..1 |-> k])
    BY <1>0, <1>3, <2>2, LinkFrontStarts
  <2>4. Inserted(n, s, n, k) = [x \in 1..1 |-> k] /\ n + 1 = 1
    BY <1>3 DEF Inserted
  <2> QED BY <2>3, <2>4
<1>4. CASE n # 0
  <2>1. n \in 1..n /\ list.last = s[n] /\ s[n] # Nil /\ list.after[s[n]] = Nil
    BY <1>4, KeysAssumption DEF Represents
  <2>2. list' = LinkBehind(list, k, s[n])
    BY <1>2, <2>1, KeysAssumption DEF SetItem, Link
  <2> QED BY <1>0, <1>1, <2>1, <2>2, LinkBehindInserts
<1> QED BY <1>3, <1>4

\* Setting a key keeps the invariant.
LEMMA SetItemInv ==
    ASSUME Inv, NEW k \in Keys, NEW v \in Values, SetItem(k, v)
    PROVE  Inv'
<1>0. PICK n \in Nat : \E s \in [1..n -> Keys] : Represents(list, n, s) /\ Holds(data, n, s)
  BY DEF Inv, Sequenced
<1>1. PICK s \in [1..n -> Keys] : Represents(list, n, s) /\ Holds(data, n, s)
  BY <1>0
<1>2. /\ data \in [Keys -> Values \cup {Nil}] /\ list \in ListType
      /\ data' = [data EXCEPT ![k] = v] /\ data' \in [Keys -> Values \cup {Nil}]
      /\ v # Nil /\ raised' \in BOOLEAN
  BY ValuesAssumption DEF Inv, TypeOK, ListType, SetItem
<1>3. CASE data[k] # Nil
  <2>1. list' = list
    BY <1>3 DEF SetItem
  <2>2. Holds(data', n, s)
    BY <1>1, <1>2, <1>3 DEF Holds
  <2> QED BY <1>1, <1>2, <2>1, <2>2 DEF Inv, TypeOK, Sequenced, ListType
<1>4. CASE data[k] = Nil
  <2>1. list' \in ListType /\ Represents(list', n + 1, Inserted(n, s, n, k))
    BY <1>1, <1>4, SetItemLinks
  <2>2. Inserted(n, s, n, k) \in [1..(n+1) -> Keys]
    BY DEF Inserted
  <2>3. Holds(data', n + 1, Inserted(n, s, n, k))
    <3> SUFFICES ASSUME NEW j \in Keys
                 PROVE  data'[j] # Nil <=> \E i \in 1..(n+1) : Inserted(n, s, n, k)[i] = j
      BY DEF Holds
    <3>1. CASE j = k
      <4>1. n + 1 \in 1..(n+1) /\ Inserted(n, s, n, k)[n+1] = k
        BY DEF Inserted
      <4> QED BY <1>2, <3>1, <4>1
    <3>2. CASE j # k
      <4>1. data'[j] = data[j]
        BY <1>2, <3>2
      <4>2. ASSUME NEW i \in 1..n PROVE i \in 1..(n+1) /\ Inserted(n, s, n, k)[i] = s[i]
        BY DEF Inserted
      <4>3. ASSUME NEW i \in 1..(n+1), Inserted(n, s, n, k)[i] = j
            PROVE  i \in 1..n /\ s[i] = j
        BY <3>2, <4>3 DEF Inserted
      <4> QED BY <1>1, <4>1, <4>2, <4>3 DEF Holds
    <3> QED BY <3>1, <3>2
  <2>4. n + 1 \in Nat
    OBVIOUS
  <2>5. Sequenced'
    BY <2>1, <2>2, <2>3, <2>4 DEF Sequenced
  <2> QED BY <1>2, <2>1, <2>5 DEF Inv, TypeOK, ListType
<1> QED BY <1>3, <1>4

\* Key j is one of the first n of s.
In(n, s, j) == \E x \in 1..n : s[x] = j

\* Removing the i-th key leaves the other keys in the sequence.
LEMMA RemovedKeys ==
    ASSUME NEW n \in Nat, NEW s \in [1..n -> Keys], NEW i \in 1..n,
           \A x, y \in 1..n : s[x] = s[y] => x = y, NEW j \in Keys
    PROVE  /\ n - 1 \in Nat /\ Removed(n, s, i) \in [1..(n-1) -> Keys]
           /\ In(n - 1, Removed(n, s, i), j) <=> (j # s[i] /\ In(n, s, j))
<1>1. n - 1 \in Nat /\ Removed(n, s, i) \in [1..(n-1) -> Keys]
  BY DEF Removed
<1>2. ASSUME NEW x \in 1..(n-1), Removed(n, s, i)[x] = j
      PROVE  j # s[i] /\ \E y \in 1..n : s[y] = j
  <2>1. CASE x < i
    <3>1. x \in 1..n /\ s[x] = j /\ x # i
      BY <1>2, <2>1 DEF Removed
    <3> QED BY <3>1
  <2>2. CASE ~(x < i)
    <3>1. x + 1 \in 1..n /\ s[x+1] = j /\ x + 1 # i
      BY <1>2, <2>2 DEF Removed
    <3> QED BY <3>1
  <2> QED BY <2>1, <2>2
<1>3. ASSUME j # s[i], NEW y \in 1..n, s[y] = j
      PROVE  \E x \in 1..(n-1) : Removed(n, s, i)[x] = j
  <2>1. CASE y < i
    <3>1. y \in 1..(n-1) /\ Removed(n, s, i)[y] = j
      BY <1>3, <2>1 DEF Removed
    <3> QED BY <3>1
  <2>2. CASE y > i
    <3>1. y - 1 \in 1..(n-1) /\ Removed(n, s, i)[y-1] = j
      BY <1>3, <2>2 DEF Removed
    <3> QED BY <3>1
  <2> QED BY <1>3, <2>1, <2>2
<1> QED BY <1>1, <1>2, <1>3 DEF In

\* Inserting a key adds it to the sequence.
LEMMA InsertedKeys ==
    ASSUME NEW n \in Nat, NEW s \in [1..n -> Keys], NEW i \in 1..n, NEW k \in Keys,
           NEW j \in Keys
    PROVE  /\ Inserted(n, s, i, k) \in [1..(n+1) -> Keys]
           /\ In(n + 1, Inserted(n, s, i, k), j) <=> (j = k \/ In(n, s, j))
<1>1. Inserted(n, s, i, k) \in [1..(n+1) -> Keys]
  BY DEF Inserted
<1>2. i + 1 \in 1..(n+1) /\ Inserted(n, s, i, k)[i+1] = k
  BY DEF Inserted
<1>3. ASSUME NEW y \in 1..n, s[y] = j
      PROVE  \E x \in 1..(n+1) : Inserted(n, s, i, k)[x] = j
  <2>1. CASE y <= i
    <3>1. y \in 1..(n+1) /\ Inserted(n, s, i, k)[y] = j
      BY <1>3, <2>1 DEF Inserted
    <3> QED BY <3>1
  <2>2. CASE y > i
    <3>1. y + 1 \in 1..(n+1) /\ Inserted(n, s, i, k)[y+1] = j
      BY <1>3, <2>2 DEF Inserted
    <3> QED BY <3>1
  <2> QED BY <2>1, <2>2
<1>4. ASSUME NEW x \in 1..(n+1), Inserted(n, s, i, k)[x] = j
      PROVE  j = k \/ \E y \in 1..n : s[y] = j
  <2>1. CASE x <= i
    <3>1. x \in 1..n /\ s[x] = j
      BY <1>4, <2>1 DEF Inserted
    <3> QED BY <3>1
  <2>2. CASE x = i + 1
    BY <1>2, <1>4, <2>2
  <2>3. CASE x > i + 1
    <3>1. x - 1 \in 1..n /\ s[x-1] = j
      BY <1>4, <2>3 DEF Inserted
    <3> QED BY <3>1
  <2> QED BY <2>1, <2>2, <2>3
<1> QED BY <1>1, <1>2, <1>3, <1>4 DEF In

\* A stored key is taken out of the sequence.
LEMMA PopLinks ==
    ASSUME Inv, NEW n \in Nat, NEW s \in [1..n -> Keys],
           Represents(list, n, s), Holds(data, n, s), NEW k \in Keys, Pop(k)
    PROVE  \E i \in 1..n : /\ s[i] = k /\ list' \in ListType
                           /\ Represents(list', n - 1, Removed(n, s, i))
<1>1. PICK i \in 1..n : s[i] = k
  BY DEF Holds, Pop
<1>2. list \in ListType
  BY DEF Inv, TypeOK, ListType
<1>3. list' = Unlink(list, s[i])
  BY <1>1, LinkedIffIn DEF Pop
<1> QED BY <1>1, <1>2, <1>3, UnlinkRemoves

\* Popping a stored key keeps the invariant.
LEMMA PopInv ==
    ASSUME Inv, NEW k \in Keys, Pop(k)
    PROVE  Inv'
<1>0. PICK n \in Nat : \E s \in [1..n -> Keys] : Represents(list, n, s) /\ Holds(data, n, s)
  BY DEF Inv, Sequenced
<1>1. PICK s \in [1..n -> Keys] : Represents(list, n, s) /\ Holds(data, n, s)
  BY <1>0
<1>2. PICK i \in 1..n : /\ s[i] = k /\ list' \in ListType
                         /\ Represents(list', n - 1, Removed(n, s, i))
  BY <1>1, PopLinks
<1>3. /\ raised' \in BOOLEAN
      /\ data' = [data EXCEPT ![k] = Nil] /\ data' \in [Keys -> Values \cup {Nil}]
  BY DEF Inv, TypeOK, Pop
<1>5. list' \in ListType /\ Represents(list', n - 1, Removed(n, s, i))
  BY <1>2
<1>6. \A x, y \in 1..n : s[x] = s[y] => x = y
  BY <1>1 DEF Represents
<1>7. n - 1 \in Nat /\ Removed(n, s, i) \in [1..(n-1) -> Keys]
  BY <1>2, <1>6, RemovedKeys
<1>8. Holds(data', n - 1, Removed(n, s, i))
  <2> SUFFICES ASSUME NEW j \in Keys
               PROVE  data'[j] # Nil <=> In(n - 1, Removed(n, s, i), j)
    BY DEF Holds, In
  <2>1. data'[j] # Nil <=> (j # k /\ data[j] # Nil)
    BY <1>3 DEF Inv, TypeOK
  <2>2. data[j] # Nil <=> In(n, s, j)
    BY <1>1 DEF Holds, In
  <2>3. In(n - 1, Removed(n, s, i), j) <=> (j # s[i] /\ In(n, s, j))
    BY <1>6, RemovedKeys
  <2> QED BY <1>2, <2>1, <2>2, <2>3, Zenon
<1>9. Sequenced'
  BY <1>5, <1>7, <1>8 DEF Sequenced
<1> QED BY <1>3, <1>5, <1>9 DEF Inv, TypeOK, ListType

\* A key is taken out of the sequence and put behind another one.
LEMMA MvLinks ==
    ASSUME Inv, NEW n \in Nat, NEW s \in [1..n -> Keys],
           Represents(list, n, s), Holds(data, n, s),
           NEW k \in Keys, NEW after \in Keys \ {k}, Mv(k, after)
    PROVE  \E i \in 1..n : \E p \in 1..(n-1) :
              /\ s[i] = k /\ Removed(n, s, i)[p] = after /\ list' \in ListType
              /\ Represents(list', (n - 1) + 1, Inserted(n - 1, Removed(n, s, i), p, k))
<1>2. after # Nil /\ Unlinkable(k) /\ Linked(after)
  BY KeysAssumption DEF Mv
<1>3. PICK i \in 1..n : s[i] = k
  BY <1>2, LinkedIffIn
<1>4. In(n, s, after)
  BY <1>2, LinkedIffIn DEF In
<1> DEFINE u == Unlink(list, k)
           r == Removed(n, s, i)
<1>5. u \in ListType /\ Represents(u, n - 1, r)
  BY <1>3, UnlinkRemoves DEF Inv, TypeOK, ListType
<1>6. \A x, y \in 1..n : s[x] = s[y] => x = y
  BY DEF Represents
<1>7. n - 1 \in Nat /\ r \in [1..(n-1) -> Keys]
  BY <1>3, <1>6, RemovedKeys
<1>8. \A j \in Keys : In(n - 1, r, j) <=> (j # k /\ In(n, s, j))
  <2> SUFFICES ASSUME NEW j \in Keys
               PROVE  In(n - 1, r, j) <=> (j # s[i] /\ In(n, s, j))
    BY <1>3, Zenon
  <2> QED BY <1>6, RemovedKeys
<1>9. PICK p \in 1..(n-1) : r[p] = after
  BY <1>4, <1>8 DEF In
<1>10. \A x \in 1..(n-1) : r[x] # k
  BY <1>7, <1>8 DEF In
<1>11. list' = LinkBehind(u, k, r[p])
  BY <1>2, <1>9 DEF Mv, Link
<1>12. list' \in ListType /\ Represents(list', (n - 1) + 1, Inserted(n - 1, r, p, k))
  <2> HIDE DEF u, r
  <2> QED BY <1>5, <1>7, <1>9, <1>10, <1>11, LinkBehindInserts
<1> QED BY <1>3, <1>9, <1>12

\* Moving a key behind another one keeps the invariant.
LEMMA MvInv ==
    ASSUME Inv, NEW k \in Keys, NEW after \in Keys \ {k}, Mv(k, after)
    PROVE  Inv'
<1>0. PICK n \in Nat : \E s \in [1..n -> Keys] : Represents(list, n, s) /\ Holds(data, n, s)
  BY DEF Inv, Sequenced
<1>1. PICK s \in [1..n -> Keys] : Represents(list, n, s) /\ Holds(data, n, s)
  BY <1>0
<1>2. PICK i \in 1..n : \E p \in 1..(n-1) :
         /\ s[i] = k /\ Removed(n, s, i)[p] = after /\ list' \in ListType
         /\ Represents(list', (n - 1) + 1, Inserted(n - 1, Removed(n, s, i), p, k))
  BY <1>1, MvLinks
<1> DEFINE r == Removed(n, s, i)
<1>3. PICK p \in 1..(n-1) :
         /\ s[i] = k /\ list' \in ListType
         /\ Represents(list', (n - 1) + 1, Inserted(n - 1, r, p, k))
  BY <1>2
<1> DEFINE q == Inserted(n - 1, r, p, k)
<1>4. \A x, y \in 1..n : s[x] = s[y] => x = y
  BY <1>1 DEF Represents
<1>5. n - 1 \in Nat /\ r \in [1..(n-1) -> Keys]
  BY <1>3, <1>4, RemovedKeys
<1>6. \A j \in Keys : In(n - 1, r, j) <=> (j # k /\ In(n, s, j))
  <2> SUFFICES ASSUME NEW j \in Keys
               PROVE  In(n - 1, r, j) <=> (j # s[i] /\ In(n, s, j))
    BY <1>3, Zenon
  <2> QED BY <1>4, RemovedKeys
<1>7. /\ q \in [1..((n-1)+1) -> Keys]
      /\ \A j \in Keys : In((n-1)+1, q, j) <=> (j = k \/ In(n - 1, r, j))
  <2> HIDE DEF r
  <2>1. q \in [1..((n-1)+1) -> Keys]
    BY <1>5, InsertedKeys
  <2>2. ASSUME NEW j \in Keys
        PROVE  In((n-1)+1, q, j) <=> (j = k \/ In(n - 1, r, j))
    BY <1>5, InsertedKeys
  <2> QED BY <2>1, <2>2, Zenon
<1>8. Holds(data, (n - 1) + 1, q)
  <2> HIDE DEF r, q
  <2> SUFFICES ASSUME NEW j \in Keys
               PROVE  data[j] # Nil <=> In((n-1)+1, q, j)
    BY DEF Holds, In
  <2>1. data[j] # Nil <=> In(n, s, j)
    BY <1>1 DEF Holds, In
  <2>2. In((n-1)+1, q, j) <=> (j = k \/ In(n - 1, r, j))
    BY <1>7
  <2>3. In(n - 1, r, j) <=> (j # k /\ In(n, s, j))
    BY <1>6
  <2>4. In(n, s, k)
    BY <1>3 DEF In
  <2> QED BY <2>1, <2>2, <2>3, <2>4
<1>9. Sequenced'
  <2>1. data' = data /\ (n - 1) + 1 \in Nat
    BY <1>5 DEF Mv
  <2> HIDE DEF r, q
  <2> QED BY <1>3, <1>7, <1>8, <2>1 DEF Sequenced, q
<1> QED BY <1>3, <1>9 DEF Inv, TypeOK, ListType, Mv

-----------------------------------------------------------------------------
(* Theorems *)

\* Every call of Next keeps the invariant.
LEMMA NextInv == Inv /\ [Next]_vars => Inv'
<1> SUFFICES ASSUME Inv, [Next]_vars PROVE Inv'
  OBVIOUS
<1>1. CASE UNCHANGED <<data, list>> /\ raised' \in BOOLEAN
  BY <1>1 DEF Inv, TypeOK, Sequenced
<1>2. ASSUME NEW k \in Keys, PopMissing(k) PROVE Inv'
  BY <1>1, <1>2 DEF PopMissing
<1>3. ASSUME NEW k \in Keys, NEW after \in Keys, MvRaises(k, after) PROVE Inv'
  BY <1>1, <1>3 DEF MvRaises
<1>4. CASE UNCHANGED vars
  BY <1>1, <1>4 DEF vars, Inv, TypeOK
<1> QED BY <1>2, <1>3, <1>4, SetItemInv, PopInv, MvInv DEF Next

\* The dict, its links and its ends are always of the right type.
THEOREM TypeCorrectness == Spec => []TypeOK
<1>1. Inv => TypeOK
  BY DEF Inv
<1> QED BY InitInv, NextInv, <1>1, PTL DEF Spec

\* Without moves to the front, the links always form one sequence of exactly
\* the stored keys: no item is lost from the order, none is listed twice.
THEOREM OrderIsKept == Spec => []WellLinked
<1>1. Inv => WellLinked
  <2> SUFFICES ASSUME Inv PROVE WellLinked
    OBVIOUS
  <2>1. PICK n \in Nat : \E s \in [1..n -> Keys] : Represents(list, n, s) /\ Holds(data, n, s)
    BY DEF Inv, Sequenced
  <2>2. PICK s \in [1..n -> Keys] : Represents(list, n, s) /\ Holds(data, n, s)
    BY <2>1
  <2>3. n \in 0..Cardinality(Keys)
    <3>1. \A i, j \in 1..n : s[i] = s[j] => i = j
      BY <2>2 DEF Represents
    <3> QED BY <3>1, AtMostAllKeys
  <2> QED BY <2>2, <2>3 DEF WellLinked, Holds
<1> QED BY InitInv, NextInv, <1>1, PTL DEF Spec

-----------------------------------------------------------------------------
(* ordered_items *)

\* A set of numbers has a least one.
LEMMA Least ==
    ASSUME NEW T \in SUBSET Nat, T # {}
    PROVE  \E m \in T : \A k \in T : ~(k < m)
<1> DEFINE R == OpToRel(<, Nat)
<1>1. IsWellFoundedOn(R, Nat)
  BY NatLessThanWellFounded, Zenon
<1>2. \E m \in T : \A k \in T : <<k, m>> \notin R
  <2> HIDE DEF R
  <2> QED BY <1>1, WFMin
<1>3. \A k, m \in Nat : k < m => <<k, m>> \in R
  BY DEF OpToRel
<1> QED BY <1>2, <1>3

\* A list that represents s is walked along s, and then ends.
LEMMA WalkAlong ==
    ASSUME NEW l, NEW n \in 0..Cardinality(Keys), NEW s \in [1..n -> Keys],
           Represents(l, n, s), Cardinality(Keys) \in Nat
    PROVE  \A i \in 0..Cardinality(Keys) : Walk(l)[i] = IF i < n THEN s[i+1] ELSE Nil
<1>0. PICK N \in Nat : N = Cardinality(Keys)
  OBVIOUS
<1> DEFINE F(w) == [i \in 0..N |-> IF i = 0 THEN l.first
                                   ELSE IF w[i-1] \in Keys THEN l.after[w[i-1]] ELSE Nil]
           v == [i \in 0..N |-> IF i < n THEN s[i+1] ELSE Nil]
<1>1. /\ n \in Nat /\ n <= N /\ Nil \notin Keys
      /\ l.first = IF n = 0 THEN Nil ELSE s[1]
      /\ \A i \in 1..n : l.after[s[i]] = IF i = n THEN Nil ELSE s[i+1]
  BY <1>0, KeysAssumption DEF Represents
<1>2. Walk(l) = CHOOSE w : w = F(w)
  BY <1>0 DEF Walk
<1>3. v = F(v)
  <2>1. ASSUME NEW i \in 0..N PROVE v[i] = F(v)[i]
    <3>1. CASE i = 0
      BY <1>1, <3>1
    <3>2. CASE i # 0 /\ i <= n
      <4>1. i - 1 \in 0..N /\ v[i-1] = s[i] /\ s[i] \in Keys
        BY <1>1, <3>2
      <4>2. F(v)[i] = l.after[s[i]]
        BY <3>2, <4>1
      <4>3. l.after[s[i]] = v[i]
        BY <1>1, <3>2
      <4> QED BY <4>2, <4>3
    <3>3. CASE i > n
      <4>1. i - 1 \in 0..N /\ i # 0 /\ v[i-1] = Nil
        BY <1>1, <3>3
      <4> QED BY <1>1, <3>3, <4>1
    <3> QED BY <1>1, <3>1, <3>2, <3>3
  <2> QED BY <2>1
<1> DEFINE u == Walk(l)
<1>4. u = F(u)
  <2>1. (CHOOSE w : w = F(w)) = F(CHOOSE w : w = F(w))
    <3> HIDE DEF v, F
    <3> QED BY <1>3, Zenon
  <2> QED BY <1>2, <2>1
<1>5. \A i \in 0..N : u[i] = v[i]
  <2> DEFINE Bad == {i \in 0..N : u[i] # v[i]}
  <2>1. SUFFICES ASSUME Bad # {} PROVE FALSE
    BY <2>1
  <2>2. Bad \in SUBSET Nat
    OBVIOUS
  <2>3. PICK m \in Bad : \A k \in Bad : ~(k < m)
    <3> HIDE DEF Bad
    <3> QED BY <2>1, <2>2, Least
  <2>4. m \in 0..N /\ m \in Nat
    OBVIOUS
  <2>5. u[m] = F(u)[m] /\ v[m] = F(v)[m]
    <3> HIDE DEF u, v, F
    <3> QED BY <1>3, <1>4
  <2>6. CASE m = 0
    <3> HIDE DEF u, v
    <3> QED BY <2>3, <2>4, <2>5, <2>6
  <2>7. CASE m # 0
    <3>1. m - 1 \in 0..N /\ m - 1 < m
      BY <2>4, <2>7
    <3>2. u[m-1] = v[m-1]
      <4> HIDE DEF u, v
      <4> QED BY <2>3, <3>1
    <3> HIDE DEF u, v
    <3> QED BY <2>3, <2>4, <2>5, <2>7, <3>1, <3>2
  <2> QED BY <2>6, <2>7
<1> QED BY <1>0, <1>5

\* ordered_items of a list that represents s yields s.
LEMMA ItemsInOrder ==
    ASSUME NEW l, NEW n \in 0..Cardinality(Keys), NEW s \in [1..n -> Keys], Represents(l, n, s)
    PROVE  ItemsOf(l) = s
<1>0. PICK N \in Nat : N = Cardinality(Keys)
  BY KeysAssumption, FS_CardinalityType
<1>1. \A i \in 0..N : Walk(l)[i] = IF i < n THEN s[i+1] ELSE Nil
  BY <1>0, WalkAlong
<1>2. n \in Nat /\ n <= N /\ Nil \notin Keys
  BY <1>0, KeysAssumption
<1>3. \A i \in 0..N : Walk(l)[i] \in Keys <=> i < n
  <2> SUFFICES ASSUME NEW i \in 0..N PROVE Walk(l)[i] \in Keys <=> i < n
    OBVIOUS
  <2>1. CASE i < n
    <3>1. i + 1 \in 1..n
      BY <1>2, <2>1
    <3> QED BY <1>1, <2>1, <3>1
  <2>2. CASE ~(i < n)
    BY <1>1, <1>2, <2>2
  <2> QED BY <2>1, <2>2
<1>4. WalkEnds(l, n)
  <2>1. \A i \in 0..(n-1) : i \in 0..N /\ i < n
    BY <1>2
  <2>2. n \in 0..N /\ ~(n < n)
    BY <1>2
  <2> QED BY <1>0, <1>3, <2>1, <2>2 DEF WalkEnds
<1>5. ASSUME NEW m \in 0..N, WalkEnds(l, m) PROVE m = n
  <2>1. CASE m < n
    <3>1. Walk(l)[m] \in Keys /\ m # N
      BY <1>2, <1>3, <2>1
    <3> QED BY <1>0, <1>5, <3>1 DEF WalkEnds
  <2>2. CASE m > n
    <3>1. n \in 0..(m-1) /\ n \in 0..N /\ ~(n < n)
      BY <1>2, <2>2
    <3>2. Walk(l)[n] \in Keys
      BY <1>5, <3>1 DEF WalkEnds
    <3> QED BY <1>3, <3>1, <3>2
  <2> QED BY <1>2, <2>1, <2>2
<1> DEFINE len == CHOOSE m \in 0..Cardinality(Keys) : WalkEnds(l, m)
<1>6. len = n
  <2>1. n \in 0..Cardinality(Keys) /\ WalkEnds(l, n)
    BY <1>4
  <2>2. len \in 0..Cardinality(Keys) /\ WalkEnds(l, len)
    BY <2>1, Zenon
  <2> HIDE DEF len
  <2> QED BY <1>0, <1>5, <2>2
<1>7. ItemsOf(l) = [i \in 1..len |-> Walk(l)[i-1]]
  BY Zenon DEF ItemsOf
<1>8. ItemsOf(l) = [i \in 1..n |-> Walk(l)[i-1]]
  <2> HIDE DEF len
  <2> QED BY <1>6, <1>7
<1>9. \A i \in 1..n : Walk(l)[i-1] = s[i]
  <2> SUFFICES ASSUME NEW i \in 1..n PROVE Walk(l)[i-1] = s[i]
    OBVIOUS
  <2>1. i - 1 \in 0..N /\ i - 1 < n /\ (i - 1) + 1 = i
    BY <1>2
  <2> QED BY <1>1, <2>1
<1> QED BY <1>8, <1>9

-----------------------------------------------------------------------------
(* The operations of OrderedQueue on represented sequences *)

\* Functions on 1..n are the sequences of length n.
LEMMA SequenceOf ==
    ASSUME NEW n \in Nat, NEW s \in [1..n -> Keys]
    PROVE  s \in Seq(Keys) /\ Len(s) = n
OBVIOUS

\* Two sequences of length n.
LEMMA SameSequence ==
    ASSUME NEW n \in Nat, NEW s \in [1..n -> Keys], NEW t \in Seq(Keys), Len(t) = n,
           \A i \in 1..n : t[i] = s[i]
    PROVE  t = s
<1>1. s \in Seq(Keys) /\ Len(s) = n
  BY SequenceOf
<1> QED BY <1>1, SeqEqual

\* Removed, by which the links are described, is the library's RemoveAt.
LEMMA RemoveAtIsRemoved ==
    ASSUME NEW n \in Nat, NEW s \in [1..n -> Keys], NEW i \in 1..n
    PROVE  Queue!RemoveAt(s, i) = Removed(n, s, i)
<1>1. s \in Seq(Keys) /\ Len(s) = n
  BY SequenceOf
<1> DEFINE f == SubSeq(s, 1, i - 1)
           g == SubSeq(s, i + 1, n)
<1>2. /\ f \in Seq(Keys) /\ Len(f) = i - 1
      /\ \A x \in 1..(i-1) : f[x] = s[x]
  <2>1. \A x \in 1..(i-1) : s[x] \in Keys
    OBVIOUS
  <2>2. /\ f \in Seq(Keys) /\ Len(f) = IF 1 <= i - 1 THEN (i - 1) - 1 + 1 ELSE 0
        /\ \A x \in 1..((i - 1) - 1 + 1) : f[x] = s[1 + x - 1]
    BY <2>1, SubSeqProperties
  <2> HIDE DEF f
  <2> QED BY <2>2
<1>3. /\ g \in Seq(Keys) /\ Len(g) = n - i
      /\ \A x \in 1..(n-i) : g[x] = s[i + x]
  <2>1. \A x \in (i+1)..n : s[x] \in Keys
    OBVIOUS
  <2>2. /\ g \in Seq(Keys) /\ Len(g) = IF i + 1 <= n THEN n - (i + 1) + 1 ELSE 0
        /\ \A x \in 1..(n - (i + 1) + 1) : g[x] = s[(i + 1) + x - 1]
    BY <2>1, SubSeqProperties
  <2> HIDE DEF g
  <2>3. \A x \in 1..(n-i) : x \in 1..(n - (i + 1) + 1) /\ (i + 1) + x - 1 = i + x
    OBVIOUS
  <2> QED BY <2>2, <2>3
<1>4. Queue!RemoveAt(s, i) = f \o g
  BY <1>1 DEF Queue!RemoveAt
<1> HIDE DEF f, g
<1>5. /\ f \o g \in Seq(Keys) /\ Len(f \o g) = Len(f) + Len(g)
      /\ \A x \in 1..(Len(f) + Len(g)) :
            (f \o g)[x] = IF x <= Len(f) THEN f[x] ELSE g[x - Len(f)]
  BY <1>2, <1>3, ConcatProperties
<1>6. Len(f \o g) = n - 1
  BY <1>2, <1>3, <1>5
<1>7. ASSUME NEW x \in 1..(n-1) PROVE (f \o g)[x] = Removed(n, s, i)[x]
  <2>1. x \in 1..(Len(f) + Len(g))
    BY <1>2, <1>3
  <2>2. CASE x < i
    <3>1. x \in 1..(i-1) /\ x <= Len(f)
      BY <1>2, <2>2
    <3> QED BY <1>2, <1>5, <2>1, <2>2, <3>1 DEF Removed
  <2>3. CASE ~(x < i)
    <3>1. x - (i - 1) \in 1..(n-i) /\ ~(x <= i - 1) /\ i + (x - (i - 1)) = x + 1
      BY <2>3
    <3> QED BY <1>2, <1>3, <1>5, <2>1, <2>3, <3>1 DEF Removed
  <2> QED BY <2>2, <2>3
<1>8. n - 1 \in Nat /\ Removed(n, s, i) \in [1..(n-1) -> Keys]
  BY DEF Removed
<1> QED BY <1>4, <1>5, <1>6, <1>7, <1>8, SameSequence

\* Inserted, by which the links are described, is the library's InsertAt.
LEMMA InsertAtIsInserted ==
    ASSUME NEW n \in Nat, NEW s \in [1..n -> Keys], NEW i \in 1..n, NEW k \in Keys
    PROVE  Queue!InsertAt(s, i + 1, k) = Inserted(n, s, i, k)
<1>1. s \in Seq(Keys) /\ Len(s) = n
  BY SequenceOf
<1> DEFINE f == SubSeq(s, 1, i)
           g == SubSeq(s, i + 1, n)
           h == f \o <<k>>
<1>2. /\ f \in Seq(Keys) /\ Len(f) = i
      /\ \A x \in 1..i : f[x] = s[x]
  <2>1. \A x \in 1..i : s[x] \in Keys
    OBVIOUS
  <2>2. /\ f \in Seq(Keys) /\ Len(f) = IF 1 <= i THEN i - 1 + 1 ELSE 0
        /\ \A x \in 1..(i - 1 + 1) : f[x] = s[1 + x - 1]
    BY <2>1, SubSeqProperties
  <2> HIDE DEF f
  <2> QED BY <2>2
<1>3. /\ g \in Seq(Keys) /\ Len(g) = n - i
      /\ \A x \in 1..(n-i) : g[x] = s[i + x]
  <2>1. \A x \in (i+1)..n : s[x] \in Keys
    OBVIOUS
  <2>2. /\ g \in Seq(Keys) /\ Len(g) = IF i + 1 <= n THEN n - (i + 1) + 1 ELSE 0
        /\ \A x \in 1..(n - (i + 1) + 1) : g[x] = s[(i + 1) + x - 1]
    BY <2>1, SubSeqProperties
  <2> HIDE DEF g
  <2>3. \A x \in 1..(n-i) : x \in 1..(n - (i + 1) + 1) /\ (i + 1) + x - 1 = i + x
    OBVIOUS
  <2> QED BY <2>2, <2>3
<1>4. Queue!InsertAt(s, i + 1, k) = h \o g
  <2>1. (i + 1) - 1 = i
    OBVIOUS
  <2> QED BY <1>1, <2>1 DEF Queue!InsertAt
<1> HIDE DEF f, g
<1>5. <<k>> \in Seq(Keys) /\ Len(<<k>>) = 1 /\ <<k>>[1] = k
  OBVIOUS
<1>6. /\ h \in Seq(Keys) /\ Len(h) = i + 1
      /\ \A x \in 1..(i + 1) : h[x] = IF x <= i THEN f[x] ELSE <<k>>[x - i]
  BY <1>2, <1>5, ConcatProperties
<1> HIDE DEF h
<1>7. /\ h \o g \in Seq(Keys) /\ Len(h \o g) = Len(h) + Len(g)
      /\ \A x \in 1..(Len(h) + Len(g)) :
            (h \o g)[x] = IF x <= Len(h) THEN h[x] ELSE g[x - Len(h)]
  BY <1>3, <1>6, ConcatProperties
<1>8. Len(h \o g) = n + 1
  BY <1>3, <1>6, <1>7
<1>9. ASSUME NEW x \in 1..(n+1) PROVE (h \o g)[x] = Inserted(n, s, i, k)[x]
  <2>1. x \in 1..(Len(h) + Len(g))
    BY <1>3, <1>6
  <2>2. CASE x <= i
    <3>1. x \in 1..i /\ x \in 1..(i + 1) /\ x <= Len(h)
      BY <1>6, <2>2
    <3> QED BY <1>2, <1>6, <1>7, <2>1, <2>2, <3>1 DEF Inserted
  <2>3. CASE x = i + 1
    <3>1. x \in 1..(i + 1) /\ x <= Len(h) /\ ~(x <= i) /\ x - i = 1
      BY <1>6, <2>3
    <3>2. h[x] = k
      BY <1>5, <1>6, <3>1
    <3> QED BY <1>7, <2>1, <2>3, <3>1, <3>2 DEF Inserted
  <2>4. CASE x > i + 1
    <3>1. x - (i + 1) \in 1..(n-i) /\ ~(x <= i + 1) /\ i + (x - (i + 1)) = x - 1
      BY <2>4
    <3>2. (h \o g)[x] = g[x - (i + 1)]
      BY <1>6, <1>7, <2>1, <3>1
    <3>3. g[x - (i + 1)] = s[x - 1]
      BY <1>3, <3>1
    <3>4. Inserted(n, s, i, k)[x] = s[x - 1]
      BY <2>4 DEF Inserted
    <3> QED BY <3>2, <3>3, <3>4
  <2>5. x <= i \/ x = i + 1 \/ x > i + 1
    OBVIOUS
  <2> QED BY <2>2, <2>3, <2>4, <2>5
<1>10. n + 1 \in Nat /\ Inserted(n, s, i, k) \in [1..(n+1) -> Keys]
  BY DEF Inserted
<1> QED BY <1>4, <1>7, <1>8, <1>9, <1>10, SameSequence

\* Inserting behind the last item is appending.
LEMMA AppendIsInserted ==
    ASSUME NEW n \in Nat, NEW s \in [1..n -> Keys], NEW k \in Keys
    PROVE  Append(s, k) = Inserted(n, s, n, k)
<1>1. s \in Seq(Keys) /\ Len(s) = n
  BY SequenceOf
<1>2. /\ Append(s, k) \in Seq(Keys) /\ Len(Append(s, k)) = n + 1
      /\ \A x \in 1..n : Append(s, k)[x] = s[x]
      /\ Append(s, k)[n+1] = k
  BY <1>1, AppendProperties
<1>3. n + 1 \in Nat /\ Inserted(n, s, n, k) \in [1..(n+1) -> Keys]
  BY DEF Inserted
<1>4. ASSUME NEW x \in 1..(n+1) PROVE Append(s, k)[x] = Inserted(n, s, n, k)[x]
  BY <1>2 DEF Inserted
<1> QED BY <1>2, <1>3, <1>4, SameSequence

-----------------------------------------------------------------------------
(* The refinement *)

\* The sequence that the links represent, and that it is ordered_items.
LEMMA ItemsAre ==
    ASSUME NEW l, NEW n \in Nat, NEW s \in [1..n -> Keys], Represents(l, n, s)
    PROVE  ItemsOf(l) = s
<1>1. \A i, j \in 1..n : s[i] = s[j] => i = j
  BY DEF Represents
<1>2. n \in 0..Cardinality(Keys)
  BY <1>1, AtMostAllKeys
<1> QED BY <1>2, ItemsInOrder

\* __init__ makes an empty queue.
LEMMA InitQueue == Init => Queue!Init
<1> SUFFICES ASSUME Init PROVE Queue!Init
  OBVIOUS
<1>1. [x \in 1..0 |-> Nil] \in [1..0 -> Keys] /\ [x \in 1..0 |-> Nil] = <<>>
  OBVIOUS
<1>2. Represents(list, 0, [x \in 1..0 |-> Nil])
  BY DEF Init, Represents
<1>3. ItemsOf(list) = <<>>
  BY <1>1, <1>2, ItemsAre
<1> QED BY <1>3 DEF Init, Queue!Init, OrderedItems

\* __setitem__ is a step of the queue or leaves it alone.
LEMMA SetItemQueue ==
    ASSUME Inv, NEW k \in Keys, NEW v \in Values, SetItem(k, v)
    PROVE  Queue!Set(k, v)
<1>0. PICK n \in Nat : \E s \in [1..n -> Keys] : Represents(list, n, s) /\ Holds(data, n, s)
  BY DEF Inv, Sequenced
<1>1. PICK s \in [1..n -> Keys] : Represents(list, n, s) /\ Holds(data, n, s)
  BY <1>0
<1>2. OrderedItems = s
  BY <1>1, ItemsAre DEF OrderedItems
<1>3. CASE data[k] # Nil
  <2>1. list' = list
    BY <1>3 DEF SetItem
  <2>2. OrderedItems' = OrderedItems
    BY <2>1 DEF OrderedItems
  <2> QED BY <1>3, <2>2 DEF SetItem, Queue!Set, Queue!Stored
<1>4. CASE data[k] = Nil
  <2>1. Represents(list', n + 1, Inserted(n, s, n, k))
    BY <1>1, <1>4, SetItemLinks
  <2>2. n + 1 \in Nat /\ Inserted(n, s, n, k) \in [1..(n+1) -> Keys]
    BY DEF Inserted
  <2>3. ItemsOf(list') = Append(s, k)
    BY <2>1, <2>2, ItemsAre, AppendIsInserted
  <2>4. OrderedItems' = Append(OrderedItems, k)
    BY <1>2, <2>3 DEF OrderedItems
  <2> QED BY <1>4, <2>4 DEF SetItem, Queue!Set, Queue!Stored
<1> QED BY <1>3, <1>4

\* pop is a step of the queue or leaves it alone.
LEMMA PopQueue ==
    ASSUME Inv, NEW k \in Keys, Pop(k)
    PROVE  Queue!Pop(k)
<1>0. PICK n \in Nat : \E s \in [1..n -> Keys] : Represents(list, n, s) /\ Holds(data, n, s)
  BY DEF Inv, Sequenced
<1>1. PICK s \in [1..n -> Keys] : Represents(list, n, s) /\ Holds(data, n, s)
  BY <1>0
<1>2. OrderedItems = s /\ Len(s) = n
  BY <1>1, ItemsAre, SequenceOf DEF OrderedItems
<1>3. PICK i \in 1..n : s[i] = k /\ Represents(list', n - 1, Removed(n, s, i))
  BY <1>1, PopLinks
<1>4. n - 1 \in Nat /\ Removed(n, s, i) \in [1..(n-1) -> Keys]
  BY DEF Removed
<1>5. ItemsOf(list') = Queue!RemoveAt(s, i)
  BY <1>3, <1>4, ItemsAre, RemoveAtIsRemoved
<1>6. OrderedItems' = Queue!RemoveAt(OrderedItems, i) /\ OrderedItems[i] = k
  BY <1>2, <1>3, <1>5 DEF OrderedItems
<1>7. i \in 1..Len(OrderedItems)
  BY <1>2
<1> QED BY <1>6, <1>7 DEF Pop, Queue!Pop, Queue!Stored

\* mv is a step of the queue or leaves it alone.
LEMMA MvQueue ==
    ASSUME Inv, NEW k \in Keys, NEW after \in Keys \ {k}, Mv(k, after)
    PROVE  Queue!Mv(k, after)
<1>0. PICK n \in Nat : \E s \in [1..n -> Keys] : Represents(list, n, s) /\ Holds(data, n, s)
  BY DEF Inv, Sequenced
<1>1. PICK s \in [1..n -> Keys] : Represents(list, n, s) /\ Holds(data, n, s)
  BY <1>0
<1>2. OrderedItems = s /\ Len(s) = n
  BY <1>1, ItemsAre, SequenceOf DEF OrderedItems
<1>3. PICK i \in 1..n : \E p \in 1..(n-1) :
         /\ s[i] = k /\ Removed(n, s, i)[p] = after
         /\ Represents(list', (n - 1) + 1, Inserted(n - 1, Removed(n, s, i), p, k))
  BY <1>1, MvLinks
<1>4. PICK r \in [1..(n-1) -> Keys] : r = Removed(n, s, i) /\ r = Queue!RemoveAt(s, i)
  <2>1. Removed(n, s, i) \in [1..(n-1) -> Keys]
    BY DEF Removed
  <2> QED BY <2>1, RemoveAtIsRemoved
<1>5. PICK p \in 1..(n-1) :
         /\ s[i] = k /\ r[p] = after
         /\ Represents(list', (n - 1) + 1, Inserted(n - 1, r, p, k))
  BY <1>3, <1>4
<1>6. PICK m \in Nat : m = n - 1
  OBVIOUS
<1>7. m + 1 \in Nat /\ Inserted(m, r, p, k) \in [1..(m+1) -> Keys]
  BY <1>6 DEF Inserted
<1>8. Inserted(m, r, p, k) = Queue!InsertAt(r, p + 1, k)
  BY <1>6, InsertAtIsInserted
<1>9. ItemsOf(list') = Queue!InsertAt(r, p + 1, k)
  BY <1>5, <1>6, <1>7, <1>8, ItemsAre
<1>10. /\ i \in 1..Len(OrderedItems) /\ p \in 1..(Len(OrderedItems) - 1) /\ OrderedItems[i] = k
       /\ Queue!RemoveAt(OrderedItems, i)[p] = after
       /\ OrderedItems' = Queue!InsertAt(Queue!RemoveAt(OrderedItems, i), p + 1, k)
  BY <1>2, <1>4, <1>5, <1>9 DEF OrderedItems
<1>11. data[k] # Nil /\ data[after] # Nil
  <2>1. Unlinkable(k) /\ Linked(after)
    BY KeysAssumption DEF Mv
  <2> QED BY <1>1, <2>1, LinkedIffIn DEF Holds
<1> QED BY <1>10, <1>11 DEF Mv, Queue!Mv, Queue!Stored

\* Every call is a step of the queue or leaves it alone.
LEMMA NextQueue == Inv /\ [Next]_vars => [Queue!Next]_<<data, OrderedItems>>
<1> SUFFICES ASSUME Inv, [Next]_vars PROVE Queue!Next \/ UNCHANGED <<data, OrderedItems>>
  OBVIOUS
<1>1. CASE UNCHANGED <<data, list>>
  BY <1>1 DEF OrderedItems
<1>2. ASSUME NEW k \in Keys, NEW v \in Values, SetItem(k, v) PROVE Queue!Next
  BY <1>2, SetItemQueue DEF Queue!Next
<1>3. ASSUME NEW k \in Keys, Pop(k) PROVE Queue!Next
  BY <1>3, PopQueue DEF Queue!Next
<1>4. ASSUME NEW k \in Keys, NEW after \in Keys \ {k}, Mv(k, after) PROVE Queue!Next
  BY <1>4, MvQueue DEF Queue!Next
<1> QED BY <1>1, <1>2, <1>3, <1>4 DEF Next, PopMissing, MvRaises, vars

\* The doubly linked list implements the ordered queue: for any keys and values
\* and any calls but moves to the front, ordered_items follows every call as
\* OrderedQueue says, and changes with no other.
THEOREM DictIsQueue == Spec => ImplementsQueue
<1>1. Spec => []Inv
  BY InitInv, NextInv, PTL DEF Spec
<1> QED BY <1>1, InitQueue, NextQueue, PTL DEF Spec, ImplementsQueue, Queue!Spec
=============================================================================
