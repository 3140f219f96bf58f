--------------------------- MODULE ServerIOProofs ---------------------------
(***************************************************************************)
(* For channels of any capacity and any number of calls and entries: no    *)
(* command and no reply is lost or doubled on its way, the wrapper is      *)
(* ready only after raft is, what it shows never goes back, and it differs *)
(* from an agreed entry only for a reason.                                 *)
(***************************************************************************)
EXTENDS ServerIO, SequenceTheorems, TLAPS

-----------------------------------------------------------------------------
(* Sequences *)

Elems(s) == {s[i] : i \in 1..Len(s)}

\* What a sequence holds after Append.
LEMMA AppendElems ==
    ASSUME NEW S, NEW s \in Seq(S), NEW e \in S
    PROVE  /\ Append(s, e) \in Seq(S) /\ Append(s, e) # <<>>
           /\ Elems(Append(s, e)) = Elems(s) \cup {e}
           /\ Len(Append(s, e)) = Len(s) + 1
           /\ s = <<>> => Head(Append(s, e)) = e
           /\ s # <<>> => Head(Append(s, e)) = Head(s)
<1>1. /\ Append(s, e) \in Seq(S) /\ Append(s, e) # <<>> /\ Len(Append(s, e)) = Len(s) + 1
      /\ Len(s) \in Nat
      /\ \A i \in 1..Len(s) : Append(s, e)[i] = s[i]
      /\ Append(s, e)[Len(s) + 1] = e
  BY AppendProperties, LenProperties
<1>2. Elems(Append(s, e)) = Elems(s) \cup {e}
  <2>1. \A i \in 1..(Len(s) + 1) : i \in 1..Len(s) \/ i = Len(s) + 1
    BY <1>1
  <2>2. \A i \in 1..Len(s) : i \in 1..(Len(s) + 1)
    BY <1>1
  <2>3. Len(s) + 1 \in 1..(Len(s) + 1)
    BY <1>1
  <2> QED BY <1>1, <2>1, <2>2, <2>3 DEF Elems
<1> QED BY <1>1, <1>2, HeadTailAppend

\* What a sequence holds, and after Tail.
LEMMA TailElems ==
    ASSUME NEW S, NEW s \in Seq(S), s # <<>>
    PROVE  /\ Tail(s) \in Seq(S) /\ Head(s) \in S /\ Head(s) \in Elems(s)
           /\ Elems(s) = {Head(s)} \cup Elems(Tail(s))
           /\ Len(Tail(s)) = Len(s) - 1 /\ Len(s) \in Nat /\ Len(s) > 0
           /\ Len(s) <= 1 => Tail(s) = <<>>
<1>1. /\ Tail(s) \in Seq(S) /\ Head(s) \in S /\ Head(s) = s[1]
      /\ Len(Tail(s)) = Len(s) - 1 /\ Len(s) \in Nat /\ Len(s) > 0
      /\ \A i \in 1..Len(Tail(s)) : Tail(s)[i] = s[i + 1]
  BY HeadTailProperties, LenProperties, EmptySeq
<1>2. Elems(s) = {Head(s)} \cup Elems(Tail(s))
  <2>1. ASSUME NEW i \in 1..Len(s) PROVE s[i] \in {Head(s)} \cup Elems(Tail(s))
    <3>1. CASE i = 1
      BY <1>1, <3>1
    <3>2. CASE i # 1
      <4>1. i - 1 \in 1..Len(Tail(s)) /\ (i - 1) + 1 = i
        BY <1>1, <3>2
      <4> QED BY <1>1, <4>1 DEF Elems
    <3> QED BY <3>1, <3>2
  <2>2. 1 \in 1..Len(s) /\ \A i \in 1..Len(Tail(s)) : i + 1 \in 1..Len(s)
    BY <1>1
  <2>3. Head(s) \in Elems(s) /\ \A i \in 1..Len(Tail(s)) : Tail(s)[i] \in Elems(s)
    BY <1>1, <2>2 DEF Elems
  <2> QED BY <2>1, <2>3 DEF Elems
<1>3. Len(s) <= 1 => Tail(s) = <<>>
  BY <1>1, EmptySeq
<1> QED BY <1>1, <1>2, <1>3

\* Short sequences.
LEMMA ShortElems ==
    ASSUME NEW a, NEW b
    PROVE  /\ Elems(<<>>) = {} /\ Elems(<<a>>) = {a} /\ Elems(<<a, b>>) = {a, b}
<1>1. /\ \A i \in 1..1 : i = 1 
      /\ \A i \in 1..2 : i = 1 \/ i = 2
      /\ 1 \in 1..1 /\ 1 \in 1..2 /\ 2 \in 1..2
  OBVIOUS
<1>2. Elems(<<>>) = {}
  BY DEF Elems
<1>3. Elems(<<a>>) = {a}
  BY <1>1 DEF Elems
<1>4. Elems(<<a, b>>) = {a, b}
  BY <1>1 DEF Elems
<1> QED BY <1>2, <1>3, <1>4

-----------------------------------------------------------------------------
(* Channels *)

Held(c) == Len(chan[c])

In(c) == Elems(chan[c])

ChanOK ==
    /\ chan \in [Channels -> Seq(Item)]
    /\ \A c \in Channels : Held(c) \in Nat /\ Held(c) <= Capacity(c)

\* Capacities are numbers.
LEMMA Capacities == \A c \in Channels : Capacity(c) \in Nat \ {0}
BY CapacitiesAssumption DEF Capacity

\* The types of channels, as steps use them.
LEMMA ChanTypes == TypeOK => ChanOK
<1> SUFFICES ASSUME TypeOK PROVE ChanOK
  OBVIOUS
<1>1. chan \in [Channels -> Seq(Item)] /\ \A c \in Channels : Held(c) <= Capacity(c)
  BY DEF TypeOK, Held
<1>2. \A c \in Channels : Held(c) \in Nat
  BY <1>1, LenProperties DEF Held
<1> QED BY <1>1, <1>2 DEF ChanOK

\* What a channel holds.
LEMMA InTyped ==
    ASSUME ChanOK, NEW c \in Channels
    PROVE  /\ In(c) \subseteq Item
           /\ chan[c] = <<>> => In(c) = {} /\ Held(c) = 0
           /\ chan[c] # <<>> => Head(chan[c]) \in In(c) /\ Head(chan[c]) \in Item /\ Held(c) > 0
<1>1. PICK s \in Seq(Item) : s = chan[c]
  BY DEF ChanOK
<1>2. Elems(s) \subseteq Item
  BY ElementOfSeq DEF Elems
<1>3. s # <<>> => Head(s) \in Elems(s) /\ Head(s) \in Item /\ Len(s) > 0
  BY TailElems
<1>4. s = <<>> => Elems(s) = {} /\ Len(s) = 0
  BY ShortElems
<1> QED BY <1>1, <1>2, <1>3, <1>4 DEF In, Held

\* A send.
LEMMA PutStep ==
    ASSUME ChanOK, NEW c \in Channels, NEW item \in Item, Put(c, item)
    PROVE  /\ ChanOK'
           /\ chan'[c] = Append(chan[c], item) /\ chan'[c] # <<>>
           /\ chan[c] = <<>> => Head(chan'[c]) = item
           /\ chan[c] # <<>> => Head(chan'[c]) = Head(chan[c])
           /\ In(c)' = In(c) \cup {item} /\ Held(c)' = Held(c) + 1
           /\ \A d \in Channels \ {c} : chan'[d] = chan[d] /\ In(d)' = In(d) /\ Held(d)' = Held(d)
<1>1. PICK s \in Seq(Item) : s = chan[c]
  BY DEF ChanOK
<1>2. chan' = [chan EXCEPT ![c] = Append(s, item)] /\ Held(c) < Capacity(c)
  BY <1>1 DEF Put, HasRoom, Held
<1>3. /\ Append(s, item) \in Seq(Item) /\ Append(s, item) # <<>>
      /\ Elems(Append(s, item)) = Elems(s) \cup {item}
      /\ Len(Append(s, item)) = Len(s) + 1
      /\ s = <<>> => Head(Append(s, item)) = item
      /\ s # <<>> => Head(Append(s, item)) = Head(s)
  BY AppendElems
<1>4. chan'[c] = Append(s, item) /\ \A d \in Channels \ {c} : chan'[d] = chan[d]
  BY <1>2 DEF ChanOK
<1>5. In(c)' = In(c) \cup {item} /\ Held(c)' = Held(c) + 1
  BY <1>1, <1>3, <1>4 DEF In, Held
<1>6. \A d \in Channels \ {c} : In(d)' = In(d) /\ Held(d)' = Held(d)
  BY <1>4 DEF In, Held
<1>7. chan' \in [Channels -> Seq(Item)]
  BY <1>2, <1>3 DEF ChanOK
<1>8. ASSUME NEW d \in Channels PROVE Held(d)' \in Nat /\ Held(d)' <= Capacity(d)
  <2>1. Held(d) \in Nat /\ Held(d) <= Capacity(d) /\ Capacity(d) \in Nat
    BY Capacities DEF ChanOK
  <2> QED BY <1>2, <1>5, <1>6, <2>1
<1> QED BY <1>1, <1>3, <1>4, <1>5, <1>6, <1>7, <1>8 DEF ChanOK

\* A receive, with the channels as they are afterwards.
LEMMA TakenStep ==
    ASSUME ChanOK, NEW c \in Channels, chan[c] # <<>>, NEW w, w = Taken(c)
    PROVE  /\ w \in [Channels -> Seq(Item)]
           /\ w[c] = Tail(chan[c]) /\ \A d \in Channels \ {c} : w[d] = chan[d]
           /\ In(c) = {Head(chan[c])} \cup Elems(w[c])
           /\ Len(w[c]) = Held(c) - 1
           /\ Held(c) <= 1 => w[c] = <<>>
<1>1. PICK s \in Seq(Item) : s = chan[c]
  BY DEF ChanOK
<1>2. w = [chan EXCEPT ![c] = Tail(s)]
  BY <1>1 DEF Taken
<1>3. /\ Tail(s) \in Seq(Item) /\ Elems(s) = {Head(s)} \cup Elems(Tail(s))
      /\ Len(Tail(s)) = Len(s) - 1
      /\ Len(s) <= 1 => Tail(s) = <<>>
  BY <1>1, TailElems
<1>4. w[c] = Tail(s) /\ \A d \in Channels \ {c} : w[d] = chan[d]
  BY <1>2 DEF ChanOK
<1>5. w \in [Channels -> Seq(Item)]
  BY <1>2, <1>3 DEF ChanOK
<1> QED BY <1>1, <1>3, <1>4, <1>5 DEF In, Held

\* The same where nothing else happens to the channels.
LEMMA TakeStep ==
    ASSUME ChanOK, NEW c \in Channels, chan[c] # <<>>, Take(c)
    PROVE  /\ ChanOK'
           /\ chan'[c] = Tail(chan[c])
           /\ In(c) = {Head(chan[c])} \cup In(c)' /\ Held(c)' = Held(c) - 1
           /\ Held(c) <= 1 => chan'[c] = <<>>
           /\ \A d \in Channels \ {c} : chan'[d] = chan[d] /\ In(d)' = In(d) /\ Held(d)' = Held(d)
<1>1. chan' = Taken(c)
  BY DEF Take
<1>2. /\ chan' \in [Channels -> Seq(Item)]
      /\ chan'[c] = Tail(chan[c]) /\ \A d \in Channels \ {c} : chan'[d] = chan[d]
      /\ In(c) = {Head(chan[c])} \cup Elems(chan'[c])
      /\ Len(chan'[c]) = Held(c) - 1
      /\ Held(c) <= 1 => chan'[c] = <<>>
  BY <1>1, TakenStep
<1>3. In(c) = {Head(chan[c])} \cup In(c)' /\ Held(c)' = Held(c) - 1
  BY <1>2 DEF In, Held
<1>4. \A d \in Channels \ {c} : In(d)' = In(d) /\ Held(d)' = Held(d)
  BY <1>2 DEF In, Held
<1>5. Held(c) > 0
  BY InTyped
<1>6. ASSUME NEW d \in Channels PROVE Held(d)' \in Nat /\ Held(d)' <= Capacity(d)
  <2>1. Held(d) \in Nat /\ Held(d) <= Capacity(d) /\ Capacity(d) \in Nat
    BY Capacities DEF ChanOK
  <2> QED BY <1>3, <1>4, <1>5, <2>1
<1> QED BY <1>2, <1>3, <1>4, <1>6 DEF ChanOK

\* From one channel to another.
LEMMA PassStep ==
    ASSUME ChanOK, NEW a \in Channels, NEW b \in Channels \ {a}, NEW item \in Item,
           chan[a] # <<>>, Pass(a, b, item)
    PROVE  /\ ChanOK'
           /\ chan'[a] = Tail(chan[a]) /\ chan'[b] = Append(chan[b], item)
           /\ In(a) = {Head(chan[a])} \cup In(a)' /\ Held(a)' = Held(a) - 1
           /\ Held(a) <= 1 => chan'[a] = <<>>
           /\ In(b)' = In(b) \cup {item} /\ Held(b)' = Held(b) + 1
           /\ \A d \in Channels \ {a, b} : chan'[d] = chan[d] /\ In(d)' = In(d) /\ Held(d)' = Held(d)
<1>1. PICK s \in Seq(Item), t \in Seq(Item) : s = chan[a] /\ t = chan[b]
  BY DEF ChanOK
<1>2. chan' = [chan EXCEPT ![a] = Tail(s), ![b] = Append(t, item)] /\ Held(b) < Capacity(b)
  BY <1>1 DEF Pass, HasRoom, Held, ChanOK
<1>3. /\ Tail(s) \in Seq(Item) /\ Elems(s) = {Head(s)} \cup Elems(Tail(s))
      /\ Len(Tail(s)) = Len(s) - 1
      /\ Len(s) <= 1 => Tail(s) = <<>>
  BY <1>1, TailElems
<1>4. /\ Append(t, item) \in Seq(Item)
      /\ Elems(Append(t, item)) = Elems(t) \cup {item}
      /\ Len(Append(t, item)) = Len(t) + 1
  BY AppendElems
<1>5. /\ chan'[a] = Tail(s) /\ chan'[b] = Append(t, item)
      /\ \A d \in Channels \ {a, b} : chan'[d] = chan[d]
  BY <1>2 DEF ChanOK
<1>6. chan' \in [Channels -> Seq(Item)]
  BY <1>2, <1>3, <1>4 DEF ChanOK
<1>7. In(a) = {Head(chan[a])} \cup In(a)' /\ Held(a)' = Held(a) - 1 /\ (Held(a) <= 1 => chan'[a] = <<>>)
  BY <1>1, <1>3, <1>5 DEF In, Held
<1>8. In(b)' = In(b) \cup {item} /\ Held(b)' = Held(b) + 1
  BY <1>1, <1>4, <1>5 DEF In, Held
<1>9. \A d \in Channels \ {a, b} : In(d)' = In(d) /\ Held(d)' = Held(d)
  BY <1>5 DEF In, Held
<1>10. Held(a) > 0
  BY InTyped
<1>11. ASSUME NEW d \in Channels PROVE Held(d)' \in Nat /\ Held(d)' <= Capacity(d)
  <2>1. Held(d) \in Nat /\ Held(d) <= Capacity(d) /\ Capacity(d) \in Nat
    BY Capacities DEF ChanOK
  <2> QED BY <1>2, <1>7, <1>8, <1>9, <1>10, <2>1
<1> QED BY <1>1, <1>5, <1>6, <1>7, <1>8, <1>9, <1>11 DEF ChanOK

\* An error, reported or not, changes no channel but errChan.
LEMMA ReportStep ==
    ASSUME ChanOK, NEW g, NEW w \in [Channels -> Seq(Item)], w["err"] = chan["err"],
           \A c \in Channels : Len(w[c]) \in Nat /\ Len(w[c]) <= Held(c),
           Report(g, w)
    PROVE  /\ ChanOK' /\ \A c \in Channels \ {"err"} : chan'[c] = w[c]
           /\ failed' \subseteq failed \cup {g}
<1>0. "err" \in Channels /\ It("Error") \in Item
  BY DEF Channels, It, Item
<1>1. CASE HasRoom("err")
  <2>1. PICK s \in Seq(Item) : s = chan["err"]
    BY <1>0 DEF ChanOK
  <2>2. chan' = [w EXCEPT !["err"] = Append(s, It("Error"))] /\ UNCHANGED failed
    BY <1>1, <2>1 DEF Report
  <2>3. /\ Append(s, It("Error")) \in Seq(Item)
        /\ Len(Append(s, It("Error"))) = Len(s) + 1
    BY <1>0, AppendElems
  <2>4. /\ chan' \in [Channels -> Seq(Item)]
        /\ chan'["err"] = Append(s, It("Error")) /\ \A c \in Channels \ {"err"} : chan'[c] = w[c]
    BY <1>0, <2>2, <2>3
  <2>5. Held("err")' = Held("err") + 1 /\ Held("err") < Capacity("err")
    BY <1>1, <2>1, <2>3, <2>4 DEF Held, HasRoom
  <2>6. ASSUME NEW d \in Channels PROVE Held(d)' \in Nat /\ Held(d)' <= Capacity(d)
    <3>1. Held(d) \in Nat /\ Held(d) <= Capacity(d) /\ Capacity(d) \in Nat
      BY Capacities DEF ChanOK
    <3>2. CASE d = "err"
      BY <2>5, <3>1, <3>2
    <3>3. CASE d # "err"
      <4>1. PICK n \in Nat : n = Len(w[d]) /\ n <= Held(d)
        OBVIOUS
      <4>2. Held(d)' = n
        BY <2>4, <3>3, <4>1 DEF Held
      <4> QED BY <3>1, <4>1, <4>2
    <3> QED BY <3>2, <3>3
  <2> QED BY <2>2, <2>4, <2>6 DEF ChanOK
<1>2. CASE ~HasRoom("err")
  <2>1. chan' = w /\ failed' = failed \cup {g}
    BY <1>2 DEF Report
  <2>2. ASSUME NEW d \in Channels PROVE Held(d)' \in Nat /\ Held(d)' <= Capacity(d)
    <3>1. Held(d) \in Nat /\ Held(d) <= Capacity(d) /\ Capacity(d) \in Nat
      BY Capacities DEF ChanOK
    <3>2. PICK n \in Nat : n = Len(w[d]) /\ n <= Held(d)
      OBVIOUS
    <3>3. Held(d)' = n
      BY <2>1, <3>2 DEF Held
    <3> QED BY <3>1, <3>2, <3>3
  <2> QED BY <2>1, <2>2 DEF ChanOK
<1> QED BY <1>1, <1>2

-----------------------------------------------------------------------------
(* The invariant *)

ToSend == Elems(todo)

HasReply(s) == \E i \in 1..Len(s) : s[i].to = "send"

ReplyLast(s) == \A i \in 1..Len(s) : s[i].to = "send" => i = Len(s) /\ ~s[i].try

\* A handler that waits for agreement has sent nothing; a reply is sent last.
LoopInv == ReplyLast(todo) /\ (at # "select" => todo = <<>>)

\* Without raft there is no leader, no state and nothing for the wrapper.
RaftInv ==
    ~raft => /\ ~leads /\ ~news /\ ~polling /\ ~ready
             /\ notes = 0 /\ live = 0 /\ at = "select"
             /\ In("push") = {} /\ In("pull") = {}
             /\ \A s \in ToSend : s.to # "push"

\* The host calls again only when nothing is left of the last call.
ReplyInv ==
    up => /\ Held("req") <= 1
          /\ \A x \in In("req") : x.kind \in {"Command", "Garbled"}
          /\ chan["req"] # <<>> => calling # "nothing"
          /\ chan["req"] # <<>> /\ Head(chan["req"]).kind = "Garbled" => calling = "no reply"
          /\ OneReply

\* Where the object of an entry was changed: it is the newest and its Commit is
\* under way, or it is explained.  Only the pipe makes bytes, and whatever left it
\* dirty is still dirty.
DirtyInv ==
    /\ \A x \in In("push") : x.kind # "Bytes"
    /\ \A s \in ToSend : s.item.kind # "Bytes"
    /\ \A e \in dirty : /\ e <= live
                        /\ e \in spoilt \/ live > e \/ (live = e /\ at \in {"commitCommand", "commitRequest"})
    /\ \A x \in In("pull") : x.kind = "Bytes" /\ x.dirty => x.entry \in dirty
    /\ cache.dirty => cache.entry \in dirty

\* The entries of the states on their way to the wrapper.
Valued(x) == x.kind \in {"State", "Bytes"}

Vals(xs) == {x.entry : x \in {y \in xs : Valued(y)}}

Vals2(ss) == Vals({s.item : s \in ss})

Sorted(s) ==
    \A i, j \in 1..Len(s) : i < j /\ Valued(s[i]) /\ Valued(s[j]) => s[i].entry <= s[j].entry

Leq(A, B) == \A a \in A, b \in B : a <= b

\* From the FSM to the wrapper entries never get newer.
ForwardInv ==
    /\ Sorted(chan["push"]) /\ Sorted(chan["pull"])
    /\ Leq(Vals2(ToSend), Vals2(ToSend))
    /\ Leq({cache.entry}, Vals(In("pull"))) /\ Leq({cache.entry}, Vals(In("push")))
    /\ Leq({cache.entry}, Vals2(ToSend)) /\ cache.entry <= live
    /\ Leq(Vals(In("pull")), Vals(In("push"))) /\ Leq(Vals(In("pull")), Vals2(ToSend))
    /\ Leq(Vals(In("pull")), {live})
    /\ Leq(Vals(In("push")), Vals2(ToSend)) /\ Leq(Vals(In("push")), {live})
    /\ Leq(Vals2(ToSend), {live})

Inv == TypeOK /\ LoopInv /\ RaftInv /\ ReplyInv /\ DirtyInv /\ ForwardInv

-----------------------------------------------------------------------------
(* What keeps the parts of the invariant *)

\* The types, where the channels are as they should be.
LEMMA TypeFrame ==
    ASSUME TypeOK, ChanOK',
           todo' \in Seq(Send), at' \in {"select", "commitCommand", "commitRequest", "commitState"},
           live' \in Entries, notes' \in 0..NoteCap, spoilt' \subseteq dirty', dirty' \subseteq Entries,
           up' \in BOOLEAN, raft' \in BOOLEAN, leads' \in BOOLEAN, news' \in BOOLEAN,
           polling' \in BOOLEAN, ready' \in BOOLEAN, listens' \in BOOLEAN,
           failed' \subseteq {"receiver", "sendLoop", "recvLoop"},
           calling' \in {"nothing", "reply", "no reply"},
           cache' \in [entry : Entries, dirty : BOOLEAN],
           calls' \in 0..MaxCalls, events' \in 0..MaxEvents
    PROVE  TypeOK'
<1>1. \A c \in Channels : Len(chan'[c]) <= Capacity(c)
  BY DEF ChanOK, Held
<1> QED BY <1>1 DEF TypeOK, ChanOK

\* Numbers.
LEMMA Numbers ==
    ASSUME TypeOK
    PROVE  /\ MaxEntries \in Nat /\ MaxEvents \in Nat /\ MaxCalls \in Nat /\ NoteCap \in Nat /\ NoteCap > 0
           /\ live \in Nat /\ live <= MaxEntries /\ notes \in Nat /\ cache.entry \in Nat
           /\ calls \in Nat /\ events \in Nat /\ dirty \subseteq Nat
<1>1. /\ MaxEntries \in Nat /\ MaxEvents \in Nat /\ MaxCalls \in Nat
      /\ NoteCap \in Nat /\ NoteCap > 0
  BY CapacitiesAssumption, BoundsAssumption
<1>2. /\ live \in 0..MaxEntries /\ notes \in 0..NoteCap /\ cache.entry \in 0..MaxEntries
      /\ calls \in 0..MaxCalls /\ events \in 0..MaxEvents /\ dirty \subseteq 0..MaxEntries
  BY DEF TypeOK, Entries
<1> QED BY <1>1, <1>2

\* A step that uses up an event.
LEMMA EventTyped ==
    ASSUME TypeOK, Event
    PROVE  events' \in 0..MaxEvents
<1>1. events \in 0..MaxEvents /\ events > 0 /\ events' = events - 1 /\ MaxEvents \in Nat
  BY BoundsAssumption DEF TypeOK, Event
<1> QED BY <1>1

\* The entries on their way are entries.
LEMMA ValsTyped ==
    ASSUME NEW xs, xs \subseteq Item
    PROVE  Vals(xs) \subseteq Nat
<1>1. \A x \in xs : Valued(x) => x.entry \in Entries
  BY DEF Item, Valued
<1>2. Entries \subseteq Nat
  BY BoundsAssumption DEF Entries
<1> QED BY <1>1, <1>2 DEF Vals

\* What the main loop has still to send.
LEMMA ToSendTyped ==
    ASSUME todo \in Seq(Send)
    PROVE  ToSend \subseteq Send /\ \A s \in ToSend : s.item \in Item /\ s.to \in {"send", "push", "topic"}
<1>1. ToSend \subseteq Send
  BY ElementOfSeq DEF ToSend, Elems
<1> QED BY <1>1 DEF Send

\* Less on its way, and nothing else.
LEMMA DirtyFrame ==
    ASSUME DirtyInv, UNCHANGED <<dirty, spoilt, live, cache, at>>, In("pull")' \subseteq In("pull"),
           In("push")' \subseteq In("push"), ToSend' \subseteq ToSend
    PROVE  DirtyInv'
BY DEF DirtyInv

\* Less on its way.
LEMMA ForwardFrame ==
    ASSUME ForwardInv, TypeOK, ChanOK, UNCHANGED cache,
           Sorted(chan["push"])', Sorted(chan["pull"])',
           In("push")' \subseteq In("push"), In("pull")' \subseteq In("pull"), ToSend' \subseteq ToSend,
           live' \in Nat, live' >= live
    PROVE  ForwardInv'
<1>1. /\ Vals(In("push"))' \subseteq Vals(In("push")) /\ Vals(In("pull"))' \subseteq Vals(In("pull"))
      /\ Vals2(ToSend)' \subseteq Vals2(ToSend)
  BY DEF Vals2, Vals
<1>2. /\ Vals(In("push")) \subseteq Nat /\ Vals(In("pull")) \subseteq Nat
      /\ Vals2(ToSend) \subseteq Nat /\ cache.entry \in Nat /\ live \in Nat
  <2>1. In("push") \subseteq Item /\ In("pull") \subseteq Item
    BY InTyped DEF Channels
  <2>2. {s.item : s \in ToSend} \subseteq Item
    BY ToSendTyped DEF TypeOK
  <2> QED BY <2>1, <2>2, ValsTyped, Numbers DEF Vals2
<1> QED BY <1>1, <1>2 DEF ForwardInv, Leq

\* Nothing about the call changes.
LEMMA ReplyFrame ==
    ASSUME ReplyInv, UNCHANGED calling, up' => up,
           \A c \in {"req", "cmd", "send", "rep"} : chan'[c] = chan[c],
           at' = "commitCommand" <=> at = "commitCommand",
           HasReply(todo') <=> HasReply(todo)
    PROVE  ReplyInv'
<1>1. Places' = Places
  <2>1. Count(at = "commitCommand")' = Count(at = "commitCommand")
    BY DEF Count
  <2>2. Count(\E i \in 1..Len(todo) : todo[i].to = "send")' = Count(\E i \in 1..Len(todo) : todo[i].to = "send")
    BY DEF Count, HasReply
  <2> QED BY <2>1, <2>2 DEF Places, Count
<1>2. In("req")' = In("req") /\ Held("req")' = Held("req")
  BY DEF In, Held
<1> QED BY <1>1, <1>2 DEF ReplyInv, OneReply

ReqCommand == chan["req"] # <<>> /\ Head(chan["req"]).kind = "Command"

InReq == Count(ReqCommand)

InCommit == Count(at = "commitCommand")

InTodo == Count(HasReply(todo))

Waits == Count(calling = "reply")

\* Numbers whose sum is zero are zero.
LEMMA SumIsZero ==
    ASSUME NEW a \in Nat, NEW b \in Nat, NEW c \in Nat,
           NEW d \in Nat, NEW e \in Nat, NEW f \in Nat, a + b + c + d + e + f = 0
    PROVE  a = 0 /\ b = 0 /\ c = 0 /\ d = 0 /\ e = 0 /\ f = 0
OBVIOUS

\* The places where a command or its reply can be.
LEMMA PlacesAre ==
    ASSUME ChanOK
    PROVE  /\ Places = InReq + Held("cmd") + InCommit + InTodo + Held("send") + Held("rep")
           /\ Held("cmd") \in Nat /\ Held("send") \in Nat /\ Held("rep") \in Nat
           /\ InReq \in Nat /\ InCommit \in Nat /\ InTodo \in Nat
           /\ InReq = IF ReqCommand THEN 1 ELSE 0
           /\ InCommit = IF at = "commitCommand" THEN 1 ELSE 0
           /\ InTodo = IF HasReply(todo) THEN 1 ELSE 0
           /\ Waits = IF calling = "reply" THEN 1 ELSE 0
           /\ OneReply <=> (up => Places = Waits)
<1>1. Places = InReq + Held("cmd") + InCommit + InTodo + Held("send") + Held("rep")
  BY DEF Places, ReqCommand, Held, HasReply, InReq, InCommit, InTodo
<1>2. Held("cmd") \in Nat /\ Held("send") \in Nat /\ Held("rep") \in Nat
  BY DEF ChanOK, Channels
<1>3. /\ InReq = IF ReqCommand THEN 1 ELSE 0
      /\ InCommit = IF at = "commitCommand" THEN 1 ELSE 0
      /\ InTodo = IF HasReply(todo) THEN 1 ELSE 0
      /\ Waits = IF calling = "reply" THEN 1 ELSE 0
  BY DEF InReq, InCommit, InTodo, Waits, Count
<1>4. OneReply <=> (up => Places = Waits)
  BY DEF OneReply, Waits
<1> QED BY <1>1, <1>2, <1>3, <1>4

\* The same after a step.
LEMMA PlacesNext ==
    ASSUME ChanOK'
    PROVE  /\ Places' = InReq' + Held("cmd")' + InCommit' + InTodo' + Held("send")' + Held("rep")'
           /\ Held("cmd")' \in Nat /\ Held("send")' \in Nat /\ Held("rep")' \in Nat
           /\ InReq' \in Nat /\ InCommit' \in Nat /\ InTodo' \in Nat
           /\ InReq' = IF ReqCommand' THEN 1 ELSE 0
           /\ InCommit' = IF at' = "commitCommand" THEN 1 ELSE 0
           /\ InTodo' = IF HasReply(todo') THEN 1 ELSE 0
           /\ Waits' = IF calling' = "reply" THEN 1 ELSE 0
           /\ OneReply' <=> (up' => Places' = Waits')
<1>1. Places' = InReq' + Held("cmd")' + InCommit' + InTodo' + Held("send")' + Held("rep")'
  BY DEF Places, ReqCommand, Held, HasReply, InReq, InCommit, InTodo
<1>2. Held("cmd")' \in Nat /\ Held("send")' \in Nat /\ Held("rep")' \in Nat
  BY DEF ChanOK, Channels
<1>3. /\ InReq' = IF ReqCommand' THEN 1 ELSE 0
      /\ InCommit' = IF at' = "commitCommand" THEN 1 ELSE 0
      /\ InTodo' = IF HasReply(todo') THEN 1 ELSE 0
      /\ Waits' = IF calling' = "reply" THEN 1 ELSE 0
  BY DEF InReq, InCommit, InTodo, Waits, Count, HasReply
<1>4. OneReply' <=> (up' => Places' = Waits')
  BY DEF OneReply, Waits
<1> QED BY <1>1, <1>2, <1>3, <1>4

\* Order is kept by a receive, and by a send of what is not older.
LEMMA SortedSteps ==
    ASSUME NEW s \in Seq(Item), Sorted(s)
    PROVE  /\ s # <<>> => /\ Sorted(Tail(s))
                          /\ Valued(Head(s)) => Leq({Head(s).entry}, Vals(Elems(Tail(s))))
           /\ \A e \in Item : (Valued(e) => Leq(Vals(Elems(s)), {e.entry})) => Sorted(Append(s, e))
<1>1. ASSUME s # <<>> PROVE Sorted(Tail(s)) /\ (Valued(Head(s)) => Leq({Head(s).entry}, Vals(Elems(Tail(s)))))
  <2>1. /\ Tail(s) \in Seq(Item) /\ Head(s) = s[1] /\ Len(s) \in Nat /\ Len(s) > 0
        /\ Len(Tail(s)) = Len(s) - 1
        /\ \A i \in 1..Len(Tail(s)) : Tail(s)[i] = s[i + 1]
    BY <1>1, HeadTailProperties, LenProperties, EmptySeq
  <2>2. \A i \in 1..Len(Tail(s)) : i + 1 \in 1..Len(s) /\ 1 < i + 1
    BY <2>1
  <2>3. Sorted(Tail(s))
    BY <2>1, <2>2 DEF Sorted
  <2>4. 1 \in 1..Len(s)
    BY <2>1
  <2>5. ASSUME Valued(s[1]) PROVE \A i \in 1..Len(Tail(s)) : Valued(Tail(s)[i]) => s[1].entry <= Tail(s)[i].entry
    BY <2>1, <2>2, <2>4, <2>5 DEF Sorted
  <2>6. ASSUME Valued(s[1]) PROVE Leq({s[1].entry}, Vals(Elems(Tail(s))))
    BY <2>5, <2>6 DEF Leq, Vals, Elems
  <2> QED BY <2>1, <2>3, <2>6
<1>2. ASSUME NEW e \in Item, Valued(e) => Leq(Vals(Elems(s)), {e.entry})
      PROVE  Sorted(Append(s, e))
  <2> DEFINE t == Append(s, e)
  <2>1. /\ Len(s) \in Nat /\ Len(t) = Len(s) + 1
        /\ \A i \in 1..Len(s) : t[i] = s[i]
        /\ t[Len(s) + 1] = e
    BY AppendProperties, LenProperties
  <2> HIDE DEF t
  <2> SUFFICES ASSUME NEW i \in 1..Len(t), NEW j \in 1..Len(t), i < j, Valued(t[i]), Valued(t[j])
               PROVE  t[i].entry <= t[j].entry
    BY DEF Sorted, t
  <2>2. i \in 1..Len(s)
    BY <2>1
  <2>3. CASE j \in 1..Len(s)
    BY <2>1, <2>2, <2>3 DEF Sorted
  <2>4. CASE j = Len(s) + 1
    <3>1. t[i].entry \in Vals(Elems(s))
      BY <2>1, <2>2 DEF Vals, Elems
    <3>2. t[j] = e /\ Valued(e)
      BY <2>1, <2>4
    <3> QED BY <1>2, <3>1, <3>2 DEF Leq
  <2>5. j \in 1..Len(s) \/ j = Len(s) + 1
    BY <2>1
  <2> QED BY <2>3, <2>4, <2>5
<1> QED BY <1>1, <1>2

-----------------------------------------------------------------------------
(* The wrapper *)

\* What is not changed by a step of the wrapper.
LEMMA WrapperFrame ==
    ASSUME Inv, UNCHANGED <<serverVars, loopVars>>
    PROVE  /\ TypeOK /\ ChanOK /\ LoopInv' /\ (up' <=> up) /\ (at' = at) /\ (HasReply(todo)' <=> HasReply(todo))
           /\ ToSend' = ToSend /\ live' = live
           /\ UNCHANGED <<up, raft, leads, news, live, dirty, spoilt, notes, polling, at, todo>>
<1>1. UNCHANGED <<up, raft, leads, news, live, dirty, spoilt, notes, polling, at, todo>>
  BY DEF serverVars, loopVars
<1> QED BY <1>1, ChanTypes DEF Inv, LoopInv, ReplyLast, HasReply, ToSend, Elems

\* call() starts.
LEMMA CallStep ==
    ASSUME Inv, NEW kind \in {"Command", "Garbled"}, Call(kind)
    PROVE  Inv'
<1> DEFINE item == It(kind)
<1>0. /\ TypeOK /\ ChanOK /\ LoopInv'
      /\ UNCHANGED <<up, raft, leads, news, live, dirty, spoilt, notes, polling, at, todo>>
      /\ ToSend' = ToSend /\ (HasReply(todo)' <=> HasReply(todo))
  BY WrapperFrame DEF Call
<1>1. /\ calling = "nothing" /\ calls > 0 /\ calls' = calls - 1
      /\ calling' = IF kind = "Command" THEN "reply" ELSE "no reply"
      /\ Put("req", item) /\ UNCHANGED <<ready, cache, listens, failed, events>>
  BY DEF Call
<1>2. item \in Item /\ item.kind = kind /\ "req" \in Channels
  BY DEF It, Item, Channels
<1> HIDE DEF item
<1>3. /\ ChanOK' /\ chan'["req"] # <<>>
      /\ chan["req"] = <<>> => Head(chan'["req"]) = item
      /\ In("req")' = In("req") \cup {item} /\ Held("req")' = Held("req") + 1
      /\ \A d \in Channels \ {"req"} : chan'[d] = chan[d] /\ In(d)' = In(d) /\ Held(d)' = Held(d)
  BY <1>0, <1>1, <1>2, PutStep
<1>4. TypeOK'
  <2>1. calls' \in 0..MaxCalls
    <3>1. calls \in 0..MaxCalls /\ calls > 0 /\ calls' = calls - 1 /\ MaxCalls \in Nat
      BY <1>0, <1>1, BoundsAssumption DEF TypeOK
    <3> QED BY <3>1
  <2>2. /\ todo' \in Seq(Send) /\ at' \in {"select", "commitCommand", "commitRequest", "commitState"}
        /\ live' \in Entries /\ notes' \in 0..NoteCap /\ spoilt' \subseteq dirty' /\ dirty' \subseteq Entries
        /\ up' \in BOOLEAN /\ raft' \in BOOLEAN /\ leads' \in BOOLEAN /\ news' \in BOOLEAN
        /\ polling' \in BOOLEAN /\ ready' \in BOOLEAN /\ listens' \in BOOLEAN
        /\ failed' \subseteq {"receiver", "sendLoop", "recvLoop"}
        /\ calling' \in {"nothing", "reply", "no reply"}
        /\ cache' \in [entry : Entries, dirty : BOOLEAN] /\ events' \in 0..MaxEvents
    BY <1>0, <1>1 DEF TypeOK
  <2> QED BY <1>0, <1>3, <2>1, <2>2, TypeFrame
<1>5. chan'["push"] = chan["push"] /\ chan'["pull"] = chan["pull"] /\ In("push")' = In("push") /\ In("pull")' = In("pull")
  BY <1>3 DEF Channels
<1>6. RaftInv'
  BY <1>0, <1>1, <1>5 DEF Inv, RaftInv
<1>7. DirtyInv'
  BY <1>0, <1>1, <1>5, DirtyFrame DEF Inv
<1>8. ForwardInv'
  BY <1>0, <1>1, <1>5, ForwardFrame, Numbers DEF Inv, ForwardInv
<1>9. ReplyInv'
  <2> SUFFICES ASSUME up PROVE ReplyInv'
    BY <1>0 DEF ReplyInv
  <2>1. chan["req"] = <<>> /\ ReplyInv /\ OneReply
    BY <1>1 DEF Inv, ReplyInv
  <2>2. In("req") = {} /\ Held("req") = 0
    BY <1>0, <1>2, <2>1, InTyped
  <2>3. Head(chan'["req"]) = item
    BY <1>3, <2>1
  <2>4. /\ Held("cmd")' = Held("cmd") /\ Held("send")' = Held("send") /\ Held("rep")' = Held("rep")
        /\ InCommit' = InCommit /\ InTodo' = InTodo
    BY <1>0, <1>3 DEF Channels, InCommit, InTodo, Count
  <2>5. ~ReqCommand /\ (ReqCommand' <=> kind = "Command")
    BY <1>2, <1>3, <2>1, <2>3 DEF ReqCommand
  <2>6. OneReply'
    <3>1. Waits = 0 /\ InReq = 0 /\ InReq' = Waits'
      <4>1. Waits = 0 /\ InReq = 0
        BY <1>0, <1>1, <2>5, PlacesAre
      <4>2. InReq' = Waits'
        BY <1>1, <1>3, <2>5, PlacesNext
      <4> QED BY <4>1, <4>2
    <3>2. Places = 0
      BY <1>0, <2>1, <3>1, PlacesAre
    <3>3. Places' = Waits'
      <4>1. /\ Held("cmd") = 0 /\ InCommit = 0 /\ InTodo = 0
            /\ Held("send") = 0 /\ Held("rep") = 0
        <5>1. /\ Places = InReq + Held("cmd") + InCommit + InTodo + Held("send") + Held("rep")
              /\ Held("cmd") \in Nat /\ Held("send") \in Nat /\ Held("rep") \in Nat
              /\ InReq \in Nat /\ InCommit \in Nat /\ InTodo \in Nat
          BY <1>0, PlacesAre
        <5>2. InReq + Held("cmd") + InCommit + InTodo + Held("send") + Held("rep") = 0
          BY <3>2, <5>1
        <5> QED BY <5>1, <5>2, SumIsZero
      <4>2. /\ Places' = InReq' + Held("cmd")' + InCommit' + InTodo' + Held("send")' + Held("rep")'
            /\ InReq' \in Nat
        BY <1>3, PlacesNext
      <4> QED BY <2>4, <3>1, <4>1, <4>2
    <3> QED BY <1>3, <3>3, PlacesNext
  <2>7. calling' # "nothing" /\ (kind = "Garbled" => calling' = "no reply")
    BY <1>1
  <2>8. Held("req")' <= 1 /\ \A x \in In("req")' : x.kind \in {"Command", "Garbled"}
    BY <1>2, <1>3, <2>2
  <2> QED BY <1>2, <1>3, <2>3, <2>6, <2>7, <2>8 DEF ReplyInv
<1> QED BY <1>0, <1>4, <1>6, <1>7, <1>8, <1>9 DEF Inv

\* call() returns.
LEMMA CallReturnStep ==
    ASSUME Inv, CallReturn
    PROVE  Inv'
<1>0. /\ TypeOK /\ ChanOK /\ LoopInv'
      /\ UNCHANGED <<up, raft, leads, news, live, dirty, spoilt, notes, polling, at, todo>>
      /\ ToSend' = ToSend /\ (HasReply(todo)' <=> HasReply(todo))
  BY WrapperFrame DEF CallReturn
<1>1. /\ chan["rep"] # <<>> /\ Take("rep") /\ calling' = "nothing"
      /\ UNCHANGED <<ready, cache, listens, failed, calls, events>>
  BY DEF CallReturn
<1>2. "rep" \in Channels /\ "req" \in Channels
  BY DEF Channels
<1>3. /\ ChanOK' /\ Held("rep")' = Held("rep") - 1
      /\ \A d \in Channels \ {"rep"} : chan'[d] = chan[d] /\ In(d)' = In(d) /\ Held(d)' = Held(d)
  BY <1>0, <1>1, <1>2, TakeStep
<1>4. TypeOK'
  BY <1>0, <1>1, <1>3, TypeFrame DEF TypeOK
<1>5. chan'["push"] = chan["push"] /\ chan'["pull"] = chan["pull"] /\ In("push")' = In("push") /\ In("pull")' = In("pull")
  BY <1>3 DEF Channels
<1>6. RaftInv'
  BY <1>0, <1>1, <1>5 DEF Inv, RaftInv
<1>7. DirtyInv'
  BY <1>0, <1>1, <1>5, DirtyFrame DEF Inv
<1>8. ForwardInv'
  BY <1>0, <1>1, <1>5, ForwardFrame, Numbers DEF Inv, ForwardInv
<1>9. ReplyInv'
  <2> SUFFICES ASSUME up PROVE ReplyInv'
    BY <1>0 DEF ReplyInv
  <2>1. ReplyInv /\ OneReply
    BY DEF Inv, ReplyInv
  <2>2. /\ Held("cmd")' = Held("cmd") /\ Held("send")' = Held("send")
        /\ InCommit' = InCommit /\ InTodo' = InTodo /\ InReq' = InReq
    BY <1>0, <1>2, <1>3 DEF Channels, InCommit, InTodo, InReq, ReqCommand, Count
  <2>3. Held("rep") > 0
    BY <1>0, <1>1, <1>2, InTyped
  <2>4. Places = Waits /\ Waits' = 0
    BY <1>0, <1>1, <1>3, <2>1, PlacesAre, PlacesNext
  <2>5. Places >= 1
    BY <1>0, <2>3, PlacesAre
  <2>6. Waits = 1 /\ calling = "reply"
    BY <1>0, <2>4, <2>5, PlacesAre
  <2>7. Held("rep") = 1 /\ InReq = 0
    <3>1. /\ InReq + Held("cmd") + InCommit + InTodo + Held("send") + Held("rep") = 1
          /\ Held("cmd") \in Nat /\ Held("send") \in Nat /\ Held("rep") \in Nat
          /\ InReq \in Nat /\ InCommit \in Nat /\ InTodo \in Nat
      BY <1>0, <2>4, <2>6, PlacesAre
    <3> QED BY <2>3, <3>1
  <2>8. Places' = Places - 1
    BY <1>0, <1>3, <2>2, PlacesAre, PlacesNext
  <2>9. OneReply'
    BY <1>3, <2>4, <2>6, <2>8, PlacesNext
  <2>10. chan["req"] = <<>>
    <3> SUFFICES ASSUME chan["req"] # <<>> PROVE FALSE
      OBVIOUS
    <3>1. Head(chan["req"]).kind \in {"Command", "Garbled"}
      BY <1>0, <1>2, <2>1, InTyped DEF ReplyInv
    <3>2. Head(chan["req"]).kind # "Command"
      BY <1>0, <2>7, PlacesAre DEF ReqCommand
    <3> QED BY <2>1, <2>6, <3>1, <3>2 DEF ReplyInv
  <2>11. chan'["req"] = <<>> /\ In("req")' = In("req") /\ Held("req")' = Held("req")
    BY <1>2, <1>3, <2>10
  <2> QED BY <2>1, <2>9, <2>11 DEF ReplyInv
<1> QED BY <1>0, <1>4, <1>6, <1>7, <1>8, <1>9 DEF Inv

\* Of what comes first in a queue of states, the rest is not older.
LEMMA HeadFirst ==
    ASSUME ChanOK, NEW c \in Channels, chan[c] # <<>>, Sorted(chan[c]), chan'[c] = Tail(chan[c])
    PROVE  /\ Sorted(chan[c])'
           /\ Valued(Head(chan[c])) => Leq({Head(chan[c]).entry}, Vals(In(c)'))
           /\ Valued(Head(chan[c])) => Head(chan[c]).entry \in Vals(In(c))
<1>1. PICK s \in Seq(Item) : s = chan[c]
  BY DEF ChanOK
<1>2. Sorted(Tail(s)) /\ (Valued(Head(s)) => Leq({Head(s).entry}, Vals(Elems(Tail(s)))))
  BY <1>1, SortedSteps
<1>3. Head(s) \in Elems(s)
  BY <1>1, TailElems
<1> QED BY <1>1, <1>2, <1>3 DEF In, Vals

\* The listener thread takes what was pushed.
LEMMA UpdateStep ==
    ASSUME Inv, Update \/ UpdateRaises, cache' = Shown(Head(chan["pull"]))
    PROVE  Inv' /\ cache'.entry >= cache.entry
<1> DEFINE m == Head(chan["pull"])
<1>0. /\ TypeOK /\ ChanOK /\ LoopInv'
      /\ UNCHANGED <<up, raft, leads, news, live, dirty, spoilt, notes, polling, at, todo>>
      /\ ToSend' = ToSend /\ (HasReply(todo)' <=> HasReply(todo))
  BY WrapperFrame DEF Update, UpdateRaises
<1>1. /\ chan["pull"] # <<>> /\ Take("pull") /\ ready' \in BOOLEAN /\ listens' \in BOOLEAN
      /\ cache' = IF m.kind = "Bytes" THEN [entry |-> m.entry, dirty |-> m.dirty] ELSE cache
      /\ UNCHANGED <<calling, failed, calls, events>>
  BY DEF Inv, TypeOK, Update, UpdateRaises, Shown
<1>2. "pull" \in Channels
  BY DEF Channels
<1>3. /\ ChanOK' /\ chan'["pull"] = Tail(chan["pull"])
      /\ In("pull") = {m} \cup In("pull")'
      /\ \A d \in Channels \ {"pull"} : chan'[d] = chan[d] /\ In(d)' = In(d) /\ Held(d)' = Held(d)
  BY <1>0, <1>1, <1>2, TakeStep
<1>4. m \in In("pull") /\ m \in Item
  BY <1>0, <1>1, <1>2, InTyped
<1>5. /\ Sorted(chan["pull"])'
      /\ Valued(m) => Leq({m.entry}, Vals(In("pull")')) /\ m.entry \in Vals(In("pull"))
  BY <1>0, <1>1, <1>2, <1>3, HeadFirst DEF Inv, ForwardInv
<1> HIDE DEF m
<1>6. m.kind = "Bytes" => m.entry \in Entries /\ m.dirty \in BOOLEAN
  BY <1>4 DEF Item
<1>7. cache' \in [entry : Entries, dirty : BOOLEAN]
  <2>1. CASE m.kind = "Bytes"
    BY <1>1, <1>6, <2>1
  <2>2. CASE m.kind # "Bytes"
    BY <1>0, <1>1, <2>2 DEF TypeOK
  <2> QED BY <2>1, <2>2
<1>8. TypeOK'
  BY <1>0, <1>1, <1>3, <1>7, TypeFrame DEF TypeOK
<1>9. chan'["push"] = chan["push"] /\ In("push")' = In("push") /\ In("pull")' \subseteq In("pull")
  BY <1>3 DEF Channels
<1>10. RaftInv'
  <2>1. raft
    BY <1>4 DEF Inv, RaftInv
  <2> QED BY <1>0, <2>1 DEF RaftInv
<1>11. DirtyInv'
  <2>1. cache'.dirty => cache'.entry \in dirty
    <3>1. CASE m.kind = "Bytes"
      <4>1. cache'.entry = m.entry /\ cache'.dirty = m.dirty
        BY <1>1, <3>1
      <4> QED BY <1>4, <3>1, <4>1 DEF Inv, DirtyInv
    <3>2. CASE m.kind # "Bytes"
      BY <1>1, <3>2 DEF Inv, DirtyInv
    <3> QED BY <3>1, <3>2
  <2> QED BY <1>0, <1>9, <2>1 DEF Inv, DirtyInv
<1>12. ForwardInv' /\ cache'.entry >= cache.entry
  <2>1. CASE m.kind # "Bytes"
    <3>1. cache' = cache
      BY <1>1, <2>1
    <3>2. ForwardInv'
      BY <1>0, <1>5, <1>9, <3>1, ForwardFrame, Numbers DEF Inv, ForwardInv
    <3> QED BY <1>0, <3>1, <3>2, Numbers
  <2>2. CASE m.kind = "Bytes"
    <3>1. cache'.entry = m.entry /\ m.entry \in Vals(In("pull")) /\ Leq({m.entry}, Vals(In("pull")'))
      BY <1>1, <1>5, <2>2 DEF Valued
    <3>2. m.entry \in Nat
      BY <1>6, <2>2, BoundsAssumption DEF Entries
    <3>3. Vals(In("pull")') \subseteq Vals(In("pull"))
      BY <1>9 DEF Vals
    <3>4. Vals2(ToSend') = Vals2(ToSend) /\ Vals(In("push")') = Vals(In("push"))
      BY <1>0, <1>9
    <3>5. ForwardInv
      BY DEF Inv
    <3>6. /\ Leq({m.entry}, Vals(In("push"))) /\ Leq({m.entry}, Vals2(ToSend)) /\ m.entry <= live
          /\ m.entry >= cache.entry
      BY <1>0, <3>1, <3>2, <3>5, Numbers DEF ForwardInv, Leq
    <3>7. /\ Leq(Vals(In("pull")'), Vals(In("push"))) /\ Leq(Vals(In("pull")'), Vals2(ToSend))
          /\ Leq(Vals(In("pull")'), {live})
      BY <3>3, <3>5 DEF ForwardInv, Leq
    <3>8. ForwardInv'
      BY <1>0, <1>5, <1>9, <3>1, <3>4, <3>5, <3>6, <3>7 DEF ForwardInv
    <3> QED BY <3>1, <3>6, <3>8
  <2> QED BY <2>1, <2>2
<1>13. ReplyInv'
  <2>1. \A c \in {"req", "cmd", "send", "rep"} : chan'[c] = chan[c]
    BY <1>3 DEF Channels
  <2> QED BY <1>0, <1>1, <2>1, ReplyFrame DEF Inv, HasReply
<1> QED BY <1>0, <1>8, <1>10, <1>11, <1>12, <1>13 DEF Inv

\* The listener thread ends and shows what it showed before.
LEMMA UpdateRaisesStep ==
    ASSUME Inv, UpdateRaises, UNCHANGED cache
    PROVE  Inv'
<1>0. /\ TypeOK /\ ChanOK /\ LoopInv'
      /\ UNCHANGED <<up, raft, leads, news, live, dirty, spoilt, notes, polling, at, todo>>
      /\ ToSend' = ToSend /\ (HasReply(todo)' <=> HasReply(todo))
  BY WrapperFrame DEF UpdateRaises
<1>1. /\ chan["pull"] # <<>> /\ Take("pull") /\ listens' = FALSE
      /\ UNCHANGED <<calling, ready, cache, failed, calls, events>>
  BY DEF UpdateRaises
<1>2. "pull" \in Channels
  BY DEF Channels
<1>3. /\ ChanOK' /\ chan'["pull"] = Tail(chan["pull"])
      /\ In("pull") = {Head(chan["pull"])} \cup In("pull")'
      /\ \A d \in Channels \ {"pull"} : chan'[d] = chan[d] /\ In(d)' = In(d) /\ Held(d)' = Held(d)
  BY <1>0, <1>1, <1>2, TakeStep
<1>4. TypeOK'
  BY <1>0, <1>1, <1>3, TypeFrame DEF TypeOK
<1>5. /\ chan'["push"] = chan["push"] /\ In("push")' = In("push") /\ In("pull")' \subseteq In("pull")
      /\ \A c \in {"req", "cmd", "send", "rep"} : chan'[c] = chan[c]
  BY <1>3 DEF Channels
<1>6. RaftInv'
  BY <1>0, <1>1, <1>5 DEF Inv, RaftInv
<1>7. DirtyInv'
  BY <1>0, <1>1, <1>5, DirtyFrame DEF Inv
<1>8. Sorted(chan["pull"])'
  BY <1>0, <1>1, <1>2, <1>3, HeadFirst DEF Inv, ForwardInv
<1>9. ForwardInv'
  BY <1>0, <1>1, <1>5, <1>8, ForwardFrame, Numbers DEF Inv, ForwardInv
<1>10. ReplyInv'
  BY <1>0, <1>1, <1>5, ReplyFrame DEF Inv, HasReply
<1> QED BY <1>0, <1>4, <1>6, <1>7, <1>9, <1>10 DEF Inv

-----------------------------------------------------------------------------
(* The goroutines *)

\* A step that changes only what goes to and from peers, and the command's way.
LEMMA QuietFrame ==
    ASSUME Inv, ChanOK', up' \in BOOLEAN,
           UNCHANGED <<raft, leads, news, live, dirty, spoilt, notes, polling, at, todo>>,
           UNCHANGED <<calling, ready, cache, listens, calls>>,
           failed' \subseteq {"receiver", "sendLoop", "recvLoop"}, events' \in 0..MaxEvents,
           chan'["push"] = chan["push"], chan'["pull"] = chan["pull"]
    PROVE  TypeOK' /\ LoopInv' /\ RaftInv' /\ DirtyInv' /\ ForwardInv'
<1>1. TypeOK /\ ChanOK
  BY ChanTypes DEF Inv
<1>2. In("push")' = In("push") /\ In("pull")' = In("pull") /\ ToSend' = ToSend
  BY DEF In, ToSend
<1>3. TypeOK'
  BY <1>1, TypeFrame DEF TypeOK
<1>4. LoopInv'
  BY DEF Inv, LoopInv
<1>5. RaftInv'
  BY <1>2 DEF Inv, RaftInv
<1>6. DirtyInv'
  BY <1>2, DirtyFrame DEF Inv
<1>7. ForwardInv'
  BY <1>1, <1>2, ForwardFrame, Numbers DEF Inv, ForwardInv
<1> QED BY <1>3, <1>4, <1>5, <1>6, <1>7

\* A message is taken and found to be in error.
LEMMA TakenReport ==
    ASSUME ChanOK, NEW c \in Channels \ {"err"}, NEW g, chan[c] # <<>>, Report(g, Taken(c))
    PROVE  /\ ChanOK' /\ chan'[c] = Tail(chan[c]) /\ (Held(c) <= 1 => chan'[c] = <<>>)
           /\ \A d \in Channels \ {c, "err"} : chan'[d] = chan[d]
           /\ failed' \subseteq failed \cup {g}
<1> DEFINE w == Taken(c)
<1>0. "err" \in Channels
  BY DEF Channels
<1>1. /\ w \in [Channels -> Seq(Item)]
      /\ w[c] = Tail(chan[c]) /\ \A d \in Channels \ {c} : w[d] = chan[d]
      /\ Len(w[c]) = Held(c) - 1
      /\ Held(c) <= 1 => w[c] = <<>>
  BY TakenStep
<1> HIDE DEF w
<1>2. Held(c) > 0 /\ \A d \in Channels : Held(d) \in Nat
  BY InTyped DEF ChanOK
<1>3. ASSUME NEW d \in Channels PROVE Len(w[d]) \in Nat /\ Len(w[d]) <= Held(d)
  <2>1. CASE d = c
    <3>1. Held(c) - 1 \in Nat /\ Held(c) - 1 <= Held(c)
      BY <1>2
    <3> QED BY <1>1, <2>1, <3>1
  <2>2. CASE d # c
    <3>1. Len(w[d]) = Held(d)
      BY <1>1, <2>2 DEF Held
    <3> QED BY <1>2, <3>1
  <2> QED BY <2>1, <2>2
<1>4. w["err"] = chan["err"] /\ Report(g, w)
  BY <1>0, <1>1 DEF w
<1>5. ChanOK' /\ (\A d \in Channels \ {"err"} : chan'[d] = w[d]) /\ failed' \subseteq failed \cup {g}
  BY <1>1, <1>3, <1>4, ReportStep
<1> QED BY <1>1, <1>5

\* The command channel's receiver.
LEMMA ReceiverStep ==
    ASSUME Inv, Receiver
    PROVE  Inv'
<1>0. /\ TypeOK /\ ChanOK /\ ReplyInv
      /\ UNCHANGED <<up, raft, leads, news, live, dirty, spoilt, notes, polling, at, todo>>
      /\ UNCHANGED <<calling, ready, cache, listens, calls, events>>
  BY ChanTypes DEF Inv, Receiver, serverVars, loopVars, wrapperVars
<1>1. /\ up /\ chan["req"] # <<>>
      /\ IF Head(chan["req"]).kind = "Garbled"
         THEN Report("receiver", Taken("req"))
         ELSE Pass("req", "cmd", Head(chan["req"])) /\ UNCHANGED failed
  BY DEF Receiver
<1>2. /\ Held("req") <= 1 /\ OneReply /\ Head(chan["req"]).kind \in {"Command", "Garbled"}
      /\ Head(chan["req"]) \in Item
      /\ Head(chan["req"]).kind = "Garbled" => calling = "no reply"
  <2>1. "req" \in Channels
    BY DEF Channels
  <2>2. Head(chan["req"]) \in In("req") /\ Head(chan["req"]) \in Item
    BY <1>0, <1>1, <2>1, InTyped
  <2> QED BY <1>0, <1>1, <2>2 DEF ReplyInv
<1>3. CASE Head(chan["req"]).kind = "Garbled"
  <2>1. /\ ChanOK' /\ chan'["req"] = <<>> /\ failed' \subseteq failed \cup {"receiver"}
        /\ \A d \in Channels \ {"req", "err"} : chan'[d] = chan[d]
    <3>1. "req" \in Channels \ {"err"}
      BY DEF Channels
    <3> QED BY <1>0, <1>1, <1>2, <1>3, <3>1, TakenReport
  <2>2. TypeOK' /\ LoopInv' /\ RaftInv' /\ DirtyInv' /\ ForwardInv'
    <3>1. failed' \subseteq {"receiver", "sendLoop", "recvLoop"} /\ events' \in 0..MaxEvents /\ up' \in BOOLEAN
      BY <1>0, <2>1 DEF TypeOK
    <3>2. chan'["push"] = chan["push"] /\ chan'["pull"] = chan["pull"]
      BY <2>1 DEF Channels
    <3> QED BY <1>0, <2>1, <3>1, <3>2, QuietFrame
  <2>3. /\ Held("cmd")' = Held("cmd") /\ Held("send")' = Held("send") /\ Held("rep")' = Held("rep")
        /\ In("req")' = {} /\ Held("req")' = 0
    BY <2>1, ShortElems DEF Held, In, Channels
  <2>4. InCommit' = InCommit /\ InTodo' = InTodo /\ Waits' = Waits /\ ~ReqCommand /\ ~ReqCommand'
    BY <1>0, <1>3, <2>1 DEF InCommit, InTodo, Waits, ReqCommand
  <2>5. InReq' = InReq
    BY <1>0, <2>1, <2>4, PlacesAre, PlacesNext
  <2>6. Places' = Places
    BY <1>0, <2>1, <2>3, <2>4, <2>5, PlacesAre, PlacesNext
  <2>7. OneReply'
    BY <1>0, <1>1, <1>2, <2>1, <2>4, <2>6, PlacesAre, PlacesNext
  <2>8. ReplyInv'
    BY <2>1, <2>3, <2>7 DEF ReplyInv
  <2> QED BY <2>2, <2>8 DEF Inv
<1>4. CASE Head(chan["req"]).kind = "Command"
  <2>0. "req" \in Channels /\ "cmd" \in Channels \ {"req"}
    BY DEF Channels
  <2>1. Pass("req", "cmd", Head(chan["req"])) /\ UNCHANGED failed
    BY <1>1, <1>4
  <2>2. /\ ChanOK' /\ chan'["req"] = <<>> /\ Held("cmd")' = Held("cmd") + 1
        /\ \A d \in Channels \ {"req", "cmd"} : chan'[d] = chan[d] /\ Held(d)' = Held(d)
    BY <1>0, <1>1, <1>2, <2>0, <2>1, PassStep
  <2>3. TypeOK' /\ LoopInv' /\ RaftInv' /\ DirtyInv' /\ ForwardInv'
    <3>1. failed' \subseteq {"receiver", "sendLoop", "recvLoop"} /\ events' \in 0..MaxEvents /\ up' \in BOOLEAN
      BY <1>0, <2>1 DEF TypeOK
    <3>2. chan'["push"] = chan["push"] /\ chan'["pull"] = chan["pull"]
      BY <2>2 DEF Channels
    <3> QED BY <1>0, <2>2, <3>1, <3>2, QuietFrame
  <2>4. /\ Held("send")' = Held("send") /\ Held("rep")' = Held("rep")
        /\ In("req")' = {} /\ Held("req")' = 0
    BY <2>2, ShortElems DEF Held, In, Channels
  <2>5. InCommit' = InCommit /\ InTodo' = InTodo /\ Waits' = Waits /\ ReqCommand /\ ~ReqCommand'
    BY <1>0, <1>1, <1>4, <2>2 DEF InCommit, InTodo, Waits, ReqCommand
  <2>6. InReq = 1 /\ InReq' = 0
    BY <1>0, <2>2, <2>5, PlacesAre, PlacesNext
  <2>7. Places' = Places
    BY <1>0, <2>2, <2>4, <2>5, <2>6, PlacesAre, PlacesNext
  <2>8. OneReply'
    BY <1>0, <1>1, <1>2, <2>2, <2>5, <2>7, PlacesAre, PlacesNext
  <2>9. ReplyInv'
    BY <2>2, <2>4, <2>8 DEF ReplyInv
  <2> QED BY <2>3, <2>9 DEF Inv
<1> QED BY <1>2, <1>3, <1>4

\* The pipe of replies.
LEMMA SendPipeStep ==
    ASSUME Inv, SendPipe
    PROVE  Inv'
<1>0. /\ TypeOK /\ ChanOK /\ ReplyInv
      /\ UNCHANGED <<up, raft, leads, news, live, dirty, spoilt, notes, polling, at, todo>>
      /\ UNCHANGED <<calling, ready, cache, listens, failed, calls, events>>
  BY ChanTypes DEF Inv, SendPipe, serverVars, loopVars, wrapperVars
<1>1. up /\ chan["send"] # <<>> /\ Pass("send", "rep", Head(chan["send"]))
  BY DEF SendPipe
<1>2. "send" \in Channels /\ "rep" \in Channels \ {"send"}
  BY DEF Channels
<1>3. Head(chan["send"]) \in Item
  BY <1>0, <1>1, <1>2, InTyped
<1>4. /\ ChanOK' /\ Held("send")' = Held("send") - 1 /\ Held("rep")' = Held("rep") + 1
      /\ \A d \in Channels \ {"send", "rep"} : chan'[d] = chan[d] /\ In(d)' = In(d) /\ Held(d)' = Held(d)
  BY <1>0, <1>1, <1>2, <1>3, PassStep
<1>5. TypeOK' /\ LoopInv' /\ RaftInv' /\ DirtyInv' /\ ForwardInv'
  <2>1. failed' \subseteq {"receiver", "sendLoop", "recvLoop"} /\ events' \in 0..MaxEvents /\ up' \in BOOLEAN
    BY <1>0 DEF TypeOK
  <2>2. chan'["push"] = chan["push"] /\ chan'["pull"] = chan["pull"]
    BY <1>4 DEF Channels
  <2> QED BY <1>0, <1>4, <2>1, <2>2, QuietFrame
<1>6. /\ chan'["req"] = chan["req"] /\ In("req")' = In("req") /\ Held("req")' = Held("req")
      /\ Held("cmd")' = Held("cmd")
  BY <1>4 DEF Channels
<1>7. InCommit' = InCommit /\ InTodo' = InTodo /\ Waits' = Waits /\ InReq' = InReq
  BY <1>0, <1>6 DEF InCommit, InTodo, Waits, InReq, ReqCommand
<1>8. Places' = Places
  BY <1>0, <1>4, <1>6, <1>7, PlacesAre, PlacesNext
<1>9. OneReply'
  BY <1>0, <1>1, <1>4, <1>7, <1>8, PlacesAre, PlacesNext DEF ReplyInv
<1>10. ReplyInv'
  BY <1>0, <1>1, <1>6, <1>9 DEF ReplyInv
<1> QED BY <1>5, <1>10 DEF Inv

\* The pipe of updates: the state becomes bytes.
LEMMA PushPipeStep ==
    ASSUME Inv, PushPipe
    PROVE  Inv'
<1> DEFINE h == Head(chan["push"])
           b == Serialize(h)
<1>0. /\ TypeOK /\ ChanOK /\ RaftInv /\ DirtyInv /\ ForwardInv
      /\ UNCHANGED <<up, raft, leads, news, live, dirty, spoilt, notes, polling, at, todo>>
      /\ UNCHANGED <<calling, ready, cache, listens, failed, calls, events>>
  BY ChanTypes DEF Inv, PushPipe, serverVars, loopVars, wrapperVars
<1>1. up /\ chan["push"] # <<>> /\ Pass("push", "pull", b)
  BY DEF PushPipe
<1>2. "push" \in Channels /\ "pull" \in Channels \ {"push"}
  BY DEF Channels
<1>3. h \in Item /\ h \in In("push") /\ h.kind # "Bytes"
  BY <1>0, <1>1, <1>2, InTyped DEF DirtyInv
<1>4. /\ b \in Item /\ (Valued(b) <=> Valued(h)) /\ b.entry = h.entry
      /\ b.kind = "Bytes" /\ b.dirty => b.entry \in dirty
  <2> HIDE DEF h
  <2>1. CASE h.kind = "State"
    <3>1. h.entry \in Entries
      BY <1>3, <2>1 DEF Item
    <3>2. b = [kind |-> "Bytes", entry |-> h.entry, dirty |-> h.entry \in dirty]
      BY <2>1 DEF Serialize
    <3> HIDE DEF b
    <3>3. b \in Item
      BY <3>1, <3>2 DEF Item
    <3> QED BY <2>1, <3>2, <3>3 DEF Valued
  <2>2. CASE h.kind # "State"
    <3>1. b = h
      BY <2>2 DEF Serialize
    <3> QED BY <1>3, <3>1
  <2> QED BY <2>1, <2>2
<1> HIDE DEF b
<1>5. /\ ChanOK' /\ chan'["push"] = Tail(chan["push"]) /\ chan'["pull"] = Append(chan["pull"], b)
      /\ In("push") = {h} \cup In("push")' /\ In("pull")' = In("pull") \cup {b}
      /\ \A d \in Channels \ {"push", "pull"} : chan'[d] = chan[d]
  BY <1>0, <1>1, <1>2, <1>4, PassStep
<1>6. /\ Sorted(chan["push"])'
      /\ Valued(h) => Leq({h.entry}, Vals(In("push")')) /\ h.entry \in Vals(In("push"))
  BY <1>0, <1>1, <1>2, <1>5, HeadFirst DEF ForwardInv
<1> HIDE DEF h
<1>7. TypeOK'
  <2>1. /\ TypeOK /\ ChanOK'
        /\ UNCHANGED <<up, raft, leads, news, live, dirty, spoilt, notes, polling, at, todo>>
        /\ UNCHANGED <<calling, ready, cache, listens, failed, calls, events>>
    BY <1>0, <1>5
  <2>2. /\ todo' \in Seq(Send) /\ at' \in {"select", "commitCommand", "commitRequest", "commitState"}
        /\ live' \in Entries /\ notes' \in 0..NoteCap /\ spoilt' \subseteq dirty' /\ dirty' \subseteq Entries
        /\ up' \in BOOLEAN /\ raft' \in BOOLEAN /\ leads' \in BOOLEAN /\ news' \in BOOLEAN
        /\ polling' \in BOOLEAN /\ ready' \in BOOLEAN /\ listens' \in BOOLEAN
        /\ failed' \subseteq {"receiver", "sendLoop", "recvLoop"}
        /\ calling' \in {"nothing", "reply", "no reply"}
        /\ cache' \in [entry : Entries, dirty : BOOLEAN]
        /\ calls' \in 0..MaxCalls /\ events' \in 0..MaxEvents
    BY <2>1 DEF TypeOK
  <2> QED BY <2>1, <2>2, TypeFrame
<1>8. LoopInv' /\ ToSend' = ToSend
  BY <1>0 DEF Inv, LoopInv, ToSend
<1>9. RaftInv'
  <2>1. raft
    BY <1>0, <1>3 DEF RaftInv
  <2> QED BY <1>0, <2>1 DEF RaftInv
<1>10. DirtyInv'
  <2>1. In("push")' \subseteq In("push")
    BY <1>5
  <2> QED BY <1>0, <1>4, <1>5, <1>8, <2>1 DEF DirtyInv
<1>11. ForwardInv'
  <2>1. Vals(In("push")') \subseteq Vals(In("push")) /\ Vals2(ToSend') = Vals2(ToSend)
    BY <1>5, <1>8 DEF Vals
  <2>2. \A v \in Vals(In("pull")') : v \in Vals(In("pull")) \/ (Valued(h) /\ v = h.entry)
    BY <1>4, <1>5 DEF Vals
  <2>3. Valued(h) => /\ Leq(Vals(In("pull")), {h.entry}) /\ h.entry <= live
                     /\ Leq({h.entry}, Vals2(ToSend)) /\ cache.entry <= h.entry
    BY <1>0, <1>6 DEF ForwardInv, Leq
  <2>4. Sorted(chan["pull"])'
    <3>1. PICK s \in Seq(Item) : s = chan["pull"]
      BY <1>0, <1>2 DEF ChanOK
    <3>2. Valued(b) => Leq(Vals(Elems(s)), {b.entry})
      BY <1>4, <2>3, <3>1 DEF In
    <3>3. Sorted(Append(s, b))
      BY <1>0, <1>4, <3>1, <3>2, SortedSteps DEF ForwardInv
    <3> QED BY <1>5, <3>1, <3>3
  <2>5. Leq({cache.entry}, Vals(In("pull"))) /\ Leq({cache.entry}, Vals(In("pull")'))
    BY <1>0, <2>2, <2>3 DEF ForwardInv, Leq
  <2>6. Leq(Vals(In("pull")'), Vals(In("push")'))
    BY <1>0, <1>6, <2>1, <2>2 DEF ForwardInv, Leq
  <2>7. Leq(Vals(In("pull")'), Vals2(ToSend)) /\ Leq(Vals(In("pull")'), {live})
    BY <1>0, <2>2, <2>3 DEF ForwardInv, Leq
  <2>8. /\ Leq({cache.entry}, Vals(In("push")')) /\ Leq(Vals(In("push")'), Vals2(ToSend))
        /\ Leq(Vals(In("push")'), {live})
    BY <1>0, <2>1 DEF ForwardInv, Leq
  <2> QED BY <1>0, <1>6, <2>1, <2>4, <2>5, <2>6, <2>7, <2>8 DEF ForwardInv
<1>12. ReplyInv'
  <2>1. \A c \in {"req", "cmd", "send", "rep"} : chan'[c] = chan[c]
    BY <1>5 DEF Channels
  <2> QED BY <1>0, <2>1, ReplyFrame DEF Inv, HasReply
<1> QED BY <1>7, <1>8, <1>9, <1>10, <1>11, <1>12 DEF Inv

\* What a step on the peers' side of the server leaves alone.
LEMMA PeerFrame ==
    ASSUME Inv, ChanOK', up' \in BOOLEAN, up' => up,
           UNCHANGED <<raft, leads, news, live, dirty, spoilt, notes, polling, at, todo>>,
           UNCHANGED <<calling, ready, cache, listens, calls>>,
           failed' \subseteq failed \cup {"sendLoop", "recvLoop"}, events' \in 0..MaxEvents,
           \A c \in {"req", "cmd", "send", "rep", "push", "pull"} : chan'[c] = chan[c]
    PROVE  Inv'
<1>1. failed' \subseteq {"receiver", "sendLoop", "recvLoop"}
  BY DEF Inv, TypeOK
<1>2. TypeOK' /\ LoopInv' /\ RaftInv' /\ DirtyInv' /\ ForwardInv'
  BY <1>1, QuietFrame
<1>3. ReplyInv'
  BY ReplyFrame DEF Inv, HasReply
<1> QED BY <1>2, <1>3 DEF Inv

\* The loop that publishes.
LEMMA SendLoopStep ==
    ASSUME Inv, SendLoop
    PROVE  Inv'
<1>0. /\ TypeOK /\ ChanOK /\ up' = up /\ up' \in BOOLEAN
      /\ UNCHANGED <<raft, leads, news, live, dirty, spoilt, notes, polling, at, todo>>
      /\ UNCHANGED <<calling, ready, cache, listens, calls>>
  BY ChanTypes DEF Inv, SendLoop, serverVars, loopVars, wrapperVars, TypeOK
<1>1. /\ chan["topic"] # <<>>
      /\ \/ Take("topic") /\ UNCHANGED <<failed, events>>
         \/ Report("sendLoop", Taken("topic")) /\ Event
  BY DEF SendLoop
<1>2. "topic" \in Channels \ {"err"}
  BY DEF Channels
<1>3. CASE Take("topic") /\ UNCHANGED <<failed, events>>
  <2>1. ChanOK' /\ \A d \in Channels \ {"topic"} : chan'[d] = chan[d]
    BY <1>0, <1>1, <1>2, <1>3, TakeStep
  <2>2. \A c \in {"req", "cmd", "send", "rep", "push", "pull"} : chan'[c] = chan[c]
    BY <2>1 DEF Channels
  <2>3. events' \in 0..MaxEvents
    BY <1>0, <1>3 DEF TypeOK
  <2> QED BY <1>0, <1>3, <2>1, <2>2, <2>3, PeerFrame
<1>4. CASE Report("sendLoop", Taken("topic")) /\ Event
  <2>1. /\ ChanOK' /\ \A d \in Channels \ {"topic", "err"} : chan'[d] = chan[d]
        /\ failed' \subseteq failed \cup {"sendLoop"}
    BY <1>0, <1>1, <1>2, <1>4, TakenReport
  <2>2. \A c \in {"req", "cmd", "send", "rep", "push", "pull"} : chan'[c] = chan[c]
    BY <2>1 DEF Channels
  <2>3. events' \in 0..MaxEvents
    BY <1>0, <1>4, EventTyped
  <2> QED BY <1>0, <2>1, <2>2, <2>3, PeerFrame
<1> QED BY <1>1, <1>3, <1>4

\* The loop that receives from peers.
LEMMA RecvLoopStep ==
    ASSUME Inv, RecvLoop
    PROVE  Inv'
<1>0. /\ TypeOK /\ ChanOK /\ up' = up /\ up' \in BOOLEAN
      /\ UNCHANGED <<raft, leads, news, live, dirty, spoilt, notes, polling, at, todo>>
      /\ UNCHANGED <<calling, ready, cache, listens, calls>>
  BY ChanTypes DEF Inv, RecvLoop, serverVars, loopVars, wrapperVars, TypeOK
<1>1. events' \in 0..MaxEvents
  BY <1>0, EventTyped DEF RecvLoop
<1>2. \/ /\ \E k \in {"RaftAddrs", "JobRequest", "Summary", "PollPeers", "State"} : Put("sub", It(k))
         /\ UNCHANGED failed
      \/ Report("recvLoop", chan)
  BY DEF RecvLoop
<1>3. CASE /\ \E k \in {"RaftAddrs", "JobRequest", "Summary", "PollPeers", "State"} : Put("sub", It(k))
           /\ UNCHANGED failed
  <2>1. PICK k \in {"RaftAddrs", "JobRequest", "Summary", "PollPeers", "State"} : Put("sub", It(k))
    BY <1>3
  <2>2. It(k) \in Item /\ "sub" \in Channels
    <3>1. 0 \in Entries
      BY BoundsAssumption DEF Entries
    <3> QED BY <3>1 DEF It, Item, Channels
  <2>3. ChanOK' /\ \A d \in Channels \ {"sub"} : chan'[d] = chan[d]
    BY <1>0, <2>1, <2>2, PutStep
  <2>4. \A c \in {"req", "cmd", "send", "rep", "push", "pull"} : chan'[c] = chan[c]
    BY <2>3 DEF Channels
  <2> QED BY <1>0, <1>1, <1>3, <2>3, <2>4, PeerFrame
<1>4. CASE Report("recvLoop", chan)
  <2>1. chan \in [Channels -> Seq(Item)] /\ \A c \in Channels : Held(c) \in Nat
    BY <1>0 DEF ChanOK
  <2>2. \A c \in Channels : Len(chan[c]) \in Nat /\ Len(chan[c]) <= Held(c)
    <3>1. ASSUME NEW c \in Channels PROVE Len(chan[c]) \in Nat /\ Len(chan[c]) <= Held(c)
      <4>1. PICK n \in Nat : n = Held(c)
        BY <2>1
      <4>2. Len(chan[c]) = n
        BY <4>1 DEF Held
      <4> QED BY <4>1, <4>2
    <3> QED BY <3>1
  <2>3. /\ ChanOK' /\ (\A c \in Channels \ {"err"} : chan'[c] = chan[c])
        /\ failed' \subseteq failed \cup {"recvLoop"}
    BY <1>0, <1>4, <2>1, <2>2, ReportStep
  <2>4. \A c \in {"req", "cmd", "send", "rep", "push", "pull"} : chan'[c] = chan[c]
    BY <2>3 DEF Channels
  <2> QED BY <1>0, <1>1, <2>3, <2>4, PeerFrame
<1> QED BY <1>2, <1>3, <1>4

\* A handshake, or the panic of one.
LEMMA HandshakeStep ==
    ASSUME Inv, Handshake
    PROVE  Inv'
<1>0. /\ TypeOK /\ ChanOK
      /\ UNCHANGED <<raft, leads, news, live, dirty, spoilt, notes, polling, at, todo>>
      /\ UNCHANGED <<calling, ready, cache, listens, calls, failed>>
  BY ChanTypes DEF Inv, Handshake, loopVars, wrapperVars
<1>1. events' \in 0..MaxEvents
  BY <1>0, EventTyped DEF Handshake
<1>2. CASE HasRoom("topic")
  <2>1. Put("topic", It("Message")) /\ UNCHANGED up
    BY <1>2 DEF Handshake
  <2>2. It("Message") \in Item /\ "topic" \in Channels
    BY DEF It, Item, Channels
  <2>3. ChanOK' /\ \A d \in Channels \ {"topic"} : chan'[d] = chan[d]
    BY <1>0, <2>1, <2>2, PutStep
  <2>4. \A c \in {"req", "cmd", "send", "rep", "push", "pull"} : chan'[c] = chan[c]
    BY <2>3 DEF Channels
  <2>5. up' \in BOOLEAN /\ (up' => up)
    BY <1>0, <2>1 DEF TypeOK
  <2> QED BY <1>0, <1>1, <2>3, <2>4, <2>5, PeerFrame
<1>3. CASE ~HasRoom("topic")
  <2>1. up' = FALSE /\ UNCHANGED chan
    BY <1>3 DEF Handshake
  <2>2. ChanOK'
    BY <1>0, <2>1 DEF ChanOK, Held
  <2> QED BY <1>0, <1>1, <2>1, <2>2, PeerFrame
<1> QED BY <1>2, <1>3

-----------------------------------------------------------------------------
(* The main loop *)

\* A send, and a try.
LEMMA SendTyped ==
    ASSUME NEW c \in {"send", "push", "topic"}, NEW item \in Item
    PROVE  /\ To(c, item) \in Send /\ To(c, item).to = c /\ To(c, item).item = item
           /\ To(c, item).try = FALSE
           /\ [To(c, item) EXCEPT !.try = TRUE] \in Send
           /\ [To(c, item) EXCEPT !.try = TRUE].to = c /\ [To(c, item) EXCEPT !.try = TRUE].item = item
BY DEF To, Send

\* What the main loop sends: at most one reply, and that last.
LEMMA ShortSends ==
    ASSUME NEW a \in Send, NEW b \in Send, NEW c \in Send,
           a.to # "send", b.to # "send", c.to = "send" => c.try = FALSE
    PROVE  /\ <<>> \in Seq(Send) /\ ReplyLast(<<>>) /\ ~HasReply(<<>>)
           /\ <<c>> \in Seq(Send) /\ ReplyLast(<<c>>) /\ (HasReply(<<c>>) <=> c.to = "send")
           /\ <<a, c>> \in Seq(Send) /\ ReplyLast(<<a, c>>) /\ (HasReply(<<a, c>>) <=> c.to = "send")
           /\ <<a, b, c>> \in Seq(Send) /\ ReplyLast(<<a, b, c>>)
           /\ (HasReply(<<a, b, c>>) <=> c.to = "send")
<1>1. /\ \A i \in 1..1 : i = 1
      /\ \A i \in 1..2 : i = 1 \/ i = 2
      /\ \A i \in 1..3 : i = 1 \/ i = 2 \/ i = 3
      /\ 1 \in 1..1 /\ 2 \in 1..2 /\ 3 \in 1..3
  OBVIOUS
<1>2. <<>> \in Seq(Send) /\ ReplyLast(<<>>) /\ ~HasReply(<<>>)
  BY DEF ReplyLast, HasReply
<1>3. <<c>> \in Seq(Send) /\ ReplyLast(<<c>>) /\ (HasReply(<<c>>) <=> c.to = "send")
  BY <1>1 DEF ReplyLast, HasReply
<1>4. <<a, c>> \in Seq(Send) /\ ReplyLast(<<a, c>>) /\ (HasReply(<<a, c>>) <=> c.to = "send")
  BY <1>1 DEF ReplyLast, HasReply
<1>5. <<a, b, c>> \in Seq(Send) /\ ReplyLast(<<a, b, c>>) /\ (HasReply(<<a, b, c>>) <=> c.to = "send")
  BY <1>1 DEF ReplyLast, HasReply
<1> QED BY <1>2, <1>3, <1>4, <1>5

\* After the first send.
LEMMA ReplyTail ==
    ASSUME NEW t \in Seq(Send), t # <<>>, ReplyLast(t)
    PROVE  /\ Tail(t) \in Seq(Send) /\ Head(t) \in Send /\ ReplyLast(Tail(t))
           /\ Head(t).to = "send" => HasReply(t) /\ ~HasReply(Tail(t)) /\ ~Head(t).try
           /\ Head(t).to # "send" => (HasReply(Tail(t)) <=> HasReply(t))
<1>1. /\ Tail(t) \in Seq(Send) /\ Head(t) \in Send /\ Head(t) = t[1]
      /\ Len(Tail(t)) = Len(t) - 1 /\ Len(t) \in Nat /\ Len(t) > 0
      /\ \A i \in 1..Len(Tail(t)) : Tail(t)[i] = t[i + 1]
  BY HeadTailProperties, LenProperties, EmptySeq
<1>2. /\ 1 \in 1..Len(t)
      /\ \A i \in 1..Len(Tail(t)) : i + 1 \in 1..Len(t) /\ i + 1 # 1
      /\ \A i \in 1..Len(Tail(t)) : i + 1 = Len(t) => i = Len(Tail(t))
  <2>1. PICK n \in Nat, k \in Nat : n = Len(t) /\ k = Len(Tail(t)) /\ k = n - 1
    BY <1>1, LenProperties
  <2>2. /\ 1 \in 1..n
        /\ \A i \in 1..k : i + 1 \in 1..n /\ i + 1 # 1
        /\ \A i \in 1..k : i + 1 = n => i = k
    BY <2>1
  <2> QED BY <2>1, <2>2
<1>3. ReplyLast(Tail(t))
  BY <1>1, <1>2 DEF ReplyLast
<1>4. ASSUME Head(t).to = "send" PROVE HasReply(t) /\ ~HasReply(Tail(t)) /\ ~Head(t).try
  <2>1. HasReply(t) /\ 1 = Len(t) /\ ~Head(t).try
    BY <1>1, <1>2, <1>4 DEF ReplyLast, HasReply
  <2>2. Tail(t) = <<>>
    <3>1. Len(t) <= 1
      <4>1. Len(t) = 1
        BY <2>1
      <4> QED BY <4>1
    <3>2. Len(t) <= 1 => Tail(t) = <<>>
      BY TailElems
    <3> QED BY <3>1, <3>2
  <2>3. ~HasReply(<<>>)
    BY DEF HasReply
  <2> QED BY <2>1, <2>2, <2>3
<1>5. ASSUME Head(t).to # "send" PROVE HasReply(Tail(t)) <=> HasReply(t)
  <2>1. ASSUME NEW i \in 1..Len(t), t[i].to = "send" PROVE HasReply(Tail(t))
    <3>1. i # 1
      BY <1>1, <1>5, <2>1
    <3>2. i - 1 \in 1..Len(Tail(t)) /\ (i - 1) + 1 = i
      BY <1>1, <3>1
    <3>3. Tail(t)[i - 1].to = "send"
      BY <1>1, <2>1, <3>2
    <3> QED BY <3>2, <3>3 DEF HasReply
  <2>2. HasReply(Tail(t)) => HasReply(t)
    BY <1>1, <1>2 DEF HasReply
  <2> QED BY <2>1, <2>2 DEF HasReply
<1> QED BY <1>1, <1>3, <1>4, <1>5

\* The states the main loop has to send are of the newest entry.
LEMMA LoopFrame ==
    ASSUME TypeOK, ChanOK, DirtyInv, ForwardInv, UNCHANGED cache,
           chan'["push"] = chan["push"], chan'["pull"] = chan["pull"],
           live' \in Nat, live' >= live,
           \A s \in ToSend' : s.item.kind # "Bytes" /\ (s.item.kind = "State" => s.item.entry = live'),
           dirty \subseteq dirty',
           \A e \in dirty' : e <= live' /\ (e \in spoilt' \/ live' > e \/ (live' = e /\ at' \in {"commitCommand", "commitRequest"}))
    PROVE  DirtyInv' /\ ForwardInv'
<1>1. In("push")' = In("push") /\ In("pull")' = In("pull")
  BY DEF In
<1>2. DirtyInv'
  BY <1>1 DEF DirtyInv
<1>3. \A v \in Vals2(ToSend') : v = live'
  BY DEF Vals2, Vals, Valued
<1>4. Vals(In("push")) \subseteq Nat /\ Vals(In("pull")) \subseteq Nat /\ cache.entry \in Nat /\ live \in Nat
  <2>1. In("push") \subseteq Item /\ In("pull") \subseteq Item
    BY InTyped DEF Channels
  <2> QED BY <2>1, ValsTyped, Numbers
<1>5. /\ cache.entry <= live' /\ Leq(Vals(In("pull")), {live'}) /\ Leq(Vals(In("push")), {live'})
  BY <1>4 DEF ForwardInv, Leq
<1>6. /\ Leq(Vals2(ToSend'), Vals2(ToSend')) /\ Leq({cache.entry}, Vals2(ToSend'))
      /\ Leq(Vals(In("pull")), Vals2(ToSend')) /\ Leq(Vals(In("push")), Vals2(ToSend'))
      /\ Leq(Vals2(ToSend'), {live'})
  BY <1>3, <1>5 DEF Leq
<1>7. ForwardInv'
  BY <1>1, <1>5, <1>6 DEF ForwardInv
<1> QED BY <1>2, <1>7

\* The main loop takes a command, keeps it and answers it, and does not lose it.
LEMMA ReplyLoop ==
    ASSUME ChanOK, ReplyInv, ChanOK', up' = up, UNCHANGED calling,
           \A c \in {"req", "send", "rep"} : chan'[c] = chan[c],
           Held("cmd") + InCommit + InTodo = Held("cmd")' + InCommit' + InTodo'
    PROVE  ReplyInv'
<1>1. /\ In("req")' = In("req") /\ Held("req")' = Held("req")
      /\ Held("send")' = Held("send") /\ Held("rep")' = Held("rep")
      /\ InReq' = InReq /\ Waits' = Waits
  BY DEF In, Held, InReq, ReqCommand, Waits
<1>2. Places' = Places
  <2>1. Places = InReq + (Held("cmd") + InCommit + InTodo) + Held("send") + Held("rep")
    BY PlacesAre
  <2>2. Places' = InReq' + (Held("cmd")' + InCommit' + InTodo') + Held("send")' + Held("rep")'
    BY PlacesNext
  <2> QED BY <1>1, <2>1, <2>2
<1>3. OneReply' <=> OneReply
  BY <1>1, <1>2, PlacesAre, PlacesNext
<1> QED BY <1>1, <1>3 DEF ReplyInv

\* The main loop sends, or gives up a try.
LEMMA SendNextStep ==
    ASSUME Inv, SendNext
    PROVE  Inv'
<1> DEFINE h == Head(todo)
<1>0. /\ TypeOK /\ ChanOK /\ LoopInv /\ RaftInv /\ ReplyInv /\ DirtyInv /\ ForwardInv
      /\ UNCHANGED <<up, raft, leads, news, live, dirty, spoilt, notes, polling, at>>
      /\ UNCHANGED <<calling, ready, cache, listens, failed, calls, events>>
  BY ChanTypes DEF Inv, SendNext, serverVars, wrapperVars
<1>1. /\ up /\ todo # <<>> /\ todo' = Tail(todo)
      /\ \/ Put(h.to, h.item)
         \/ h.try /\ ~HasRoom(h.to) /\ UNCHANGED chan
  BY DEF SendNext
<1>2. PICK t \in Seq(Send) : t = todo
  BY <1>0 DEF TypeOK
<1>3. /\ Tail(todo) \in Seq(Send) /\ h \in Send /\ ReplyLast(Tail(todo))
      /\ h.to = "send" => HasReply(todo) /\ ~HasReply(Tail(todo)) /\ ~h.try
      /\ h.to # "send" => (HasReply(Tail(todo)) <=> HasReply(todo))
  BY <1>0, <1>1, <1>2, ReplyTail DEF LoopInv
<1>4. ToSend' \subseteq ToSend /\ h \in ToSend
  <2>1. Head(t) \in Elems(t) /\ Elems(t) = {Head(t)} \cup Elems(Tail(t))
    BY <1>1, <1>2, TailElems
  <2> QED BY <1>1, <1>2, <2>1 DEF ToSend
<1> HIDE DEF h
<1>5. h.to \in {"send", "push", "topic"} /\ h.to \in Channels /\ h.item \in Item
  BY <1>3 DEF Send, Channels
<1>6. /\ ChanOK'
      /\ \A d \in Channels \ {h.to} : chan'[d] = chan[d] /\ In(d)' = In(d) /\ Held(d)' = Held(d)
  <2>1. CASE Put(h.to, h.item)
    BY <1>0, <1>5, <2>1, PutStep
  <2>2. CASE UNCHANGED chan
    BY <1>0, <2>2 DEF ChanOK, In, Held
  <2> QED BY <1>1, <2>1, <2>2
<1>7. TypeOK'
  <2>1. todo' \in Seq(Send)
    BY <1>1, <1>3
  <2>2. /\ UNCHANGED <<up, raft, leads, news, live, dirty, spoilt, notes, polling, at>>
        /\ UNCHANGED <<calling, ready, cache, listens, failed, calls, events>>
        /\ TypeOK /\ ChanOK'
    BY <1>0, <1>6
  <2>3. /\ at' \in {"select", "commitCommand", "commitRequest", "commitState"}
        /\ live' \in Entries /\ notes' \in 0..NoteCap /\ spoilt' \subseteq dirty' /\ dirty' \subseteq Entries
        /\ up' \in BOOLEAN /\ raft' \in BOOLEAN /\ leads' \in BOOLEAN /\ news' \in BOOLEAN
        /\ polling' \in BOOLEAN /\ ready' \in BOOLEAN /\ listens' \in BOOLEAN
        /\ failed' \subseteq {"receiver", "sendLoop", "recvLoop"}
        /\ calling' \in {"nothing", "reply", "no reply"}
        /\ cache' \in [entry : Entries, dirty : BOOLEAN]
        /\ calls' \in 0..MaxCalls /\ events' \in 0..MaxEvents
    BY <2>2 DEF TypeOK
  <2> QED BY <2>1, <2>2, <2>3, TypeFrame
<1>8. LoopInv'
  BY <1>0, <1>1, <1>3 DEF LoopInv
<1>9. In("pull")' = In("pull") /\ chan'["pull"] = chan["pull"]
  BY <1>5, <1>6 DEF Channels
<1>10. In("push")' \subseteq In("push") \cup {h.item} /\ (h.to # "push" => chan'["push"] = chan["push"] /\ In("push")' = In("push"))
  <2>1. CASE h.to # "push"
    BY <1>6, <2>1 DEF Channels
  <2>2. CASE h.to = "push"
    <3>1. CASE Put(h.to, h.item)
      BY <1>0, <1>5, <2>2, <3>1, PutStep
    <3>2. CASE UNCHANGED chan
      BY <3>2 DEF In
    <3> QED BY <1>1, <2>2, <3>1, <3>2
  <2> QED BY <2>1, <2>2
<1>11. RaftInv'
  <2> SUFFICES ASSUME ~raft PROVE RaftInv'
    BY <1>0 DEF RaftInv
  <2>1. h.to # "push"
    BY <1>0, <1>4 DEF RaftInv
  <2> QED BY <1>0, <1>4, <1>9, <1>10, <2>1 DEF RaftInv
<1>12. DirtyInv'
  BY <1>0, <1>4, <1>9, <1>10 DEF DirtyInv
<1>13. ForwardInv'
  <2>1. CASE h.to # "push" \/ UNCHANGED chan
    <3>1. chan'["push"] = chan["push"] /\ In("push")' = In("push")
      BY <1>10, <2>1 DEF In
    <3> QED BY <1>0, <1>4, <1>9, <3>1, ForwardFrame, Numbers DEF ForwardInv
  <2>2. CASE h.to = "push" /\ Put(h.to, h.item)
    <3>1. chan'["push"] = Append(chan["push"], h.item) /\ In("push")' = In("push") \cup {h.item}
      BY <1>0, <1>5, <2>2, PutStep
    <3>2. Valued(h.item) => h.item.entry \in Vals2(ToSend)
      BY <1>4 DEF Vals2, Vals
    <3>3. Vals2(ToSend') \subseteq Vals2(ToSend)
      BY <1>4 DEF Vals2, Vals
    <3>4. \A v \in Vals(In("push")') : v \in Vals(In("push")) \/ v \in Vals2(ToSend)
      BY <3>1, <3>2 DEF Vals
    <3>5. Sorted(chan["push"])'
      <4>1. PICK s \in Seq(Item) : s = chan["push"]
        BY <1>0 DEF ChanOK, Channels
      <4>2. Valued(h.item) => Leq(Vals(Elems(s)), {h.item.entry})
        BY <1>0, <3>2, <4>1 DEF ForwardInv, Leq, In
      <4>3. Sorted(Append(s, h.item))
        BY <1>0, <1>5, <4>1, <4>2, SortedSteps DEF ForwardInv
      <4> QED BY <3>1, <4>1, <4>3
    <3>6. /\ Leq({cache.entry}, Vals(In("push")')) /\ Leq(Vals(In("push")'), Vals2(ToSend'))
          /\ Leq(Vals(In("push")'), {live}) /\ Leq(Vals(In("pull")), Vals(In("push")'))
      BY <1>0, <3>3, <3>4 DEF ForwardInv, Leq
    <3>7. /\ Leq(Vals2(ToSend'), Vals2(ToSend')) /\ Leq({cache.entry}, Vals2(ToSend'))
          /\ Leq(Vals(In("pull")), Vals2(ToSend')) /\ Leq(Vals2(ToSend'), {live})
      BY <1>0, <3>3 DEF ForwardInv, Leq
    <3> QED BY <1>0, <1>9, <3>5, <3>6, <3>7 DEF ForwardInv
  <2> QED BY <1>1, <2>1, <2>2
<1>14. ReplyInv'
  <2>1. CASE h.to # "send"
    <3>1. \A c \in {"req", "cmd", "send", "rep"} : chan'[c] = chan[c]
      BY <1>5, <1>6, <2>1 DEF Channels
    <3>2. HasReply(todo') <=> HasReply(todo)
      BY <1>1, <1>3, <2>1
    <3> QED BY <1>0, <3>1, <3>2, ReplyFrame
  <2>2. CASE h.to = "send"
    <3>1. Put(h.to, h.item)
      BY <1>1, <1>3, <2>2
    <3>2. Held("send")' = Held("send") + 1
      BY <1>0, <1>5, <2>2, <3>1, PutStep
    <3>3. /\ chan'["req"] = chan["req"] /\ In("req")' = In("req") /\ Held("req")' = Held("req")
          /\ Held("cmd")' = Held("cmd") /\ Held("rep")' = Held("rep")
      BY <1>6, <2>2 DEF Channels
    <3>4. InCommit' = InCommit /\ Waits' = Waits /\ InReq' = InReq
      BY <1>0, <3>3 DEF InCommit, Waits, InReq, ReqCommand
    <3>5. HasReply(todo) /\ ~HasReply(todo')
      BY <1>1, <1>3, <2>2
    <3>6. InTodo = 1 /\ InTodo' = 0
      BY <1>0, <1>6, <3>5, PlacesAre, PlacesNext
    <3>7. Places' = Places
      BY <1>0, <1>6, <3>2, <3>3, <3>4, <3>6, PlacesAre, PlacesNext
    <3>8. OneReply'
      BY <1>0, <1>1, <1>6, <3>4, <3>7, PlacesAre, PlacesNext DEF ReplyInv
    <3> QED BY <1>0, <1>1, <3>3, <3>8 DEF ReplyInv
  <2> QED BY <2>1, <2>2
<1> QED BY <1>7, <1>8, <1>11, <1>12, <1>13, <1>14 DEF Inv

\* The numbers after a change that is told.
LEMMA NotifyTyped ==
    ASSUME TypeOK, Notify
    PROVE  notes' \in 0..NoteCap
<1>1. notes \in 0..NoteCap /\ NoteCap \in Nat
  BY CapacitiesAssumption DEF TypeOK
<1> QED BY <1>1 DEF Notify

\* A leader gets its state.
LEMMA GetStep ==
    ASSUME TypeOK, Get \/ GetFails \/ UNCHANGED <<live, notes>>
    PROVE  live' \in Entries /\ live' >= live /\ live' \in Nat /\ notes' \in 0..NoteCap
<1>1. /\ live \in Nat /\ MaxEntries \in Nat /\ live <= MaxEntries /\ notes \in 0..NoteCap
  BY Numbers DEF TypeOK
<1>2. CASE UNCHANGED <<live, notes>>
  BY <1>1, <1>2 DEF Entries
<1>3. CASE live = 0 /\ live < MaxEntries /\ live' = 1 /\ Notify
  BY <1>1, <1>3, NotifyTyped DEF Entries
<1> QED BY <1>2, <1>3 DEF Get, GetFails

\* A job handler, up to Commit.
LEMMA HandleJobStep ==
    ASSUME TypeOK, DirtyInv, at = "select", NEW commit \in {"commitCommand", "commitRequest"},
           NEW fails, NEW quiet, HandleJob(commit, fails, quiet), UNCHANGED spoilt
    PROVE  /\ live' \in Entries /\ live' >= live /\ live' \in Nat /\ notes' \in 0..NoteCap
           /\ dirty \subseteq dirty' /\ dirty' \subseteq Entries
           /\ \A e \in dirty' : e <= live' /\ (e \in spoilt' \/ live' > e \/ (live' = e /\ at' \in {"commitCommand", "commitRequest"}))
           /\ \/ at' = "select" /\ (todo' = fails \/ todo' = quiet)
              \/ at' = commit /\ todo' = todo
<1>1. Get \/ GetFails \/ UNCHANGED <<live, notes>>
  BY DEF HandleJob
<1>2. live' \in Entries /\ live' >= live /\ live' \in Nat /\ notes' \in 0..NoteCap
  BY <1>1, GetStep
<1>3. \/ at' = "select" /\ (todo' = fails \/ todo' = quiet) /\ dirty' = dirty
      \/ at' = commit /\ todo' = todo /\ dirty' = dirty \cup {live'}
  BY DEF HandleJob, Leave
<1>4. live \in Nat /\ dirty \subseteq Nat
  BY Numbers
<1>5. \A e \in dirty : e <= live' /\ (e \in spoilt' \/ live' > e)
  BY <1>2, <1>4 DEF DirtyInv
<1>6. dirty \subseteq dirty' /\ dirty' \subseteq Entries
  BY <1>2, <1>3 DEF TypeOK
<1>7. \A e \in dirty' : e <= live' /\ (e \in spoilt' \/ live' > e \/ (live' = e /\ at' \in {"commitCommand", "commitRequest"}))
  BY <1>2, <1>3, <1>5
<1> QED BY <1>2, <1>3, <1>6, <1>7

\* The server crashes as it takes a message: nothing is asked of it any more.
LEMMA CrashStep ==
    ASSUME Inv, Crash, NEW c \in {"cmd", "sub"}, chan[c] # <<>>, Take(c), UNCHANGED <<wrapperVars, calls, events>>
    PROVE  Inv'
<1>1. /\ TypeOK /\ ChanOK /\ up' = FALSE
      /\ UNCHANGED <<raft, leads, news, live, dirty, spoilt, notes, polling, at, todo>>
      /\ UNCHANGED <<calling, ready, cache, listens, calls, failed, events>>
  BY ChanTypes DEF Inv, Crash, loopVars, wrapperVars
<1>2. ChanOK' /\ \A d \in Channels \ {c} : chan'[d] = chan[d]
  <2>1. c \in Channels
    BY DEF Channels
  <2> QED BY <1>1, <2>1, TakeStep
<1>3. chan'["push"] = chan["push"] /\ chan'["pull"] = chan["pull"]
  BY <1>2 DEF Channels
<1>4. failed' \subseteq {"receiver", "sendLoop", "recvLoop"} /\ events' \in 0..MaxEvents
  BY <1>1 DEF TypeOK
<1>5. TypeOK' /\ LoopInv' /\ RaftInv' /\ DirtyInv' /\ ForwardInv'
  BY <1>1, <1>2, <1>3, <1>4, QuietFrame
<1>6. ReplyInv'
  BY <1>1 DEF ReplyInv
<1> QED BY <1>5, <1>6 DEF Inv

\* A send that carries, if any, the state of entry e.
Carries(s, e) ==
    /\ s \in Send /\ (s.to = "send" => s.try = FALSE)
    /\ s.item.kind # "Bytes" /\ (s.item.kind = "State" => s.item.entry = e)

\* The same of all that the main loop has to send, with the reply last.
SendsOK(t, e) ==
    /\ t \in Seq(Send) /\ ReplyLast(t)
    /\ \A s \in Elems(t) : s.item.kind # "Bytes" /\ (s.item.kind = "State" => s.item.entry = e)

\* Sends one after the other.
LEMMA CarriesAll ==
    ASSUME NEW e, NEW a, NEW b, NEW c, Carries(a, e), Carries(b, e), Carries(c, e),
           a.to # "send", b.to # "send"
    PROVE  /\ SendsOK(<<>>, e) /\ ~HasReply(<<>>)
           /\ SendsOK(<<c>>, e) /\ (HasReply(<<c>>) <=> c.to = "send")
           /\ SendsOK(<<a, c>>, e) /\ (HasReply(<<a, c>>) <=> c.to = "send")
           /\ SendsOK(<<a, b, c>>, e) /\ (HasReply(<<a, b, c>>) <=> c.to = "send")
<1>1. a \in Send /\ b \in Send /\ c \in Send /\ (c.to = "send" => c.try = FALSE)
  BY DEF Carries
<1>2. /\ <<>> \in Seq(Send) /\ ReplyLast(<<>>) /\ ~HasReply(<<>>)
      /\ <<c>> \in Seq(Send) /\ ReplyLast(<<c>>) /\ (HasReply(<<c>>) <=> c.to = "send")
      /\ <<a, c>> \in Seq(Send) /\ ReplyLast(<<a, c>>) /\ (HasReply(<<a, c>>) <=> c.to = "send")
      /\ <<a, b, c>> \in Seq(Send) /\ ReplyLast(<<a, b, c>>)
      /\ (HasReply(<<a, b, c>>) <=> c.to = "send")
  BY <1>1, ShortSends
<1>3. /\ Elems(<<>>) = {} /\ Elems(<<c>>) = {c}
      /\ Elems(<<a, c>>) = {a, c} /\ Elems(<<a, b, c>>) = {a, b, c}
  <2>0. Elems(<<>>) = {}
    BY ShortElems
  <2>1. Elems(<<a, b, c>>) = {a, b, c}
    <3>1. /\ \A i \in 1..3 : i = 1 \/ i = 2 \/ i = 3
          /\ 1 \in 1..3 /\ 2 \in 1..3 /\ 3 \in 1..3
      OBVIOUS
    <3> QED BY <3>1 DEF Elems
  <2>2. \A x : Elems(<<x>>) = {x}
    BY ShortElems
  <2>3. \A x, y : Elems(<<x, y>>) = {x, y}
    BY ShortElems
  <2> QED BY <2>0, <2>1, <2>2, <2>3
<1>4. SendsOK(<<>>, e)
  BY <1>2, <1>3 DEF SendsOK
<1>5. SendsOK(<<c>>, e)
  BY <1>2, <1>3 DEF SendsOK, Carries
<1>6. SendsOK(<<a, c>>, e)
  BY <1>2, <1>3 DEF SendsOK, Carries
<1>7. SendsOK(<<a, b, c>>, e)
  BY <1>2, <1>3 DEF SendsOK, Carries
<1> QED BY <1>2, <1>4, <1>5, <1>6, <1>7

State(e) == [kind |-> "State", entry |-> e]

\* What the main loop sends in the end.
LEMMA AllCarry ==
    ASSUME NEW e \in Entries
    PROVE  /\ \A k \in {"Ok", "Error"} : Carries(To("send", It(k)), e) /\ To("send", It(k)).to = "send"
           /\ Carries(To("topic", It("Message")), e) /\ To("topic", It("Message")).to = "topic"
           /\ Carries(To("push", It("Summary")), e) /\ To("push", It("Summary")).to = "push"
           /\ Carries([To("push", It("Summary")) EXCEPT !.try = TRUE], e)
           /\ [To("push", It("Summary")) EXCEPT !.try = TRUE].to = "push"
           /\ Carries(To("push", State(e)), e) /\ To("push", State(e)).to = "push"
           /\ Carries(To("topic", State(e)), e) /\ To("topic", State(e)).to = "topic"
<1>1. \A k \in {"Ok", "Error", "Message", "Summary"} : It(k) \in Item /\ It(k).kind = k
  BY DEF It, Item
<1>2. State(e) \in Item /\ State(e).entry = e /\ State(e).kind = "State"
  BY DEF State, Item
<1>3. ASSUME NEW k \in {"Ok", "Error"}
      PROVE  Carries(To("send", It(k)), e) /\ To("send", It(k)).to = "send"
  <2>1. It(k) \in Item /\ It(k).kind = k
    BY <1>1
  <2>2. /\ To("send", It(k)) \in Send /\ To("send", It(k)).to = "send"
        /\ To("send", It(k)).item = It(k) /\ To("send", It(k)).try = FALSE
    BY <2>1, SendTyped
  <2> QED BY <2>1, <2>2 DEF Carries
<1>4. Carries(To("topic", It("Message")), e) /\ To("topic", It("Message")).to = "topic"
  BY <1>1, SendTyped DEF Carries
<1>5. /\ Carries(To("push", It("Summary")), e) /\ To("push", It("Summary")).to = "push"
      /\ Carries([To("push", It("Summary")) EXCEPT !.try = TRUE], e)
      /\ [To("push", It("Summary")) EXCEPT !.try = TRUE].to = "push"
  BY <1>1, SendTyped DEF Carries
<1>6. /\ Carries(To("push", State(e)), e) /\ To("push", State(e)).to = "push"
      /\ Carries(To("topic", State(e)), e) /\ To("topic", State(e)).to = "topic"
  BY <1>2, SendTyped DEF Carries
<1> QED BY <1>3, <1>4, <1>5, <1>6

\* All that a turn of the main loop has to keep.
LEMMA TurnStep ==
    ASSUME Inv, ChanOK', up' = up, UNCHANGED <<calling, ready, cache, listens, failed, calls>>,
           events' \in 0..MaxEvents, RaftInv',
           at' \in {"select", "commitCommand", "commitRequest", "commitState"}, at' # "select" => todo' = <<>>,
           SendsOK(todo', live'),
           live' \in Entries, live' \in Nat, live' >= live, notes' \in 0..NoteCap,
           spoilt' \subseteq dirty', dirty \subseteq dirty', dirty' \subseteq Entries,
           \A e \in dirty' : e <= live' /\ (e \in spoilt' \/ live' > e \/ (live' = e /\ at' \in {"commitCommand", "commitRequest"})),
           raft' \in BOOLEAN, leads' \in BOOLEAN, news' \in BOOLEAN, polling' \in BOOLEAN,
           \A c \in {"req", "send", "rep", "push", "pull"} : chan'[c] = chan[c],
           Held("cmd") + InCommit + InTodo = Held("cmd")' + InCommit' + InTodo'
    PROVE  Inv'
<1>1. TypeOK /\ ChanOK /\ ReplyInv /\ DirtyInv /\ ForwardInv
  BY ChanTypes DEF Inv
<1>2. /\ todo' \in Seq(Send) /\ ReplyLast(todo')
      /\ \A s \in ToSend' : s.item.kind # "Bytes" /\ (s.item.kind = "State" => s.item.entry = live')
  BY DEF SendsOK, ToSend
<1>3. TypeOK'
  <2>1. /\ up' \in BOOLEAN /\ ready' \in BOOLEAN /\ listens' \in BOOLEAN
        /\ failed' \subseteq {"receiver", "sendLoop", "recvLoop"}
        /\ calling' \in {"nothing", "reply", "no reply"}
        /\ cache' \in [entry : Entries, dirty : BOOLEAN]
        /\ calls' \in 0..MaxCalls
    BY <1>1 DEF TypeOK
  <2> QED BY <1>1, <1>2, <2>1, TypeFrame
<1>4. LoopInv'
  BY <1>2 DEF LoopInv
<1>5. DirtyInv' /\ ForwardInv'
  BY <1>1, <1>2, LoopFrame
<1>6. ReplyInv'
  BY <1>1, ReplyLoop
<1> QED BY <1>3, <1>4, <1>5, <1>6 DEF Inv

\* The main loop selects: it has nothing to send and no handler under way.
LEMMA SelectsState ==
    ASSUME Inv, Selects
    PROVE  /\ TypeOK /\ ChanOK /\ RaftInv /\ DirtyInv /\ up /\ at = "select" /\ todo = <<>>
           /\ InCommit = 0 /\ InTodo = 0 /\ Held("cmd") \in Nat
           /\ live \in Entries /\ live \in Nat /\ live >= live /\ notes \in 0..NoteCap
           /\ spoilt \subseteq dirty /\ dirty \subseteq Entries
           /\ \A e \in dirty : e <= live /\ (e \in spoilt \/ live > e)
<1>1. TypeOK /\ ChanOK /\ RaftInv /\ DirtyInv /\ up /\ at = "select" /\ todo = <<>>
  BY ChanTypes DEF Inv, Selects
<1>2. ~HasReply(todo)
  BY <1>1 DEF HasReply
<1>3. InCommit = 0 /\ InTodo = 0 /\ Held("cmd") \in Nat
  BY <1>1, <1>2, PlacesAre
<1>4. live \in Entries /\ notes \in 0..NoteCap /\ spoilt \subseteq dirty /\ dirty \subseteq Entries
  BY <1>1 DEF TypeOK
<1>5. live \in Nat /\ live >= live
  BY <1>1, Numbers
<1>6. \A e \in dirty : e <= live /\ (e \in spoilt \/ live > e)
  BY <1>1 DEF DirtyInv
<1> QED BY <1>1, <1>3, <1>4, <1>5, <1>6

\* A command of the host.
LEMMA OnCommandStep ==
    ASSUME Inv, OnCommand
    PROVE  Inv'
<1>0. /\ TypeOK /\ ChanOK /\ RaftInv /\ DirtyInv /\ up /\ at = "select" /\ todo = <<>>
      /\ InCommit = 0 /\ InTodo = 0 /\ Held("cmd") \in Nat
      /\ live \in Entries /\ live \in Nat /\ live >= live /\ notes \in 0..NoteCap
      /\ spoilt \subseteq dirty /\ dirty \subseteq Entries
      /\ \A e \in dirty : e <= live /\ (e \in spoilt \/ live > e)
  BY SelectsState DEF OnCommand
<1>1. chan["cmd"] # <<>> /\ Take("cmd") /\ UNCHANGED <<wrapperVars, calls, events>>
  BY DEF OnCommand
<1>2. CASE ~raft
  <2>1. Crash
    BY <1>2 DEF OnCommand
  <2> QED BY <1>1, <2>1, CrashStep
<1>3. CASE raft
  <2>1. /\ UNCHANGED <<up, raft, leads, news, spoilt, polling, failed>>
        /\ IF leads
           THEN HandleJob("commitCommand", <<To("send", It("Error"))>>, <<To("send", It("Ok"))>>)
           ELSE /\ todo' = <<To("topic", It("Message")), To("send", It("Ok"))>>
                /\ UNCHANGED <<at, live, notes, dirty>>
    BY <1>3 DEF OnCommand
  <2>2. /\ ChanOK' /\ Held("cmd")' = Held("cmd") - 1
        /\ \A d \in Channels \ {"cmd"} : chan'[d] = chan[d]
    BY <1>0, <1>1, TakeStep DEF Channels
  <2>3. \A c \in {"req", "send", "rep", "push", "pull"} : chan'[c] = chan[c]
    BY <2>2 DEF Channels
  <2>4. /\ UNCHANGED <<calling, ready, cache, listens, failed, calls>> /\ events' \in 0..MaxEvents
        /\ raft' \in BOOLEAN /\ leads' \in BOOLEAN /\ news' \in BOOLEAN /\ polling' \in BOOLEAN
    BY <1>0, <1>1, <2>1 DEF wrapperVars, TypeOK
  <2>5. RaftInv'
    BY <1>3, <2>1 DEF RaftInv
  <2>6. \A e \in Entries : /\ SendsOK(<<>>, e) /\ ~HasReply(<<>>)
                           /\ SendsOK(<<To("send", It("Error"))>>, e) /\ HasReply(<<To("send", It("Error"))>>)
                           /\ SendsOK(<<To("send", It("Ok"))>>, e) /\ HasReply(<<To("send", It("Ok"))>>)
                           /\ SendsOK(<<To("topic", It("Message")), To("send", It("Ok"))>>, e)
                           /\ HasReply(<<To("topic", It("Message")), To("send", It("Ok"))>>)
    <3>1. ASSUME NEW e \in Entries, NEW k \in {"Ok", "Error"}
          PROVE  /\ SendsOK(<<>>, e) /\ ~HasReply(<<>>)
                 /\ SendsOK(<<To("send", It(k))>>, e) /\ HasReply(<<To("send", It(k))>>)
                 /\ SendsOK(<<To("topic", It("Message")), To("send", It(k))>>, e)
                 /\ HasReply(<<To("topic", It("Message")), To("send", It(k))>>)
      <4>1. /\ Carries(To("send", It(k)), e) /\ To("send", It(k)).to = "send"
            /\ Carries(To("topic", It("Message")), e) /\ To("topic", It("Message")).to # "send"
        BY AllCarry
      <4> QED BY <4>1, CarriesAll
    <3> QED BY <3>1
  <2>7. /\ live' \in Entries /\ live' >= live /\ live' \in Nat /\ notes' \in 0..NoteCap
        /\ dirty \subseteq dirty' /\ dirty' \subseteq Entries
        /\ \A e \in dirty' : e <= live' /\ (e \in spoilt' \/ live' > e \/ (live' = e /\ at' \in {"commitCommand", "commitRequest"}))
        /\ \/ /\ at' = "select"
              /\ todo' \in {<<To("send", It("Error"))>>, <<To("send", It("Ok"))>>,
                            <<To("topic", It("Message")), To("send", It("Ok"))>>}
           \/ at' = "commitCommand" /\ todo' = <<>>
    <3>1. CASE leads
      <4>1. HandleJob("commitCommand", <<To("send", It("Error"))>>, <<To("send", It("Ok"))>>)
        BY <2>1, <3>1
      <4> QED BY <1>0, <2>1, <4>1, HandleJobStep
    <3>2. CASE ~leads
      BY <1>0, <2>1, <3>2
    <3> QED BY <3>1, <3>2
  <2>8. SendsOK(todo', live') /\ (HasReply(todo') <=> at' = "select")
    BY <2>6, <2>7
  <2>9. (InCommit' = 0 /\ InTodo' = 1) \/ (InCommit' = 1 /\ InTodo' = 0)
    BY <2>2, <2>7, <2>8, PlacesNext
  <2>10. Held("cmd") + InCommit + InTodo = Held("cmd")' + InCommit' + InTodo'
    <3>1. Held("cmd") \in Nat /\ InCommit = 0 /\ InTodo = 0 /\ Held("cmd")' = Held("cmd") - 1
      BY <1>0, <2>2
    <3> QED BY <2>9, <3>1
  <2>11. /\ at' \in {"select", "commitCommand", "commitRequest", "commitState"} /\ (at' # "select" => todo' = <<>>)
         /\ up' = up /\ spoilt' \subseteq dirty'
    BY <1>0, <2>1, <2>7
  <2> QED BY <2>2, <2>3, <2>4, <2>5, <2>7, <2>8, <2>10, <2>11, TurnStep
<1> QED BY <1>2, <1>3

\* A handler's Commit.
LEMMA CommitStep ==
    ASSUME Inv, Commit
    PROVE  Inv'
<1>0. /\ TypeOK /\ ChanOK /\ DirtyInv /\ raft /\ todo = <<>> /\ up
      /\ at \in {"commitCommand", "commitRequest"}
  BY ChanTypes DEF Inv, Commit, LoopInv, RaftInv, TypeOK
<1>1. /\ at' = "select"
      /\ UNCHANGED <<up, raft, leads, news, dirty, polling, chan, failed, calls, events>>
      /\ UNCHANGED <<calling, ready, cache, listens>>
  BY DEF Commit, Leave, wrapperVars
<1>2. \/ live < MaxEntries /\ live' = live + 1 /\ Notify /\ UNCHANGED spoilt /\ todo' = Answer(live + 1)
      \/ /\ Spoil /\ UNCHANGED <<live, notes>>
         /\ todo' = IF at = "commitCommand" THEN <<To("send", It("Error"))>> ELSE <<>>
      \/ todo' = Answer(live) /\ Spoil /\ UNCHANGED <<live, notes>>
  BY DEF Commit
<1>3. live \in Nat /\ MaxEntries \in Nat /\ live <= MaxEntries /\ dirty \subseteq Nat /\ notes \in 0..NoteCap
  BY <1>0, Numbers DEF TypeOK
<1>4. /\ live' \in Entries /\ live' >= live /\ live' \in Nat /\ notes' \in 0..NoteCap
      /\ spoilt' \subseteq dirty
      /\ \A e \in dirty : e <= live' /\ (e \in spoilt' \/ live' > e)
  <2>1. /\ spoilt \subseteq dirty
        /\ \A e \in dirty : e <= live /\ (e \in spoilt \/ live > e \/ live = e)
    BY <1>0 DEF TypeOK, DirtyInv
  <2>2. CASE live < MaxEntries /\ live' = live + 1 /\ Notify /\ UNCHANGED spoilt
    <3>1. notes' \in 0..NoteCap
      BY <1>0, <2>2, NotifyTyped
    <3>2. live' \in Entries /\ live' >= live /\ live' \in Nat
      BY <1>3, <2>2 DEF Entries
    <3>3. \A e \in dirty : e <= live' /\ live' > e
      BY <1>3, <2>1, <2>2
    <3> QED BY <2>1, <2>2, <3>1, <3>2, <3>3
  <2>3. CASE Spoil /\ UNCHANGED <<live, notes>>
    <3>1. live' \in Entries /\ live' >= live /\ live' \in Nat /\ notes' \in 0..NoteCap
      BY <1>3, <2>3 DEF Entries
    <3>2. spoilt' = spoilt \cup ({live} \cap dirty) /\ live' = live
      BY <2>3 DEF Spoil
    <3>3. spoilt' \subseteq dirty /\ \A e \in dirty : e <= live' /\ (e \in spoilt' \/ live' > e)
      BY <2>1, <3>2
    <3> QED BY <3>1, <3>3
  <2> QED BY <1>2, <2>2, <2>3
<1>5. /\ SendsOK(todo', live') /\ (HasReply(todo') <=> at = "commitCommand")
  <2>1. /\ \A k \in {"Ok", "Error"} : Carries(To("send", It(k)), live') /\ To("send", It(k)).to = "send"
        /\ Carries(To("topic", State(live')), live') /\ To("topic", State(live')).to # "send"
        /\ Carries(To("push", State(live')), live') /\ To("push", State(live')).to # "send"
    BY <1>4, AllCarry
  <2>2. /\ SendsOK(<<>>, live') /\ ~HasReply(<<>>)
        /\ SendsOK(<<To("send", It("Error"))>>, live') /\ HasReply(<<To("send", It("Error"))>>)
        /\ SendsOK(<<To("topic", State(live'))>>, live') /\ ~HasReply(<<To("topic", State(live'))>>)
    BY <2>1, CarriesAll
  <2>3. /\ SendsOK(<<To("topic", State(live')), To("push", State(live')), To("send", It("Ok"))>>, live')
        /\ HasReply(<<To("topic", State(live')), To("push", State(live')), To("send", It("Ok"))>>)
    BY <2>1, CarriesAll
  <2>4. \/ todo' = Answer(live')
        \/ todo' = IF at = "commitCommand" THEN <<To("send", It("Error"))>> ELSE <<>>
    BY <1>2
  <2>5. CASE todo' = Answer(live')
    <3>1. todo' = IF at = "commitCommand"
                  THEN <<To("topic", State(live')), To("push", State(live')), To("send", It("Ok"))>>
                  ELSE <<To("topic", State(live'))>>
      BY <2>5 DEF Answer, State
    <3> QED BY <2>2, <2>3, <3>1
  <2>6. CASE todo' = IF at = "commitCommand" THEN <<To("send", It("Error"))>> ELSE <<>>
    BY <2>2, <2>6
  <2> QED BY <2>4, <2>5, <2>6
<1>6. ChanOK' /\ Held("cmd")' = Held("cmd") /\ \A c \in {"req", "send", "rep", "push", "pull"} : chan'[c] = chan[c]
  BY <1>0, <1>1 DEF ChanOK, Held
<1>7. Held("cmd") + InCommit + InTodo = Held("cmd")' + InCommit' + InTodo'
  <2>1. ~HasReply(todo)
    BY <1>0 DEF HasReply
  <2>2. InCommit' = 0 /\ InTodo = 0 /\ InCommit = InTodo'
    BY <1>0, <1>1, <1>5, <1>6, <2>1, PlacesAre, PlacesNext
  <2>3. Held("cmd") \in Nat /\ InCommit \in Nat
    BY <1>0, PlacesAre
  <2> QED BY <1>6, <2>2, <2>3
<1>8. RaftInv'
  BY <1>0, <1>1 DEF RaftInv
<1>9. /\ up' = up /\ UNCHANGED <<calling, ready, cache, listens, failed, calls>> /\ events' \in 0..MaxEvents
      /\ raft' \in BOOLEAN /\ leads' \in BOOLEAN /\ news' \in BOOLEAN /\ polling' \in BOOLEAN
      /\ dirty \subseteq dirty' /\ dirty' \subseteq Entries /\ spoilt' \subseteq dirty'
      /\ at' \in {"select", "commitCommand", "commitRequest", "commitState"} /\ (at' # "select" => todo' = <<>>)
  BY <1>0, <1>1, <1>4 DEF TypeOK
<1>10. \A e \in dirty' : e <= live' /\ (e \in spoilt' \/ live' > e \/ (live' = e /\ at' \in {"commitCommand", "commitRequest"}))
  BY <1>1, <1>4
<1> QED BY <1>4, <1>5, <1>6, <1>7, <1>8, <1>9, <1>10, TurnStep

\* A turn of the main loop that takes neither a command nor a reply.
LEMMA QuietTurn ==
    ASSUME Inv, Selects, ChanOK', Held("cmd")' = Held("cmd"),
           \A c \in {"req", "send", "rep", "push", "pull"} : chan'[c] = chan[c],
           UNCHANGED <<up, spoilt, calling, ready, cache, listens, failed, calls>>,
           events' \in 0..MaxEvents, RaftInv',
           at' \in {"select", "commitRequest", "commitState"}, at' # "select" => todo' = <<>>,
           SendsOK(todo', live'), ~HasReply(todo'),
           live' \in Entries, live' \in Nat, live' >= live, notes' \in 0..NoteCap,
           dirty \subseteq dirty', dirty' \subseteq Entries,
           \A e \in dirty' : e <= live' /\ (e \in spoilt' \/ live' > e \/ (live' = e /\ at' \in {"commitCommand", "commitRequest"})),
           raft' \in BOOLEAN, leads' \in BOOLEAN, news' \in BOOLEAN, polling' \in BOOLEAN
    PROVE  Inv'
<1>1. InCommit = 0 /\ InTodo = 0 /\ Held("cmd") \in Nat /\ spoilt \subseteq dirty
  BY SelectsState
<1>2. InCommit' = 0 /\ InTodo' = 0
  BY PlacesNext
<1>3. Held("cmd") + InCommit + InTodo = Held("cmd")' + InCommit' + InTodo'
  BY <1>1, <1>2
<1>4. spoilt' \subseteq dirty' /\ at' \in {"select", "commitCommand", "commitRequest", "commitState"}
  BY <1>1
<1> QED BY <1>3, <1>4, TurnStep

\* The Commit of OnState.
LEMMA CommitStateStep ==
    ASSUME Inv, CommitState
    PROVE  Inv'
<1>0. /\ TypeOK /\ ChanOK /\ DirtyInv /\ raft /\ todo = <<>> /\ up /\ at = "commitState"
  BY ChanTypes DEF Inv, CommitState, LoopInv, RaftInv, TypeOK
<1>1. /\ UNCHANGED <<raft, leads, news, dirty, spoilt, polling, todo, chan, failed, calls, events>>
      /\ UNCHANGED <<calling, ready, cache, listens>>
  BY DEF CommitState, wrapperVars
<1>2. ChanOK' /\ Held("cmd")' = Held("cmd") /\ \A c \in {"req", "send", "rep", "push", "pull"} : chan'[c] = chan[c]
  BY <1>0, <1>1 DEF ChanOK, Held
<1>3. live \in Nat /\ MaxEntries \in Nat /\ live <= MaxEntries /\ dirty \subseteq Nat /\ notes \in 0..NoteCap
  BY <1>0, Numbers DEF TypeOK
<1>4. \A e \in dirty : e <= live /\ (e \in spoilt \/ live > e)
  BY <1>0 DEF DirtyInv
<1>5. CASE up' = FALSE
  <2>1. UNCHANGED <<at, live, notes>>
    BY <1>0, <1>5 DEF CommitState
  <2>2. failed' \subseteq failed /\ events' \in 0..MaxEvents
    BY <1>0, <1>1 DEF TypeOK
  <2> QED BY <1>1, <1>2, <1>5, <2>1, <2>2, PeerFrame
<1>6. CASE up' # FALSE
  <2>1. /\ UNCHANGED up /\ at' = "select"
        /\ (live < MaxEntries /\ live' = live + 1 /\ Notify) \/ UNCHANGED <<live, notes>>
    BY <1>6 DEF CommitState, Leave
  <2>2. /\ live' \in Entries /\ live' >= live /\ live' \in Nat /\ notes' \in 0..NoteCap
        /\ \A e \in dirty' : e <= live' /\ (e \in spoilt' \/ live' > e)
    <3>1. CASE live < MaxEntries /\ live' = live + 1 /\ Notify
      <4>1. notes' \in 0..NoteCap
        BY <1>0, <3>1, NotifyTyped
      <4>2. live' \in Entries /\ live' >= live /\ live' \in Nat
        BY <1>3, <3>1 DEF Entries
      <4> QED BY <1>1, <1>3, <1>4, <3>1, <4>1, <4>2
    <3>2. CASE UNCHANGED <<live, notes>>
      BY <1>1, <1>3, <1>4, <3>2 DEF Entries
    <3> QED BY <2>1, <3>1, <3>2
  <2>3. /\ SendsOK(todo', live') /\ ~HasReply(todo')
    <3>1. Elems(<<>>) = {} /\ ReplyLast(<<>>) /\ ~HasReply(<<>>) /\ <<>> \in Seq(Send)
      BY DEF Elems, ReplyLast, HasReply
    <3> QED BY <1>0, <1>1, <3>1 DEF SendsOK
  <2>4. Held("cmd") + InCommit + InTodo = Held("cmd")' + InCommit' + InTodo'
    <3>1. ~HasReply(todo)
      BY <1>0 DEF HasReply
    <3>2. InCommit = 0 /\ InTodo = 0 /\ InCommit' = 0 /\ InTodo' = 0
      BY <1>0, <1>2, <2>1, <2>3, <3>1, PlacesAre, PlacesNext
    <3> QED BY <1>2, <3>2
  <2>5. RaftInv'
    BY <1>0, <1>1 DEF RaftInv
  <2>6. /\ up' = up /\ events' \in 0..MaxEvents
        /\ raft' \in BOOLEAN /\ leads' \in BOOLEAN /\ news' \in BOOLEAN /\ polling' \in BOOLEAN
        /\ dirty \subseteq dirty' /\ dirty' \subseteq Entries /\ spoilt' \subseteq dirty'
    BY <1>0, <1>1, <2>1 DEF TypeOK
  <2> QED BY <1>1, <1>2, <2>1, <2>2, <2>3, <2>4, <2>5, <2>6, TurnStep
<1> QED BY <1>5, <1>6

\* Go ends the process.
LEMMA MapRaceStep ==
    ASSUME Inv, MapRace
    PROVE  Inv'
<1>1. /\ up' = FALSE /\ ChanOK
      /\ UNCHANGED <<raft, leads, news, live, dirty, spoilt, notes, polling, at, todo>>
      /\ UNCHANGED <<calling, ready, cache, listens, calls>> /\ UNCHANGED <<chan, failed, events>>
  BY ChanTypes DEF Inv, MapRace, loopVars, wrapperVars
<1>2. ChanOK' /\ events' \in 0..MaxEvents
  BY <1>1 DEF Inv, TypeOK, ChanOK, Held
<1> QED BY <1>1, <1>2, PeerFrame

\* A message of another peer.
LEMMA OnPubsubStep ==
    ASSUME Inv, OnPubsub
    PROVE  Inv'
<1> DEFINE kind == Head(chan["sub"]).kind
           message == To("topic", It("Message"))
           summary == To("push", It("Summary"))
<1>0. /\ TypeOK /\ ChanOK /\ RaftInv /\ DirtyInv /\ up /\ at = "select" /\ todo = <<>> /\ Selects
      /\ live \in Entries /\ live \in Nat /\ live >= live /\ notes \in 0..NoteCap
      /\ dirty \subseteq Entries
      /\ \A e \in dirty : e <= live /\ (e \in spoilt \/ live > e)
  BY SelectsState DEF OnPubsub
<1>1. chan["sub"] # <<>> /\ Take("sub") /\ UNCHANGED <<wrapperVars, calls, events>>
  BY DEF OnPubsub
<1>2. CASE kind \in {"JobRequest", "Summary", "State"} /\ ~raft
  <2>1. Crash
    BY <1>2 DEF OnPubsub
  <2> QED BY <1>1, <2>1, CrashStep
<1>3. CASE ~(kind \in {"JobRequest", "Summary", "State"} /\ ~raft)
  <2>1. /\ raft' \in {raft, raft \/ kind = "RaftAddrs"}
        /\ UNCHANGED <<up, leads, news, spoilt, polling, failed>>
        /\ \/ kind = "JobRequest" /\ leads /\ HandleJob("commitRequest", <<>>, <<>>)
           \/ /\ kind = "Summary"
              /\ todo' \in {<<>>, <<summary>>} /\ UNCHANGED <<at, live, notes, dirty>>
           \/ /\ kind = "State"
              /\ at' \in {"select", "commitState"} /\ UNCHANGED <<todo, live, notes, dirty>>
           \/ todo' \in {<<>>, <<message>>} /\ UNCHANGED <<at, live, notes, dirty>>
           \/ UNCHANGED <<at, todo, live, notes, dirty>>
    BY <1>3 DEF OnPubsub
  <2>2. /\ ChanOK' /\ Held("cmd")' = Held("cmd")
        /\ \A c \in {"req", "send", "rep", "push", "pull"} : chan'[c] = chan[c]
    <3>1. ChanOK' /\ \A d \in Channels \ {"sub"} : chan'[d] = chan[d] /\ Held(d)' = Held(d)
      BY <1>0, <1>1, TakeStep DEF Channels
    <3> QED BY <3>1 DEF Channels
  <2>3. /\ UNCHANGED <<up, spoilt, calling, ready, cache, listens, failed, calls>> /\ events' \in 0..MaxEvents
        /\ raft' \in BOOLEAN /\ leads' \in BOOLEAN /\ news' \in BOOLEAN /\ polling' \in BOOLEAN
    BY <1>0, <1>1, <2>1 DEF wrapperVars, TypeOK
  <2>4. \A e \in Entries : /\ SendsOK(<<>>, e) /\ ~HasReply(<<>>)
                           /\ SendsOK(<<message>>, e) /\ ~HasReply(<<message>>)
                           /\ SendsOK(<<summary>>, e) /\ ~HasReply(<<summary>>)
    <3>1. ASSUME NEW e \in Entries
          PROVE  /\ Carries(message, e) /\ message.to # "send"
                 /\ Carries(summary, e) /\ summary.to # "send"
      BY AllCarry
    <3> HIDE DEF message, summary
    <3> QED BY <3>1, CarriesAll
  <2>5. /\ live' \in Entries /\ live' >= live /\ live' \in Nat /\ notes' \in 0..NoteCap
        /\ dirty \subseteq dirty' /\ dirty' \subseteq Entries
        /\ \A e \in dirty' : e <= live' /\ (e \in spoilt' \/ live' > e \/ (live' = e /\ at' \in {"commitCommand", "commitRequest"}))
        /\ \/ at' = "select" /\ todo' \in {<<>>, <<message>>, <<summary>>}
           \/ at' \in {"commitRequest", "commitState"} /\ todo' = <<>>
    <3>1. CASE HandleJob("commitRequest", <<>>, <<>>)
      BY <1>0, <2>1, <3>1, HandleJobStep
    <3>2. CASE todo' \in {<<>>, <<message>>, <<summary>>} /\ UNCHANGED <<at, live, notes, dirty>>
      BY <1>0, <2>1, <3>2
    <3>3. CASE at' \in {"select", "commitState"} /\ UNCHANGED <<todo, live, notes, dirty>>
      BY <1>0, <2>1, <3>3
    <3> QED BY <1>0, <2>1, <3>1, <3>2, <3>3
  <2>6. /\ SendsOK(todo', live') /\ ~HasReply(todo')
        /\ at' \in {"select", "commitRequest", "commitState"} /\ (at' # "select" => todo' = <<>>)
    <3> HIDE DEF message, summary
    <3> QED BY <2>4, <2>5
  <2>7. RaftInv'
    <3> SUFFICES ASSUME ~raft' PROVE RaftInv'
      BY DEF RaftInv
    <3>1. ~raft /\ kind # "JobRequest" /\ kind # "Summary" /\ kind # "State"
      BY <1>0, <1>3, <2>1 DEF TypeOK
    <3>2. todo' \in {<<>>, <<message>>} /\ UNCHANGED <<at, live, notes>>
      BY <1>0, <2>1, <3>1
    <3>3. \A s \in ToSend' : s.to # "push"
      <4>1. message.to # "push"
        BY <1>0, AllCarry
      <4>2. Elems(<<>>) = {} /\ Elems(<<message>>) = {message}
        BY ShortElems
      <4> HIDE DEF message
      <4> QED BY <3>2, <4>1, <4>2 DEF ToSend
    <3>4. In("push")' = In("push") /\ In("pull")' = In("pull")
      BY <2>2 DEF In
    <3> QED BY <1>0, <2>1, <2>3, <3>1, <3>2, <3>3, <3>4 DEF RaftInv
  <2> QED BY <1>0, <2>2, <2>3, <2>5, <2>6, <2>7, QuietTurn
<1> QED BY <1>2, <1>3

\* A change of the state is told.
LEMMA OnStateChanStep ==
    ASSUME Inv, OnStateChan
    PROVE  Inv'
<1>0. /\ TypeOK /\ ChanOK /\ RaftInv /\ DirtyInv /\ up /\ at = "select" /\ todo = <<>> /\ Selects
      /\ live \in Entries /\ live \in Nat /\ live >= live /\ notes \in 0..NoteCap
      /\ dirty \subseteq Entries
      /\ \A e \in dirty : e <= live /\ (e \in spoilt \/ live > e)
  BY SelectsState DEF OnStateChan
<1>1. /\ notes > 0 /\ notes' = notes - 1 /\ todo' \in {<<>>, <<To("push", State(live))>>}
      /\ UNCHANGED <<up, raft, leads, news, live, dirty, spoilt, polling, at, chan, failed, calls, events>>
      /\ UNCHANGED <<calling, ready, cache, listens>>
  BY DEF OnStateChan, wrapperVars, State
<1>2. ChanOK' /\ Held("cmd")' = Held("cmd") /\ \A c \in {"req", "send", "rep", "push", "pull"} : chan'[c] = chan[c]
  BY <1>0, <1>1 DEF ChanOK, Held
<1>3. notes' \in 0..NoteCap /\ raft
  <2>1. NoteCap \in Nat /\ notes \in 0..NoteCap /\ notes > 0 /\ notes' = notes - 1
    BY <1>0, <1>1, Numbers
  <2>2. notes # 0 /\ notes' \in 0..NoteCap
    BY <2>1
  <2> QED BY <1>0, <2>2 DEF RaftInv
<1>4. SendsOK(todo', live') /\ ~HasReply(todo')
  <2>1. Carries(To("push", State(live)), live) /\ To("push", State(live)).to # "send"
    BY <1>0, AllCarry
  <2>2. /\ SendsOK(<<>>, live) /\ ~HasReply(<<>>)
        /\ SendsOK(<<To("push", State(live))>>, live) /\ ~HasReply(<<To("push", State(live))>>)
    BY <2>1, CarriesAll
  <2> QED BY <1>1, <2>2
<1>5. RaftInv'
  BY <1>1, <1>3 DEF RaftInv
<1>6. /\ events' \in 0..MaxEvents /\ raft' \in BOOLEAN /\ leads' \in BOOLEAN /\ news' \in BOOLEAN /\ polling' \in BOOLEAN
      /\ at' = "select" /\ live' \in Entries /\ live' \in Nat /\ live' >= live /\ dirty' = dirty /\ dirty' \subseteq Entries
      /\ \A e \in dirty' : e <= live' /\ (e \in spoilt' \/ live' > e)
  BY <1>0, <1>1 DEF TypeOK
<1> QED BY <1>0, <1>1, <1>2, <1>3, <1>4, <1>5, <1>6, QuietTurn

\* A change of the leader is told.
LEMMA OnLeaderChanStep ==
    ASSUME Inv, OnLeaderChan
    PROVE  Inv'
<1> DEFINE message == To("topic", It("Message"))
<1>0. /\ TypeOK /\ ChanOK /\ RaftInv /\ DirtyInv /\ up /\ at = "select" /\ todo = <<>> /\ Selects
      /\ live \in Entries /\ live \in Nat /\ live >= live /\ notes \in 0..NoteCap
      /\ dirty \subseteq Entries
      /\ \A e \in dirty : e <= live /\ (e \in spoilt \/ live > e)
  BY SelectsState DEF OnLeaderChan
<1>1. /\ news /\ news' = FALSE /\ polling' = TRUE
      /\ UNCHANGED <<up, raft, leads, dirty, spoilt, at, chan, failed, calls, events>>
      /\ UNCHANGED <<calling, ready, cache, listens>>
      /\ \/ todo' = <<>> /\ UNCHANGED <<live, notes>>
         \/ GetFails /\ todo' = <<message>>
         \/ Get /\ todo' = <<message, To("topic", State(live')), To("push", State(live'))>>
  BY DEF OnLeaderChan, wrapperVars, State
<1>2. ChanOK' /\ Held("cmd")' = Held("cmd") /\ \A c \in {"req", "send", "rep", "push", "pull"} : chan'[c] = chan[c]
  BY <1>0, <1>1 DEF ChanOK, Held
<1>3. live' \in Entries /\ live' >= live /\ live' \in Nat /\ notes' \in 0..NoteCap
  BY <1>0, <1>1, GetStep
<1>4. SendsOK(todo', live') /\ ~HasReply(todo')
  <2>1. /\ Carries(To("push", State(live')), live') /\ To("push", State(live')).to # "send"
        /\ Carries(To("topic", State(live')), live') /\ To("topic", State(live')).to # "send"
        /\ Carries(message, live') /\ message.to # "send"
    BY <1>3, AllCarry
  <2>2. todo' \in {<<>>, <<message>>, <<message, To("topic", State(live')), To("push", State(live'))>>}
    BY <1>1
  <2> HIDE DEF message
  <2>3. SendsOK(<<>>, live') /\ ~HasReply(<<>>) /\ SendsOK(<<message>>, live') /\ ~HasReply(<<message>>)
    BY <2>1, CarriesAll
  <2>4. /\ SendsOK(<<message, To("topic", State(live')), To("push", State(live'))>>, live')
        /\ ~HasReply(<<message, To("topic", State(live')), To("push", State(live'))>>)
    BY <2>1, CarriesAll
  <2> QED BY <2>2, <2>3, <2>4
<1>5. RaftInv'
  BY <1>0, <1>1 DEF RaftInv
<1>6. /\ events' \in 0..MaxEvents /\ raft' \in BOOLEAN /\ leads' \in BOOLEAN /\ news' \in BOOLEAN /\ polling' \in BOOLEAN
      /\ at' = "select" /\ dirty' = dirty /\ dirty' \subseteq Entries
  BY <1>0, <1>1 DEF TypeOK
<1>7. \A e \in dirty' : e <= live' /\ (e \in spoilt' \/ live' > e)
  <2>1. live \in Nat /\ dirty \subseteq Nat
    BY <1>0, Numbers
  <2> QED BY <1>0, <1>1, <1>3, <2>1
<1> QED BY <1>0, <1>1, <1>2, <1>3, <1>4, <1>5, <1>6, <1>7, QuietTurn

\* The poller polls.
LEMMA OnPollStep ==
    ASSUME Inv, OnPoll
    PROVE  Inv'
<1> DEFINE message == To("topic", It("Message"))
           summary == [To("push", It("Summary")) EXCEPT !.try = TRUE]
<1>0. /\ TypeOK /\ ChanOK /\ RaftInv /\ DirtyInv /\ up /\ at = "select" /\ todo = <<>> /\ Selects
      /\ live \in Entries /\ live \in Nat /\ live >= live /\ notes \in 0..NoteCap
      /\ dirty \subseteq Entries
      /\ \A e \in dirty : e <= live /\ (e \in spoilt \/ live > e)
  BY SelectsState DEF OnPoll
<1>1. /\ polling /\ Event /\ todo' \in {<<message>>, <<message, summary>>}
      /\ UNCHANGED <<up, raft, leads, news, live, dirty, spoilt, notes, polling, at, chan, failed, calls>>
      /\ UNCHANGED <<calling, ready, cache, listens>>
  BY DEF OnPoll, serverVars, wrapperVars
<1>2. ChanOK' /\ Held("cmd")' = Held("cmd") /\ \A c \in {"req", "send", "rep", "push", "pull"} : chan'[c] = chan[c]
  BY <1>0, <1>1 DEF ChanOK, Held
<1>3. SendsOK(todo', live') /\ ~HasReply(todo')
  <2>1. /\ Carries(message, live) /\ message.to # "send"
        /\ Carries(summary, live) /\ summary.to # "send"
    BY <1>0, AllCarry
  <2> HIDE DEF message, summary
  <2>2. /\ SendsOK(<<message>>, live) /\ ~HasReply(<<message>>)
        /\ SendsOK(<<message, summary>>, live) /\ ~HasReply(<<message, summary>>)
    BY <2>1, CarriesAll
  <2> QED BY <1>1, <2>2
<1>4. events' \in 0..MaxEvents
  BY <1>0, <1>1, EventTyped
<1>5. RaftInv'
  BY <1>0, <1>1 DEF RaftInv
<1>6. /\ raft' \in BOOLEAN /\ leads' \in BOOLEAN /\ news' \in BOOLEAN /\ polling' \in BOOLEAN
      /\ at' = "select" /\ dirty' = dirty /\ dirty' \subseteq Entries
      /\ live' \in Entries /\ live' \in Nat /\ live' >= live /\ notes' \in 0..NoteCap
      /\ \A e \in dirty' : e <= live' /\ (e \in spoilt' \/ live' > e)
  BY <1>0, <1>1 DEF TypeOK
<1> QED BY <1>0, <1>1, <1>2, <1>3, <1>4, <1>5, <1>6, QuietTurn

\* Elections, and entries that a follower applies.
LEMMA RaftStep ==
    ASSUME Inv, LeaderChanges \/ Apply
    PROVE  Inv'
<1>0. /\ TypeOK /\ ChanOK /\ DirtyInv /\ ForwardInv /\ raft
      /\ UNCHANGED <<up, raft, dirty, spoilt, polling, at, todo, chan, failed, calls>>
      /\ UNCHANGED <<calling, ready, cache, listens>>
  BY ChanTypes DEF Inv, LeaderChanges, Apply, loopVars, wrapperVars
<1>1. /\ live' \in Entries /\ live' \in Nat /\ live' >= live /\ notes' \in 0..NoteCap
      /\ live' = live \/ live' > live
      /\ leads' \in BOOLEAN /\ news' \in BOOLEAN /\ events' \in 0..MaxEvents
  <2>1. live \in Nat /\ MaxEntries \in Nat /\ live <= MaxEntries
    BY <1>0, Numbers
  <2>2. CASE LeaderChanges
    <3>1. UNCHANGED <<live, notes>> /\ leads' \in BOOLEAN /\ news' \in BOOLEAN /\ Event
      BY <2>2 DEF LeaderChanges
    <3>2. events' \in 0..MaxEvents
      BY <1>0, <3>1, EventTyped
    <3>3. live' >= live /\ live' \in Nat /\ live' = live /\ live' \in Entries
      BY <2>1, <3>1 DEF Entries
    <3> QED BY <1>0, <3>1, <3>2, <3>3 DEF TypeOK
  <2>3. CASE Apply
    <3>1. live < MaxEntries /\ live' = live + 1 /\ Notify /\ UNCHANGED <<leads, news, events>>
      BY <2>3 DEF Apply
    <3>2. notes' \in 0..NoteCap
      BY <1>0, <3>1, NotifyTyped
    <3>3. live' \in Entries /\ live' \in Nat /\ live' >= live /\ live' > live
      BY <2>1, <3>1 DEF Entries
    <3> QED BY <1>0, <3>1, <3>2, <3>3 DEF TypeOK
  <2> QED BY <2>2, <2>3
<1>2. ChanOK' /\ In("push")' = In("push") /\ In("pull")' = In("pull") /\ ToSend' = ToSend
  BY <1>0 DEF ChanOK, Held, In, ToSend
<1>3. TypeOK'
  <2>1. /\ todo' \in Seq(Send) /\ at' \in {"select", "commitCommand", "commitRequest", "commitState"}
        /\ spoilt' \subseteq dirty' /\ dirty' \subseteq Entries
        /\ up' \in BOOLEAN /\ raft' \in BOOLEAN
        /\ polling' \in BOOLEAN /\ ready' \in BOOLEAN /\ listens' \in BOOLEAN
        /\ failed' \subseteq {"receiver", "sendLoop", "recvLoop"}
        /\ calling' \in {"nothing", "reply", "no reply"}
        /\ cache' \in [entry : Entries, dirty : BOOLEAN]
        /\ calls' \in 0..MaxCalls
    BY <1>0 DEF TypeOK
  <2> QED BY <1>0, <1>1, <1>2, <2>1, TypeFrame
<1>4. LoopInv'
  BY <1>0 DEF Inv, LoopInv
<1>5. RaftInv'
  BY <1>0 DEF RaftInv
<1>6. DirtyInv'
  <2>1. live \in Nat /\ dirty \subseteq Nat
    BY <1>0, Numbers
  <2>2. \A e \in dirty : e <= live' /\ (e \in spoilt \/ live' > e \/ (live' = e /\ at \in {"commitCommand", "commitRequest"}))
    <3>1. \A e \in dirty : e <= live /\ (e \in spoilt \/ live > e \/ (live = e /\ at \in {"commitCommand", "commitRequest"}))
      BY <1>0 DEF DirtyInv
    <3>2. CASE live' = live
      BY <3>1, <3>2
    <3>3. CASE live' > live
      <4>1. live' \in Nat
        BY <1>1
      <4> QED BY <2>1, <3>1, <3>3, <4>1
    <3> QED BY <1>1, <3>2, <3>3
  <2> QED BY <1>0, <1>2, <2>2 DEF DirtyInv
<1>7. ForwardInv'
  BY <1>0, <1>1, <1>2, ForwardFrame DEF ForwardInv
<1>8. ReplyInv'
  BY <1>0, ReplyFrame DEF Inv, HasReply
<1> QED BY <1>3, <1>4, <1>5, <1>6, <1>7, <1>8 DEF Inv

-----------------------------------------------------------------------------
(* The theorems *)

\* The server has just started.
LEMMA InitInv == Init => Inv
<1> SUFFICES ASSUME Init PROVE Inv
  OBVIOUS
<1>0. \A c \in Channels : chan[c] = <<>> /\ Held(c) = 0 /\ In(c) = {}
  BY ShortElems DEF Init, Held, In
<1>1. chan \in [Channels -> Seq(Item)]
  BY DEF Init
<1>2. ChanOK
  BY <1>0, <1>1, Capacities DEF ChanOK
<1>3. TypeOK
  <2>1. /\ 0 \in Entries /\ 0 \in 0..NoteCap /\ MaxCalls \in 0..MaxCalls /\ MaxEvents \in 0..MaxEvents
    BY CapacitiesAssumption, BoundsAssumption DEF Entries
  <2>2. \A c \in Channels : Len(chan[c]) <= Capacity(c)
    BY <1>2 DEF ChanOK, Held
  <2>3. todo \in Seq(Send) /\ cache \in [entry : Entries, dirty : BOOLEAN]
    BY <2>1 DEF Init
  <2> QED BY <1>1, <2>1, <2>2, <2>3 DEF Init, TypeOK
<1>4. LoopInv /\ ~HasReply(todo) /\ ToSend = {}
  <2>1. todo = <<>> /\ at = "select"
    BY DEF Init
  <2>2. ReplyLast(<<>>) /\ ~HasReply(<<>>) /\ Elems(<<>>) = {}
    BY DEF ReplyLast, HasReply, Elems
  <2> QED BY <2>1, <2>2 DEF LoopInv, ToSend
<1>5. chan["push"] = <<>> /\ chan["pull"] = <<>> /\ In("push") = {} /\ In("pull") = {}
  BY <1>0 DEF Channels
<1>6. RaftInv
  BY <1>4, <1>5 DEF Init, RaftInv
<1>7. ReplyInv
  <2>1. Held("cmd") = 0 /\ Held("send") = 0 /\ Held("rep") = 0 /\ chan["req"] = <<>> /\ In("req") = {} /\ Held("req") = 0
    BY <1>0 DEF Channels
  <2>2. InReq = 0 /\ InCommit = 0 /\ InTodo = 0 /\ Waits = 0
    BY <1>2, <1>4, <2>1, PlacesAre DEF Init, ReqCommand
  <2>3. OneReply
    BY <1>2, <2>1, <2>2, PlacesAre
  <2> QED BY <2>1, <2>3 DEF ReplyInv
<1>8. DirtyInv
  BY <1>4, <1>5 DEF Init, DirtyInv
<1>9. ForwardInv
  <2>1. Vals({}) = {} /\ Vals2({}) = {}
    BY DEF Vals, Vals2
  <2>2. cache.entry <= live
    BY DEF Init
  <2>3. Sorted(<<>>)
    BY DEF Sorted
  <2> QED BY <1>4, <1>5, <2>1, <2>2, <2>3 DEF ForwardInv, Leq
<1> QED BY <1>3, <1>4, <1>6, <1>7, <1>8, <1>9 DEF Inv

\* Every step keeps the invariant, and never takes the wrapper back.
LEMMA Inductive == Inv /\ [Next]_vars => Inv' /\ (UNCHANGED cache \/ cache'.entry >= cache.entry)
<1> SUFFICES ASSUME Inv, [Next]_vars PROVE Inv' /\ (UNCHANGED cache \/ cache'.entry >= cache.entry)
  OBVIOUS
<1>1. CASE Call("Command") \/ Call("Garbled")
  BY <1>1, CallStep DEF Call
<1>2. CASE CallReturn
  BY <1>2, CallReturnStep DEF CallReturn
<1>3. CASE Update
  BY <1>3, UpdateStep DEF Update
<1>4. CASE UpdateRaises
  <2>1. UNCHANGED cache \/ cache' = Shown(Head(chan["pull"]))
    BY <1>4 DEF UpdateRaises
  <2> QED BY <1>4, <2>1, UpdateStep, UpdateRaisesStep
<1>5. CASE Receiver
  BY <1>5, ReceiverStep DEF Receiver, wrapperVars
<1>6. CASE SendPipe
  BY <1>6, SendPipeStep DEF SendPipe, wrapperVars
<1>7. CASE PushPipe
  BY <1>7, PushPipeStep DEF PushPipe, wrapperVars
<1>8. CASE SendLoop
  BY <1>8, SendLoopStep DEF SendLoop, wrapperVars
<1>9. CASE RecvLoop
  BY <1>9, RecvLoopStep DEF RecvLoop, wrapperVars
<1>10. CASE Handshake
  BY <1>10, HandshakeStep DEF Handshake, wrapperVars
<1>11. CASE OnCommand
  BY <1>11, OnCommandStep DEF OnCommand, wrapperVars
<1>12. CASE Commit
  BY <1>12, CommitStep DEF Commit, wrapperVars
<1>21. CASE CommitState
  BY <1>21, CommitStateStep DEF CommitState, wrapperVars
<1>22. CASE MapRace
  BY <1>22, MapRaceStep DEF MapRace, wrapperVars
<1>13. CASE OnPubsub
  BY <1>13, OnPubsubStep DEF OnPubsub, wrapperVars
<1>14. CASE OnStateChan
  BY <1>14, OnStateChanStep DEF OnStateChan, wrapperVars
<1>15. CASE OnLeaderChan
  BY <1>15, OnLeaderChanStep DEF OnLeaderChan, wrapperVars
<1>16. CASE SendNext
  BY <1>16, SendNextStep DEF SendNext, wrapperVars
<1>17. CASE OnPoll
  BY <1>17, OnPollStep DEF OnPoll, wrapperVars
<1>18. CASE LeaderChanges
  BY <1>18, RaftStep DEF LeaderChanges, wrapperVars
<1>19. CASE Apply
  BY <1>19, RaftStep DEF Apply, wrapperVars
<1>20. CASE UNCHANGED vars
  <2>1. /\ UNCHANGED <<raft, leads, news, live, dirty, spoilt, notes, polling, at, todo>>
        /\ UNCHANGED <<calling, ready, cache, listens, calls>> /\ UNCHANGED <<up, chan, failed, events>>
    BY <1>20 DEF vars, serverVars, loopVars, wrapperVars
  <2>2. ChanOK
    BY ChanTypes DEF Inv
  <2>3. ChanOK' /\ up' \in BOOLEAN /\ events' \in 0..MaxEvents
    BY <2>1, <2>2 DEF Inv, TypeOK, ChanOK, Held
  <2> QED BY <2>1, <2>3, PeerFrame
<1> QED BY <1>1, <1>2, <1>3, <1>4, <1>5, <1>6, <1>7, <1>8, <1>9, <1>10, <1>11, <1>12, <1>13,
          <1>14, <1>15, <1>16, <1>17, <1>18, <1>19, <1>20, <1>21, <1>22 DEF Next, Loop

\* The invariant holds in every state.
THEOREM Invariance == Spec => []Inv
<1> QED BY InitInv, Inductive, PTL DEF Spec

\* The state has its types: no channel, socket or subscription ever holds more
\* than its capacity, whichever goroutines send to it.
THEOREM TypeCorrectness == Spec => []TypeOK
<1>1. Inv => TypeOK
  BY DEF Inv
<1> QED BY <1>1, Invariance, PTL

\* For any capacities: while call() waits, its command or the reply to it is in
\* exactly one place of the server; otherwise in none.
THEOREM RepliesMatch == Spec => []OneReply
<1>1. Inv => OneReply
  BY DEF Inv, ReplyInv, OneReply
<1> QED BY <1>1, Invariance, PTL

\* The wrapper is ready only if the server can take a command without a crash.
THEOREM ReadyNeedsRaft == Spec => []ReadyMeansRaft
<1>1. Inv => ReadyMeansRaft
  BY DEF Inv, RaftInv, ReadyMeansRaft
<1> QED BY <1>1, Invariance, PTL

\* What the wrapper shows differs from an agreed entry only for a reason.
THEOREM ShownExplained == Spec => []ShownIsExplained
<1>1. Inv => ShownIsExplained
  BY DEF Inv, DirtyInv, ShownIsExplained
<1> QED BY <1>1, Invariance, PTL

\* What the wrapper shows never goes back to an older entry, whatever is on its
\* way through the channels.
THEOREM NeverBack == Spec => CacheMovesForward
<1>1. Inv /\ [Next]_vars => [cache'.entry >= cache.entry]_vars
  <2> SUFFICES ASSUME Inv, [Next]_vars PROVE [cache'.entry >= cache.entry]_vars
    OBVIOUS
  <2>1. cache.entry \in Nat
    BY Numbers DEF Inv
  <2>2. UNCHANGED cache \/ cache'.entry >= cache.entry
    BY Inductive
  <2> QED BY <2>1, <2>2
<1> QED BY <1>1, Invariance, PTL DEF Spec, CacheMovesForward
=============================================================================
