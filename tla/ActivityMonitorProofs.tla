----------------------- MODULE ActivityMonitorProofs ------------------------
(***************************************************************************)
(* Proofs about ActivityMonitor.tla and the input devices it falls back to,*)
(* for every number of devices, nodes, watches and queued calls.           *)
(***************************************************************************)
EXTENDS ActivityMonitor, FiniteSetTheorems, SequenceTheorems, TLAPS

-----------------------------------------------------------------------------
(* The events of a device node, on their way from the kernel through udevd *)
(* to the program.                                                         *)

Pending == queue \o uevents
Mentions(s, n) == \E i \in 1..Len(s) : s[i].node = n
Removes(s, n) == \E i \in 1..Len(s) : s[i].node = n /\ s[i].action = "remove"

\* What a node holds after an event, and what the program is to watch then.
Result(e) == IF e.action = "add" THEN e.device ELSE 0
Wanted(d) == IF d \in Inputs \ refused THEN d ELSE 0

\* An event tells what its node holds now, or one that undoes it follows.
Truthful(s, a) ==
    \A i \in 1..Len(s) :
        \/ a[s[i].node] = Result(s[i])
        \/ \E k \in 1..Len(s) : /\ i < k /\ s[k].node = s[i].node
                                /\ s[k].action # s[i].action

\* Devices are announced in the order of their numbers.
AddsInOrder(s, p) ==
    /\ \A i \in 1..Len(s) : s[i].action = "add" => s[i].device <= p
    /\ \A i, j \in 1..Len(s) : s[i].action = "add" /\ s[j].action = "add" /\ i < j
                                   => s[i].device < s[j].device

\* udevd is up to date with a node, or an event tells it what has changed.
ReadyInv(n) == IF Mentions(uevents, n)
               THEN ~Removes(uevents, n) => ready[n] = 0
               ELSE ready[n] = at[n]

\* A device sits behind one node.
OneNode == /\ \A n \in Nodes : at[n] <= plugs
           /\ \A n, m \in Nodes : at[n] = at[m] /\ at[n] # 0 => n = m

\* The kernel's side: at, ready and the events between them agree.
KernelInv == /\ OneNode
             /\ Truthful(uevents, at) /\ Truthful(Pending, at)
             /\ AddsInOrder(uevents, plugs)
             /\ \A n \in Nodes : ReadyInv(n)

\* Where the program is, and what it has asked udev for.
ControlInv == /\ receiving <=> running \/ step # "loop"
              /\ ~receiving => queue = <<>>
              /\ running => step \in {"loop", "open"}
              /\ step \in {"loop", "list"} \/ running => listed = {}
              /\ step = "open" => opening \notin listed

\* Before start(), and until the scan has looked at it, a node is not watched.
Unseen(n) == ~receiving \/ step = "list" \/ n \in listed
Opening(n) == step = "open" /\ opening = n

\* The program's side: what it opens on a node, and what is open there, is right
\* unless an event to come says that the node's device went.
NodeInv(n) == /\ Unseen(n) => watched[n] = 0
              /\ ~Removes(Pending, n) => /\ watched[n] \in {0, Wanted(at[n])}
                                         /\ Opening(n) => at[n] \in Inputs
              /\ ~Unseen(n) /\ ~Opening(n) /\ ~Mentions(Pending, n)
                     => watched[n] = Wanted(at[n])

ProgramInv == ControlInv /\ \A n \in Nodes : NodeInv(n)

DevicesInv == /\ DevicesTypeOK
              /\ KernelInv
              /\ ProgramInv
              /\ openFds = Cardinality(WatchedNodes)

-----------------------------------------------------------------------------
(* An event joins a queue, or leaves it.                                   *)

LEMMA EventFields ==
    ASSUME NEW e \in Events
    PROVE  /\ e.node \in Nodes /\ e.device \in Nat \ {0}
           /\ e.action = "add" \/ e.action = "remove"
  BY InputsAssumption DEF Events

LEMMA EventJoins ==
    ASSUME NEW s \in Seq(Events), NEW e \in Events, NEW n \in Nodes
    PROVE  /\ Append(s, e) \in Seq(Events)
           /\ Mentions(Append(s, e), n) <=> Mentions(s, n) \/ e.node = n
           /\ Removes(Append(s, e), n) <=> Removes(s, n) \/ (e.node = n /\ e.action = "remove")
<1>1. /\ Append(s, e) \in Seq(Events) /\ Len(Append(s, e)) = Len(s) + 1 /\ Len(s) \in Nat
      /\ \A i \in 1..Len(s) : Append(s, e)[i] = s[i]
      /\ Append(s, e)[Len(s) + 1] = e
  BY AppendProperties, LenProperties
<1>2. \A i \in 1..Len(Append(s, e)) : i \in 1..Len(s) \/ i = Len(s) + 1
  BY <1>1
<1>3. /\ 1..Len(s) \subseteq 1..Len(Append(s, e)) /\ Len(s) + 1 \in 1..Len(Append(s, e))
  BY <1>1
<1> QED
  BY <1>1, <1>2, <1>3 DEF Mentions, Removes

LEMMA EventLeaves ==
    ASSUME NEW s \in Seq(Events), s # <<>>, NEW n \in Nodes
    PROVE  /\ Head(s) \in Events /\ Tail(s) \in Seq(Events)
           /\ Mentions(s, n) <=> Head(s).node = n \/ Mentions(Tail(s), n)
           /\ Removes(s, n) <=> \/ Head(s).node = n /\ Head(s).action = "remove"
                                \/ Removes(Tail(s), n)
<1>1. /\ Head(s) \in Events /\ Tail(s) \in Seq(Events) /\ Len(Tail(s)) = Len(s) - 1
      /\ Len(s) \in Nat \ {0} /\ Head(s) = s[1]
      /\ \A i \in 1..Len(Tail(s)) : Tail(s)[i] = s[i + 1]
  BY HeadTailProperties, EmptySeq
<1>2. \A i \in 1..Len(s) : i = 1 \/ (i - 1 \in 1..Len(Tail(s)) /\ Tail(s)[i - 1] = s[i])
  BY <1>1
<1>3. /\ 1 \in 1..Len(s)
      /\ \A i \in 1..Len(Tail(s)) : i + 1 \in 1..Len(s)
  BY <1>1
<1>4. Mentions(s, n) <=> Head(s).node = n \/ Mentions(Tail(s), n)
  <2>1. ASSUME Mentions(s, n) PROVE Head(s).node = n \/ Mentions(Tail(s), n)
    BY <1>1, <1>2, <2>1 DEF Mentions
  <2>2. ASSUME Head(s).node = n \/ Mentions(Tail(s), n) PROVE Mentions(s, n)
    BY <1>1, <1>3, <2>2 DEF Mentions
  <2> QED
    BY <2>1, <2>2
<1>5. Removes(s, n) <=> \/ Head(s).node = n /\ Head(s).action = "remove"
                       \/ Removes(Tail(s), n)
  <2>1. ASSUME Removes(s, n)
        PROVE  \/ Head(s).node = n /\ Head(s).action = "remove"
               \/ Removes(Tail(s), n)
    BY <1>1, <1>2, <2>1 DEF Removes
  <2>2. ASSUME \/ Head(s).node = n /\ Head(s).action = "remove"
               \/ Removes(Tail(s), n)
        PROVE  Removes(s, n)
    BY <1>1, <1>3, <2>2 DEF Removes
  <2> QED
    BY <2>1, <2>2
<1> QED
  BY <1>1, <1>4, <1>5

\* An event that comes when its node changes is true and keeps the others so.
LEMMA JoinsTruthfully ==
    ASSUME NEW s \in Seq(Events), NEW a \in [Nodes -> Devices], NEW e \in Events, NEW d,
           d = Result(e),
           Truthful(s, a), e.action = "add" <=> a[e.node] = 0
    PROVE  Truthful(Append(s, e), [a EXCEPT ![e.node] = d])
<1> DEFINE t == Append(s, e)
           b == [a EXCEPT ![e.node] = d]
<1>1. /\ t \in Seq(Events) /\ Len(t) = Len(s) + 1 /\ Len(s) \in Nat
      /\ \A i \in 1..Len(s) : t[i] = s[i] /\ s[i] \in Events
      /\ t[Len(s) + 1] = e
  BY AppendProperties, LenProperties, ElementOfSeq
<1>2. /\ \A i \in 1..Len(t) : i \in 1..Len(s) \/ i = Len(s) + 1
      /\ \A i \in 1..Len(s) : i \in 1..Len(t) /\ i < Len(s) + 1
      /\ Len(s) + 1 \in 1..Len(t)
  BY <1>1
<1>3. /\ e.node \in Nodes /\ e.action \in {"add", "remove"}
      /\ b[e.node] = d /\ \A n \in Nodes \ {e.node} : b[n] = a[n]
  BY EventFields
<1> HIDE DEF t, b
<1> SUFFICES ASSUME NEW i \in 1..Len(t)
             PROVE  \/ b[t[i].node] = Result(t[i])
                    \/ \E k \in 1..Len(t) : i < k /\ t[k].node = t[i].node /\ t[k].action # t[i].action
  BY DEF Truthful, t, b
<1>4. CASE i = Len(s) + 1
  BY <1>1, <1>3, <1>4
<1>5. CASE i \in 1..Len(s) /\ s[i].node = e.node /\ s[i].action # e.action
  BY <1>1, <1>2, <1>5
<1>6. CASE i \in 1..Len(s) /\ ~(s[i].node = e.node /\ s[i].action # e.action)
  <2>1. CASE \E k \in 1..Len(s) : i < k /\ s[k].node = s[i].node /\ s[k].action # s[i].action
    BY <1>1, <1>2, <1>6, <2>1
  <2>2. CASE a[s[i].node] = Result(s[i])
    <3>1. s[i] \in Events /\ s[i].node \in Nodes /\ s[i].device # 0
      BY <1>1, <1>6, EventFields
    <3>2. CASE s[i].node # e.node
      BY <1>1, <1>3, <1>6, <2>2, <3>1, <3>2
    <3>3. CASE s[i].node = e.node
      <4>1. s[i].action = e.action
        BY <1>6, <3>3
      <4>2. e.action = "add" => Result(s[i]) # 0
        BY <3>1, <4>1 DEF Result
      <4>3. e.action = "remove" => Result(s[i]) = 0
        BY <4>1 DEF Result
      <4> QED
        BY <1>3, <2>2, <3>3, <4>2, <4>3
    <3> QED
      BY <3>2, <3>3
  <2> QED
    BY <1>6, <2>1, <2>2 DEF Truthful
<1> QED
  BY <1>2, <1>4, <1>5, <1>6

LEMMA LeavesTruthfully ==
    ASSUME NEW s \in Seq(Events), s # <<>>, NEW a, Truthful(s, a)
    PROVE  /\ Truthful(Tail(s), a)
           /\ ~Mentions(Tail(s), Head(s).node) => a[Head(s).node] = Result(Head(s))
           /\ Head(s).action = "add" /\ ~Removes(s, Head(s).node)
                  => a[Head(s).node] = Head(s).device
<1>1. /\ Tail(s) \in Seq(Events) /\ Len(Tail(s)) = Len(s) - 1
      /\ Len(s) \in Nat \ {0} /\ Head(s) = s[1]
      /\ \A i \in 1..Len(Tail(s)) : Tail(s)[i] = s[i + 1]
  BY HeadTailProperties, EmptySeq
<1>2. \A k \in 1..Len(s) : 1 < k => k - 1 \in 1..Len(Tail(s)) /\ Tail(s)[k - 1] = s[k]
  BY <1>1
<1>3. Truthful(Tail(s), a)
  <2> SUFFICES ASSUME NEW i \in 1..Len(Tail(s)), a[Tail(s)[i].node] # Result(Tail(s)[i])
               PROVE  \E k \in 1..Len(Tail(s)) : /\ i < k /\ Tail(s)[k].node = Tail(s)[i].node
                                                 /\ Tail(s)[k].action # Tail(s)[i].action
    BY DEF Truthful
  <2>1. i + 1 \in 1..Len(s) /\ Tail(s)[i] = s[i + 1]
    BY <1>1
  <2>2. PICK k \in 1..Len(s) : i + 1 < k /\ s[k].node = s[i + 1].node /\ s[k].action # s[i + 1].action
    BY <2>1 DEF Truthful
  <2>3. k - 1 \in 1..Len(Tail(s)) /\ Tail(s)[k - 1] = s[k] /\ i < k - 1
    BY <1>1, <1>2, <2>2
  <2> QED
    BY <2>1, <2>2, <2>3
<1>4. 1 \in 1..Len(s)
  BY <1>1
<1>5. ~Mentions(Tail(s), Head(s).node) => a[Head(s).node] = Result(Head(s))
  <2> SUFFICES ASSUME a[s[1].node] # Result(s[1]) PROVE Mentions(Tail(s), s[1].node)
    BY <1>1
  <2>1. PICK k \in 1..Len(s) : 1 < k /\ s[k].node = s[1].node
    BY <1>4 DEF Truthful
  <2> QED
    BY <1>2, <2>1 DEF Mentions
<1>6. Head(s).action = "add" /\ ~Removes(s, Head(s).node) => a[Head(s).node] = Head(s).device
  <2> SUFFICES ASSUME Head(s).action = "add", a[s[1].node] # Head(s).device
               PROVE  Removes(s, Head(s).node)
    BY <1>1
  <2>1. PICK k \in 1..Len(s) : 1 < k /\ s[k].node = s[1].node /\ s[k].action # s[1].action
    BY <1>1, <1>4 DEF Truthful, Result
  <2>2. s[k].action = "remove"
    BY <1>1, <2>1, ElementOfSeq, EventFields
  <2> QED
    BY <1>1, <2>1, <2>2 DEF Removes
<1> QED
  BY <1>3, <1>5, <1>6

-----------------------------------------------------------------------------
(* What is on its way to the program.                                      *)

LEMMA PendingMoves ==
    ASSUME NEW q \in Seq(Events), NEW u \in Seq(Events)
    PROVE  /\ q \o u \in Seq(Events)
           /\ <<>> \o u = u
           /\ \A e \in Events : q \o Append(u, e) = Append(q \o u, e)
           /\ u # <<>> => Append(q, Head(u)) \o Tail(u) = q \o u
           /\ q # <<>> => q \o u # <<>> /\ Head(q \o u) = Head(q) /\ Tail(q \o u) = Tail(q) \o u
<1>1. q \o u \in Seq(Events) /\ <<>> \o u = u
  BY ConcatProperties, ConcatEmptySeq
<1>2. ASSUME NEW e \in Events PROVE q \o Append(u, e) = Append(q \o u, e)
  <2>1. <<e>> \in Seq(Events)
    OBVIOUS
  <2>2. Append(u, e) = u \o <<e>> /\ Append(q \o u, e) = (q \o u) \o <<e>>
    BY <1>1, AppendIsConcat
  <2> QED
    BY <2>1, <2>2, ConcatAssociative
<1>3. ASSUME u # <<>> PROVE Append(q, Head(u)) \o Tail(u) = q \o u
  <2>1. Head(u) \in Events /\ Tail(u) \in Seq(Events)
    BY <1>3, HeadTailProperties
  <2>2. <<Head(u)>> \in Seq(Events) /\ Append(q, Head(u)) = q \o <<Head(u)>>
    BY <2>1, AppendIsConcat
  <2>3. <<Head(u)>> \o Tail(u) = u
    BY <1>3
  <2> QED
    BY <2>1, <2>2, <2>3, ConcatAssociative
<1>4. ASSUME q # <<>>
      PROVE  q \o u # <<>> /\ Head(q \o u) = Head(q) /\ Tail(q \o u) = Tail(q) \o u
  <2>1. /\ Tail(q) \in Seq(Events) /\ Head(q) \in Events /\ <<Head(q)>> \in Seq(Events)
        /\ Len(q) \in Nat \ {0} /\ Len(u) \in Nat
    BY <1>4, HeadTailProperties, EmptySeq, LenProperties
  <2>2. Len(q \o u) = Len(q) + Len(u) /\ (q \o u)[1] = q[1]
    BY <2>1, ConcatProperties
  <2>3. q \o u # <<>> /\ Head(q \o u) = Head(q)
    BY <1>1, <1>4, <2>1, <2>2
  <2>4. /\ Tail(q \o u) \in Seq(Events) /\ Len(Tail(q \o u)) = Len(q \o u) - 1
        /\ \A i \in 1..Len(Tail(q \o u)) : Tail(q \o u)[i] = (q \o u)[i + 1]
    BY <1>1, <2>3, HeadTailProperties
  <2>5. /\ Tail(q) \o u \in Seq(Events) /\ Len(Tail(q) \o u) = Len(q) - 1 + Len(u)
        /\ Len(Tail(q)) = Len(q) - 1
        /\ \A i \in 1..Len(Tail(q) \o u) :
               (Tail(q) \o u)[i] = IF i <= Len(q) - 1 THEN Tail(q)[i] ELSE u[i - (Len(q) - 1)]
    BY <1>4, <2>1, HeadTailProperties, ConcatProperties
  <2>6. \A i \in 1..Len(Tail(q)) : Tail(q)[i] = q[i + 1]
    BY <1>4, HeadTailProperties
  <2>7. \A i \in 1..Len(q \o u) : (q \o u)[i] = IF i <= Len(q) THEN q[i] ELSE u[i - Len(q)]
    BY <2>2, ConcatProperties
  <2>8. \A i \in 1..Len(Tail(q) \o u) : Tail(q \o u)[i] = (Tail(q) \o u)[i]
    <3> TAKE i \in 1..Len(Tail(q) \o u)
    <3>1. i \in Nat \ {0} /\ i \in 1..Len(Tail(q \o u)) /\ i + 1 \in 1..Len(q \o u)
      BY <2>1, <2>2, <2>4, <2>5
    <3>2. Tail(q \o u)[i] = IF i + 1 <= Len(q) THEN q[i + 1] ELSE u[i + 1 - Len(q)]
      BY <2>4, <2>7, <3>1
    <3>3. i <= Len(q) - 1 => i \in 1..Len(Tail(q)) /\ i + 1 <= Len(q)
      BY <2>1, <2>5, <3>1
    <3>4. ~(i <= Len(q) - 1) => ~(i + 1 <= Len(q)) /\ i + 1 - Len(q) = i - (Len(q) - 1)
      BY <2>1, <3>1
    <3> QED
      BY <2>5, <2>6, <3>2, <3>3, <3>4
  <2> QED
    BY <2>1, <2>2, <2>3, <2>4, <2>5, <2>8, SeqEqual
<1> QED
  BY <1>1, <1>2, <1>3, <1>4

-----------------------------------------------------------------------------
(* The invariant of the devices, step by step.                             *)

LEMMA TypesOfDevices ==
    ASSUME DevicesTypeOK
    PROVE  /\ at \in [Nodes -> Devices] /\ ready \in [Nodes -> Devices]
           /\ watched \in [Nodes -> Devices]
           /\ plugs \in Devices /\ plugs \in Nat /\ plugs <= MaxPlugs
           /\ uevents \in Seq(Events) /\ queue \in Seq(Events) /\ Pending \in Seq(Events)
           /\ opening \in Nodes /\ listed \subseteq Nodes /\ openFds \in Nat
           /\ refused \subseteq Devices
           /\ 0 \in Devices /\ 0 \notin Inputs /\ 1..MaxPlugs \subseteq Devices
<1>1. Pending \in Seq(Events)
  BY PendingMoves DEF DevicesTypeOK, Pending
<1> QED
  BY <1>1, InputsAssumption DEF DevicesTypeOK, Devices

\* A device joins or leaves a node: e says so.
Changes(n, e) == /\ e \in Events /\ e.node = n
                 /\ e.action = "add" <=> at[n] = 0
                 /\ e.action = "add" => e.device = plugs + 1
                 /\ at' = [at EXCEPT ![n] = Result(e)]
                 /\ plugs' = IF e.action = "add" THEN plugs + 1 ELSE plugs
                 /\ plugs' \in Devices
                 /\ uevents' = Append(uevents, e)
                 /\ UNCHANGED <<ready, receiving, queue, program>>

LEMMA PlugChanges ==
    ASSUME DevicesTypeOK, NEW n \in Nodes, Plug(n) \/ Unplug(n)
    PROVE  \E e \in Events : Changes(n, e)
<1> USE TypesOfDevices
<1>1. CASE Plug(n)
  <2> DEFINE e == [action |-> "add", node |-> n, device |-> plugs + 1]
  <2>1. plugs + 1 \in 1..MaxPlugs /\ plugs + 1 \in Devices
    BY <1>1, InputsAssumption DEF Plug, Devices
  <2>2. e \in Events
    BY <2>1 DEF Events
  <2>3. Changes(n, e)
    BY <1>1, <2>1, <2>2 DEF Plug, Changes, Result
  <2> QED
    BY <2>2, <2>3
<1>2. CASE Unplug(n)
  <2> DEFINE e == [action |-> "remove", node |-> n, device |-> at[n]]
  <2>1. at[n] \in 1..MaxPlugs
    BY <1>2, InputsAssumption DEF Unplug, Devices
  <2>2. e \in Events
    BY <2>1 DEF Events
  <2>3. Changes(n, e)
    BY <1>2, <2>2 DEF Unplug, Changes, Result
  <2> QED
    BY <2>2, <2>3
<1> QED
  BY <1>1, <1>2

LEMMA AddsJoin ==
    ASSUME NEW s \in Seq(Events), NEW e \in Events, NEW p \in Nat, NEW r \in Nat,
           AddsInOrder(s, p), p <= r, e.action = "add" => e.device = p + 1 /\ r = p + 1
    PROVE  AddsInOrder(Append(s, e), r)
<1>1. /\ Append(s, e) \in Seq(Events) /\ Len(Append(s, e)) = Len(s) + 1 /\ Len(s) \in Nat
      /\ \A i \in 1..Len(s) : Append(s, e)[i] = s[i] /\ s[i].device \in Nat
      /\ Append(s, e)[Len(s) + 1] = e /\ e.device \in Nat
  BY AppendProperties, LenProperties, ElementOfSeq, EventFields
<1>2. \A i \in 1..Len(Append(s, e)) : i \in 1..Len(s) \/ i = Len(s) + 1
  BY <1>1
<1>3. \A i \in 1..Len(Append(s, e)) : Append(s, e)[i].action = "add" => Append(s, e)[i].device <= r
  BY <1>1, <1>2 DEF AddsInOrder
<1>4. \A i, j \in 1..Len(Append(s, e)) :
          /\ Append(s, e)[i].action = "add" /\ Append(s, e)[j].action = "add" /\ i < j
          => Append(s, e)[i].device < Append(s, e)[j].device
  BY <1>1, <1>2 DEF AddsInOrder
<1> QED
  BY <1>3, <1>4 DEF AddsInOrder

LEMMA AddsLeave ==
    ASSUME NEW s \in Seq(Events), s # <<>>, NEW p, AddsInOrder(s, p)
    PROVE  /\ AddsInOrder(Tail(s), p)
           /\ \A i \in 1..Len(Tail(s)) : Head(s).action = "add" /\ Tail(s)[i].action = "add"
                                             => Head(s).device # Tail(s)[i].device
<1>1. /\ Tail(s) \in Seq(Events) /\ Len(Tail(s)) = Len(s) - 1 /\ Len(s) \in Nat \ {0}
      /\ Head(s) = s[1]
      /\ \A i \in 1..Len(Tail(s)) : Tail(s)[i] = s[i + 1] /\ i + 1 \in 1..Len(s) /\ 1 < i + 1
      /\ 1 \in 1..Len(s)
  BY HeadTailProperties, EmptySeq
<1>2. \A i \in 1..Len(s) : s[i].device \in Nat
  BY ElementOfSeq, EventFields
<1>3. \A i, j \in 1..Len(Tail(s)) : i < j => i + 1 < j + 1
  OBVIOUS
<1> QED
  BY <1>1, <1>2, <1>3 DEF AddsInOrder

LEMMA ChangeKeepsDevices ==
    ASSUME DevicesInv, NEW n \in Nodes, NEW e \in Events, Changes(n, e)
    PROVE  DevicesInv'
<1>1. DevicesTypeOK /\ KernelInv /\ ProgramInv /\ openFds = Cardinality(WatchedNodes)
  BY DEF DevicesInv
<1> USE TypesOfDevices
<1>2. Pending' = Append(Pending, e) /\ uevents' = Append(uevents, e)
  BY <1>1, PendingMoves DEF Changes, Pending
<1>3. /\ \A m \in Nodes : /\ Mentions(Pending, m)' <=> Mentions(Pending, m) \/ m = n
                          /\ Removes(Pending, m)' <=> \/ Removes(Pending, m)
                                                      \/ m = n /\ e.action = "remove"
                          /\ Mentions(uevents, m)' <=> Mentions(uevents, m) \/ m = n
                          /\ Removes(uevents, m)' <=> \/ Removes(uevents, m)
                                                      \/ m = n /\ e.action = "remove"
  BY <1>1, <1>2, EventJoins DEF Changes
<1>4. /\ \A m \in Nodes \ {n} : at'[m] = at[m]
      /\ e.action = "add" => at[n] = 0
      /\ e.action # "add" => e.action = "remove"
  BY <1>1, EventFields DEF Changes
<1>5. DevicesTypeOK'
  <2>1. Result(e) \in Devices
    BY <1>1 DEF Result, Events
  <2>2. uevents' \in Seq(Events)
    BY <1>1, <1>2, EventJoins
  <2> QED
    BY <1>1, <2>1, <2>2 DEF DevicesTypeOK, Changes, program, devices
<1>6. KernelInv'
  <2>1. Truthful(uevents, at)' /\ Truthful(Pending, at)'
    <3>1. at' = [at EXCEPT ![e.node] = Result(e)] /\ (e.action = "add" <=> at[e.node] = 0)
      BY DEF Changes
    <3>2. Truthful(uevents, at) /\ Truthful(Pending, at)
      BY <1>1 DEF KernelInv
    <3>3. at \in [Nodes -> Devices] /\ uevents \in Seq(Events) /\ Pending \in Seq(Events)
      BY <1>1
    <3>4. /\ Truthful(Append(uevents, e), [at EXCEPT ![e.node] = Result(e)])
          /\ Truthful(Append(Pending, e), [at EXCEPT ![e.node] = Result(e)])
      BY <3>1, <3>2, <3>3, JoinsTruthfully
    <3> QED
      BY <1>2, <3>1, <3>4
  <2>2. AddsInOrder(uevents, plugs)'
    <3>1. plugs' \in Nat /\ plugs <= plugs' /\ (e.action = "add" => e.device = plugs + 1 /\ plugs' = plugs + 1)
      BY <1>1 DEF Changes
    <3>2. AddsInOrder(Append(uevents, e), plugs')
      BY <1>1, <3>1, AddsJoin DEF KernelInv
    <3> QED
      BY <1>2, <3>2
  <2>3. \A m \in Nodes : ReadyInv(m)'
    BY <1>1, <1>3, <1>4 DEF KernelInv, ReadyInv, Changes
  <2>4. OneNode'
    <3>1. CASE e.action = "add"
      <4>1. at' = [at EXCEPT ![n] = plugs + 1] /\ plugs' = plugs + 1
        BY <3>1 DEF Changes, Result
      <4>2. \A m \in Nodes : at[m] \in Nat /\ at[m] <= plugs
        BY <1>1 DEF KernelInv, OneNode, Devices
      <4> QED
        BY <1>1, <4>1, <4>2 DEF KernelInv, OneNode
    <3>2. CASE e.action # "add"
      <4>1. at' = [at EXCEPT ![n] = 0] /\ plugs' = plugs
        BY <3>2 DEF Changes, Result
      <4> QED
        BY <1>1, <4>1 DEF KernelInv, OneNode
    <3> QED
      BY <3>1, <3>2
  <2> QED
    BY <2>1, <2>2, <2>3, <2>4 DEF KernelInv
<1>7. ProgramInv'
  <2>1. ControlInv'
    BY <1>1 DEF ProgramInv, ControlInv, Changes, program
  <2>2. ASSUME NEW m \in Nodes PROVE NodeInv(m)'
    <3>1. NodeInv(m) /\ UNCHANGED <<Unseen(m), Opening(m), watched, refused>>
      BY <1>1 DEF ProgramInv, Changes, program, devices, Unseen, Opening
    <3>2. CASE m # n
      <4>1. /\ Removes(Pending, m)' <=> Removes(Pending, m)
            /\ Mentions(Pending, m)' <=> Mentions(Pending, m)
        BY <1>3, <3>2
      <4>2. at'[m] = at[m] /\ Wanted(at[m])' = Wanted(at[m])
        BY <1>4, <3>1, <3>2 DEF Wanted
      <4> QED
        BY <4>1, <4>2, <3>1 DEF NodeInv
    <3>3. CASE m = n
      <4>1. Mentions(Pending, m)'
        BY <1>3, <3>3
      <4>2. ~Removes(Pending, m)' => ~Removes(Pending, m) /\ at[m] = 0
        BY <1>3, <1>4, <3>3
      <4>3. at[m] = 0 => Wanted(at[m]) = 0 /\ at[m] \notin Inputs
        BY <1>1 DEF Wanted
      <4> QED
        BY <3>1, <4>1, <4>2, <4>3 DEF NodeInv
    <3> QED
      BY <3>2, <3>3
  <2> QED
    BY <2>1, <2>2 DEF ProgramInv
<1>8. (openFds = Cardinality(WatchedNodes))'
  BY <1>1 DEF Changes, program, devices, WatchedNodes
<1> QED
  BY <1>5, <1>6, <1>7, <1>8 DEF DevicesInv

\* udevd's step: an event moves on, and its node is ready for the device it tells of.
LEMMA ProcessKeepsDevices ==
    ASSUME DevicesInv, ProcessUevent
    PROVE  DevicesInv'
<1>1. DevicesTypeOK /\ KernelInv /\ ProgramInv /\ openFds = Cardinality(WatchedNodes)
  BY DEF DevicesInv
<1> USE TypesOfDevices
<1> DEFINE e == Head(uevents)
<1>2. /\ uevents # <<>> /\ uevents' = Tail(uevents) /\ e \in Events /\ Tail(uevents) \in Seq(Events)
      /\ e.node \in Nodes /\ (e.action = "add" \/ e.action = "remove")
  BY <1>1, EventLeaves, EventFields, HeadTailProperties DEF ProcessUevent
<1>3. /\ ready' = [ready EXCEPT ![e.node] = Result(e)]
      /\ queue' = IF receiving THEN Append(queue, e) ELSE queue
      /\ UNCHANGED <<at, plugs, receiving, running, step, listed, opening, watched, openFds, refused>>
  BY DEF ProcessUevent, Result, program, devices
<1> HIDE DEF e
<1>4. DevicesTypeOK'
  <2>1. Result(e) \in Devices
    BY <1>1, <1>2 DEF Result, Events
  <2>2. Append(queue, e) \in Seq(Events) /\ uevents' \in Seq(Events)
    BY <1>1, <1>2, AppendProperties
  <2>3. queue' \in Seq(Events) /\ uevents' \in Seq(Events)
    BY <1>1, <1>3, <2>2
  <2>4. ready' \in [Nodes -> Devices]
    BY <1>1, <1>3, <2>1
  <2> QED
    BY <1>1, <1>3, <2>3, <2>4 DEF DevicesTypeOK
<1>5. /\ receiving => Pending' = Pending
      /\ ~receiving => queue = <<>> /\ Pending' = Tail(uevents)
  <2>1. receiving => Pending' = Pending
    <3>1. Append(queue, e) \o Tail(uevents) = queue \o uevents
      BY <1>1, <1>2, PendingMoves DEF e
    <3> QED
      BY <1>2, <1>3, <3>1 DEF Pending
  <2>2. ~receiving => queue = <<>> /\ Pending' = Tail(uevents)
    <3>1. ~receiving => queue = <<>>
      BY <1>1 DEF ProgramInv, ControlInv
    <3>2. <<>> \o Tail(uevents) = Tail(uevents)
      BY <1>1, <1>2, ConcatEmptySeq
    <3> QED
      BY <1>2, <1>3, <3>1, <3>2 DEF Pending
  <2> QED
    BY <2>1, <2>2
<1>6. KernelInv'
  <2>1. /\ Truthful(Tail(uevents), at) /\ AddsInOrder(Tail(uevents), plugs)
        /\ ~Mentions(Tail(uevents), e.node) => at[e.node] = Result(e)
        /\ e.action = "add" /\ ~Removes(uevents, e.node) => at[e.node] = e.device
    BY <1>1, <1>2, LeavesTruthfully, AddsLeave DEF KernelInv, e
  <2>2. Truthful(Pending', at)
    BY <1>1, <1>5, <2>1 DEF KernelInv
  <2>3. ASSUME NEW m \in Nodes PROVE ReadyInv(m)'
    <3>1. CASE m # e.node
      <4>1. /\ Mentions(uevents, m) <=> Mentions(Tail(uevents), m)
            /\ Removes(uevents, m) <=> Removes(Tail(uevents), m)
        BY <1>1, <1>2, <3>1, EventLeaves DEF e
      <4> QED
        BY <1>1, <1>2, <1>3, <3>1, <4>1 DEF KernelInv, ReadyInv
    <3>2. CASE m = e.node /\ ~Mentions(Tail(uevents), m)
      BY <1>1, <1>2, <1>3, <2>1, <3>2 DEF ReadyInv
    <3>3. CASE m = e.node /\ Mentions(Tail(uevents), m)
      <4> SUFFICES ASSUME ~Removes(Tail(uevents), m), e.action = "add" PROVE FALSE
        BY <1>1, <1>2, <1>3, <3>3 DEF ReadyInv, Result
      <4>1. ~Removes(uevents, m)
        BY <1>2, <1>1, <3>3, EventLeaves DEF e
      <4>2. PICK i \in 1..Len(Tail(uevents)) : Tail(uevents)[i].node = m
        BY <3>3 DEF Mentions
      <4>3. Tail(uevents)[i].action = "add"
        BY <1>2, <4>2, ElementOfSeq, EventFields DEF Removes
      <4>4. ~\E k \in 1..Len(Tail(uevents)) : /\ Tail(uevents)[k].node = m
                                              /\ Tail(uevents)[k].action # "add"
        BY <1>2, ElementOfSeq, EventFields DEF Removes
      <4>5. at[m] = Tail(uevents)[i].device
        BY <2>1, <4>2, <4>3, <4>4 DEF Truthful, Result
      <4>6. at[m] = e.device
        BY <2>1, <3>3, <4>1
      <4> QED
        BY <1>1, <1>2, <4>2, <4>3, <4>5, <4>6, AddsLeave DEF KernelInv, e
    <3> QED
      BY <3>1, <3>2, <3>3
  <2> QED
    BY <1>1, <1>2, <1>3, <2>1, <2>2, <2>3 DEF KernelInv, OneNode
<1>7. ProgramInv'
  <2>1. ControlInv'
    BY <1>1, <1>3 DEF ProgramInv, ControlInv
  <2>2. ASSUME NEW m \in Nodes PROVE NodeInv(m)'
    <3>1. NodeInv(m) /\ UNCHANGED <<Unseen(m), Opening(m), watched, at, refused>>
      BY <1>1, <1>3 DEF ProgramInv, Unseen, Opening
    <3>2. CASE receiving
      <4>1. /\ Removes(Pending, m)' <=> Removes(Pending, m)
            /\ Mentions(Pending, m)' <=> Mentions(Pending, m)
        BY <1>5, <3>2
      <4>2. Wanted(at[m])' = Wanted(at[m])
        BY <3>1 DEF Wanted
      <4> QED
        BY <3>1, <4>1, <4>2 DEF NodeInv
    <3>3. CASE ~receiving
      <4>1. Unseen(m) /\ ~Opening(m)
        BY <1>1, <3>3 DEF Unseen, Opening, ProgramInv, ControlInv
      <4> QED
        BY <3>1, <4>1 DEF NodeInv
    <3> QED
      BY <3>2, <3>3
  <2> QED
    BY <2>1, <2>2 DEF ProgramInv
<1>8. (openFds = Cardinality(WatchedNodes))'
  BY <1>1, <1>3 DEF WatchedNodes
<1> QED
  BY <1>4, <1>6, <1>7, <1>8 DEF DevicesInv

\* A step of the program changes neither the kernel's state nor udevd's, and the
\* events on their way only by taking some from the front.
ProgramMoves == /\ UNCHANGED <<kernel, ready>>
                /\ DevicesTypeOK' /\ ControlInv' /\ openFds' = Cardinality(WatchedNodes')
                /\ Truthful(Pending', at)
                /\ \A n \in Nodes : NodeInv(n)'

LEMMA MoveKeepsDevices ==
    ASSUME DevicesInv, ProgramMoves
    PROVE  DevicesInv'
<1>1. KernelInv'
  <2>1. KernelInv /\ UNCHANGED <<uevents, at, plugs, ready>>
    BY DEF DevicesInv, ProgramMoves, kernel
  <2>2. Truthful(Pending', at')
    BY <2>1 DEF ProgramMoves
  <2>3. \A n \in Nodes : ReadyInv(n)'
    BY <2>1 DEF KernelInv, ReadyInv, Mentions, Removes
  <2> QED
    BY <2>1, <2>2, <2>3 DEF KernelInv, OneNode
<1> QED
  BY <1>1 DEF DevicesInv, ProgramInv, ProgramMoves

\* Closing, and opening, one node.
LEMMA WatchedCount ==
    ASSUME DevicesTypeOK, NEW n \in Nodes, NEW d \in Devices,
           watched' = [watched EXCEPT ![n] = d], openFds = Cardinality(WatchedNodes)
    PROVE  /\ IsFiniteSet(WatchedNodes)
           /\ d = 0 => Cardinality(WatchedNodes') = IF watched[n] # 0 THEN openFds - 1 ELSE openFds
           /\ d # 0 /\ watched[n] = 0 => Cardinality(WatchedNodes') = openFds + 1
<1>1. WatchedNodes \in SUBSET Nodes
  BY DEF WatchedNodes
<1>2. IsFiniteSet(WatchedNodes)
  BY <1>1, FS_Subset, InputsAssumption
<1>3. d = 0 => WatchedNodes' = WatchedNodes \ {n}
  BY TypesOfDevices DEF WatchedNodes
<1>4. d # 0 => WatchedNodes' = WatchedNodes \cup {n}
  BY TypesOfDevices DEF WatchedNodes
<1>5. n \in WatchedNodes <=> watched[n] # 0
  BY DEF WatchedNodes
<1>6. /\ Cardinality(WatchedNodes \ {n}) = IF n \in WatchedNodes THEN openFds - 1 ELSE openFds
      /\ Cardinality(WatchedNodes \cup {n}) = IF n \in WatchedNodes THEN openFds ELSE openFds + 1
  BY <1>2, FS_RemoveElement, FS_AddElement
<1> QED
  BY <1>2, <1>3, <1>4, <1>5, <1>6

\* A node's share of the invariant while its events stay on their way.
LEMMA NodeKeeps ==
    ASSUME NEW n, NodeInv(n), UNCHANGED <<queue, uevents, at, watched, refused>>,
           Opening(n)' => Opening(n) \/ at[n] \in Inputs \/ Removes(Pending, n),
           Unseen(n)' => Unseen(n) \/ watched[n] = 0,
           Unseen(n) /\ ~Unseen(n)' /\ ~Opening(n)' /\ ~Mentions(Pending, n)
                 => Wanted(at[n]) = 0,
           Opening(n) => Opening(n)'
    PROVE  NodeInv(n)'
<1>1. Pending' = Pending /\ at' = at /\ watched' = watched /\ refused' = refused
  BY DEF Pending
<1>2. /\ Removes(Pending, n)' <=> Removes(Pending, n)
      /\ Mentions(Pending, n)' <=> Mentions(Pending, n)
      /\ Wanted(at[n])' = Wanted(at[n])
  BY <1>1 DEF Removes, Mentions, Wanted
<1> QED
  BY <1>1, <1>2 DEF NodeInv

\* What udevd has yet to process is on its way to the program too.
LEMMA UeventsArePending ==
    ASSUME DevicesTypeOK, NEW n
    PROVE  /\ Mentions(uevents, n) => Mentions(Pending, n)
           /\ Removes(uevents, n) => Removes(Pending, n)
<1>1. /\ Len(Pending) = Len(queue) + Len(uevents) /\ Len(queue) \in Nat /\ Len(uevents) \in Nat
      /\ \A j \in 1..Len(queue) + Len(uevents) :
             Pending[j] = IF j <= Len(queue) THEN queue[j] ELSE uevents[j - Len(queue)]
  BY TypesOfDevices, ConcatProperties, LenProperties DEF Pending
<1>2. ASSUME NEW i \in 1..Len(uevents)
      PROVE  Len(queue) + i \in 1..Len(Pending) /\ Pending[Len(queue) + i] = uevents[i]
  <2>1. /\ Len(queue) + i \in 1..Len(queue) + Len(uevents) /\ ~(Len(queue) + i <= Len(queue))
        /\ Len(queue) + i - Len(queue) = i
    BY <1>1
  <2> QED
    BY <1>1, <2>1
<1> QED
  BY <1>2 DEF Mentions, Removes

LEMMA ScanKeepsDevices ==
    ASSUME DevicesInv,
           EnableMonitor \/ ListDevices \/ FinishScan \/ (\E n \in Nodes : ScanDevice(n))
    PROVE  DevicesInv'
<1>1. DevicesTypeOK /\ KernelInv /\ ProgramInv /\ openFds = Cardinality(WatchedNodes)
  BY DEF DevicesInv
<1> USE TypesOfDevices
<1>2. UNCHANGED <<kernel, ready, queue, watched, openFds, refused>>
  BY DEF devices, EnableMonitor, ListDevices, FinishScan, ScanDevice
<1>3. Pending' = Pending
  BY <1>2 DEF Pending, kernel
<1>4. Truthful(Pending', at)
  BY <1>1, <1>3 DEF KernelInv
<1>5. DevicesTypeOK'
  BY <1>1, <1>2 DEF DevicesTypeOK, kernel, EnableMonitor, ListDevices, FinishScan, ScanDevice
<1>6. ControlInv'
  BY <1>1 DEF ProgramInv, ControlInv, EnableMonitor, ListDevices, FinishScan, ScanDevice
<1>7. ASSUME NEW m \in Nodes PROVE NodeInv(m)'
  <2> USE DEF Unseen, Opening
  <2>1. NodeInv(m) /\ ControlInv /\ ReadyInv(m) /\ UNCHANGED <<queue, uevents, at, watched, refused>>
    BY <1>1, <1>2 DEF ProgramInv, KernelInv, kernel
  <2>2. CASE EnableMonitor
    BY <2>1, <2>2, NodeKeeps DEF EnableMonitor, NodeInv, ControlInv
  <2>3. CASE ListDevices
    BY <2>1, <2>3, NodeKeeps, <1>1 DEF ListDevices, NodeInv, Wanted, ControlInv
  <2>4. CASE FinishScan
    BY <2>1, <2>4, NodeKeeps DEF FinishScan, ControlInv
  <2>5. ASSUME NEW n \in Nodes, ScanDevice(n) PROVE NodeInv(m)'
    <3>1. CASE m # n
      BY <2>1, <2>5, <3>1, NodeKeeps DEF ScanDevice
    <3>2. CASE m = n
      <4>1. ready[m] \in Inputs => at[m] \in Inputs \/ Removes(Pending, m)
        BY <1>1, <2>1, UeventsArePending DEF ReadyInv
      <4>2. ~(at[m] # 0 /\ ready[m] \in Inputs) /\ ~Mentions(Pending, m) => Wanted(at[m]) = 0
        BY <1>1, <2>1, UeventsArePending DEF ReadyInv, Wanted
      <4> QED
        BY <2>1, <2>5, <3>2, <4>1, <4>2, NodeKeeps DEF ScanDevice
    <3> QED
      BY <3>1, <3>2
  <2> QED
    BY <2>2, <2>3, <2>4, <2>5
<1> QED
  BY <1>1, <1>2, <1>4, <1>5, <1>6, <1>7, MoveKeepsDevices DEF ProgramMoves, WatchedNodes

\* A node is opened once, and only to watch what it holds.
LEMMA AddKeepsDevices ==
    ASSUME DevicesInv, AddInputDevice
    PROVE  DevicesInv'
<1>1. DevicesTypeOK /\ KernelInv /\ ProgramInv /\ openFds = Cardinality(WatchedNodes)
  BY DEF DevicesInv
<1> USE TypesOfDevices
<1>2. /\ step = "open" /\ step' = IF running THEN "loop" ELSE "scan"
      /\ UNCHANGED <<kernel, ready, receiving, queue, running, listed, opening>>
  BY DEF AddInputDevice
<1>3. Pending' = Pending /\ UNCHANGED <<at, uevents, plugs>>
  BY <1>2 DEF Pending, kernel
<1>4. Truthful(Pending', at)
  BY <1>1, <1>3 DEF KernelInv
<1>5. ControlInv'
  BY <1>1, <1>2 DEF ProgramInv, ControlInv
<1>6. /\ at[opening] \in Devices
      /\ \A m \in Nodes : m # opening /\ at[opening] # 0 => at[m] # at[opening]
  BY <1>1 DEF KernelInv, OneNode
<1>7. ASSUME NEW m \in Nodes
      PROVE  /\ NodeInv(m) /\ ControlInv /\ ReadyInv(m)
             /\ Removes(Pending, m)' <=> Removes(Pending, m)
             /\ Mentions(Pending, m)' <=> Mentions(Pending, m)
             /\ ~Mentions(Pending, m) => ~Removes(Pending, m)
             /\ Unseen(m)' <=> Unseen(m)
             /\ Opening(m) => ~Unseen(m)
             /\ Opening(m) <=> m = opening
             /\ ~Opening(m)'
  <2>1. NodeInv(m) /\ ControlInv /\ ReadyInv(m)
    BY <1>1 DEF ProgramInv, KernelInv
  <2>2. /\ Removes(Pending, m)' <=> Removes(Pending, m)
        /\ Mentions(Pending, m)' <=> Mentions(Pending, m)
        /\ ~Mentions(Pending, m) => ~Removes(Pending, m)
    BY <1>3 DEF Removes, Mentions
  <2>3. /\ Unseen(m)' <=> Unseen(m)
        /\ Opening(m) => ~Unseen(m)
        /\ Opening(m) <=> m = opening
        /\ ~Opening(m)'
    BY <1>2, <2>1 DEF Unseen, Opening, ControlInv
  <2> QED
    BY <2>1, <2>2, <2>3
<1>8. CASE watched[opening] = 0 /\ Open(opening)
  <2>1. /\ watched' = [watched EXCEPT ![opening] = at[opening]] /\ openFds' = openFds + 1
        /\ refused' = refused \ {at[opening]} /\ at[opening] # 0
    BY <1>8 DEF Open, CanOpen
  <2>2. openFds' = Cardinality(WatchedNodes')
    BY <1>1, <1>6, <1>8, <2>1, WatchedCount
  <2>3. DevicesTypeOK'
    BY <1>1, <1>2, <1>3, <1>6, <2>1 DEF DevicesTypeOK
  <2>4. ASSUME NEW m \in Nodes PROVE NodeInv(m)'
    <3>1. CASE m # opening
      <4>1. watched'[m] = watched[m] /\ at'[m] = at[m] /\ Wanted(at[m])' = Wanted(at[m])
        BY <1>1, <1>3, <1>6, <2>1, <3>1 DEF Wanted
      <4> QED
        BY <1>7, <3>1, <4>1 DEF NodeInv
    <3>2. CASE m = opening
      <4>1. watched'[m] = at[m] /\ at'[m] = at[m]
        BY <1>1, <1>3, <2>1, <3>2
      <4>2. ~Removes(Pending, m) => at[m] = Wanted(at[m])' /\ at[m] \in Inputs
        BY <1>3, <1>7, <2>1, <3>2 DEF NodeInv, Wanted
      <4> QED
        BY <1>7, <3>2, <4>1, <4>2 DEF NodeInv
    <3> QED
      BY <3>1, <3>2
  <2> QED
    BY <1>2, <1>4, <1>5, <2>2, <2>3, <2>4, MoveKeepsDevices DEF ProgramMoves
<1>9. CASE /\ watched[opening] = 0 /\ refused' = refused \cup {at[opening]} /\ at[opening] # 0
           /\ UNCHANGED <<watched, openFds>>
  <2>1. openFds' = Cardinality(WatchedNodes')
    BY <1>1, <1>9 DEF WatchedNodes
  <2>2. DevicesTypeOK'
    BY <1>1, <1>2, <1>3, <1>6, <1>9 DEF DevicesTypeOK
  <2>3. ASSUME NEW m \in Nodes PROVE NodeInv(m)'
    <3>1. CASE m # opening
      <4>1. at'[m] = at[m] /\ Wanted(at[m])' = Wanted(at[m])
        BY <1>3, <1>6, <1>9, <3>1 DEF Wanted
      <4> QED
        BY <1>7, <1>9, <3>1, <4>1 DEF NodeInv
    <3>2. CASE m = opening
      <4>1. at'[m] = at[m] /\ Wanted(at[m])' = 0 /\ watched'[m] = 0
        BY <1>3, <1>9, <3>2 DEF Wanted
      <4> QED
        BY <1>7, <3>2, <4>1 DEF NodeInv
    <3> QED
      BY <3>1, <3>2
  <2> QED
    BY <1>2, <1>4, <1>5, <1>9, <2>1, <2>2, <2>3, MoveKeepsDevices DEF ProgramMoves
<1>10. CASE (watched[opening] # 0 \/ ~CanOpen(opening)) /\ UNCHANGED devices
  <2>1. UNCHANGED <<watched, openFds, refused>>
    BY <1>10 DEF devices
  <2>2. openFds' = Cardinality(WatchedNodes')
    BY <1>1, <2>1 DEF WatchedNodes
  <2>3. DevicesTypeOK'
    BY <1>1, <1>2, <1>3, <2>1 DEF DevicesTypeOK
  <2>4. ASSUME NEW m \in Nodes PROVE NodeInv(m)'
    <3>1. at'[m] = at[m] /\ Wanted(at[m])' = Wanted(at[m])
      BY <1>3, <2>1 DEF Wanted
    <3>2. Opening(m) /\ ~Mentions(Pending, m) => watched[m] = Wanted(at[m])
      <4> SUFFICES ASSUME Opening(m), ~Mentions(Pending, m) PROVE watched[m] = Wanted(at[m])
        OBVIOUS
      <4>1. ~Removes(Pending, m) /\ ~Mentions(uevents, m)
        BY <1>1, UeventsArePending DEF Mentions, Removes
      <4>2. at[m] \in Inputs /\ watched[m] \in {0, Wanted(at[m])}
        BY <1>7, <4>1 DEF NodeInv
      <4>3. CanOpen(m)
        BY <1>1, <1>7, <4>1, <4>2 DEF CanOpen, ReadyInv
      <4> QED
        BY <1>7, <1>10, <4>2, <4>3
    <3> QED
      BY <1>7, <2>1, <3>1, <3>2 DEF NodeInv
  <2> QED
    BY <1>2, <1>4, <1>5, <2>2, <2>3, <2>4, MoveKeepsDevices DEF ProgramMoves
<1>11. \/ watched[opening] = 0 /\ Open(opening)
       \/ /\ watched[opening] = 0 /\ refused' = refused \cup {at[opening]} /\ at[opening] # 0
          /\ UNCHANGED <<watched, openFds>>
       \/ (watched[opening] # 0 \/ ~CanOpen(opening)) /\ UNCHANGED devices
  BY Zenon DEF AddInputDevice, FailToOpen, CanOpen
<1> QED
  BY <1>8, <1>9, <1>10, <1>11

\* udev's event is handled: the node is closed, opened or left alone.
LEMMA ReadKeepsDevices ==
    ASSUME DevicesInv, ReadUdevMonitor
    PROVE  DevicesInv'
<1>1. DevicesTypeOK /\ KernelInv /\ ProgramInv /\ openFds = Cardinality(WatchedNodes)
  BY DEF DevicesInv
<1> USE TypesOfDevices
<1> DEFINE e == Head(queue)
<1>2. /\ step = "loop" /\ running /\ queue # <<>> /\ queue' = Tail(queue)
      /\ UNCHANGED <<kernel, ready, receiving, running, listed>>
      /\ UNCHANGED <<at, uevents, plugs>>
  BY DEF ReadUdevMonitor, kernel
<1>3. /\ Pending # <<>> /\ Head(Pending) = e /\ Pending' = Tail(Pending)
  BY <1>1, <1>2, PendingMoves DEF Pending
<1>4. /\ e \in Events /\ e.node \in Nodes /\ (e.action = "add" \/ e.action = "remove")
      /\ e.device # 0 /\ queue' \in Seq(Events)
  BY <1>1, <1>2, HeadTailProperties, EventFields
<1>5. \/ e.action = "remove" /\ RemoveInputDevice(e.node) /\ UNCHANGED <<opening, step, refused>>
      \/ /\ e.action = "add" /\ e.device \in Inputs /\ opening' = e.node /\ step' = "open"
         /\ UNCHANGED <<watched, openFds, refused>>
      \/ /\ e.action = "add" /\ e.device \notin Inputs
         /\ UNCHANGED <<opening, step, watched, openFds, refused>>
  BY Zenon DEF ReadUdevMonitor, devices
<1> HIDE DEF e
<1>6. /\ Truthful(Pending', at)
      /\ ~Mentions(Pending', e.node) => at[e.node] = Result(e)
      /\ e.action = "add" /\ ~Removes(Pending, e.node) => at[e.node] = e.device
  BY <1>1, <1>3, LeavesTruthfully DEF KernelInv
<1>7. \A m \in Nodes : /\ Mentions(Pending, m) <=> e.node = m \/ Mentions(Pending, m)'
                       /\ Removes(Pending, m) <=> \/ e.node = m /\ e.action = "remove"
                                                  \/ Removes(Pending, m)'
  BY <1>1, <1>3, EventLeaves
<1>8. ControlInv'
  BY <1>1, <1>2, <1>5 DEF ProgramInv, ControlInv
<1>9. openFds' = Cardinality(WatchedNodes') /\ watched' \in [Nodes -> Devices] /\ openFds' \in Nat
  <2>1. CASE RemoveInputDevice(e.node)
    <3>1. openFds' = Cardinality(WatchedNodes')
      BY <1>1, <1>4, <2>1, WatchedCount DEF RemoveInputDevice
    <3>2. watched' \in [Nodes -> Devices]
      BY <1>1, <2>1 DEF RemoveInputDevice
    <3>3. IsFiniteSet(WatchedNodes')
      BY <3>2, FS_Subset, InputsAssumption DEF WatchedNodes
    <3> QED
      BY <3>1, <3>2, <3>3, FS_CardinalityType
  <2>2. CASE UNCHANGED <<watched, openFds>>
    BY <1>1, <2>2 DEF WatchedNodes
  <2> QED
    BY <1>5, <2>1, <2>2
<1>10. DevicesTypeOK'
  BY <1>1, <1>2, <1>4, <1>5, <1>9 DEF DevicesTypeOK
<1>11. ASSUME NEW m \in Nodes PROVE NodeInv(m)'
  <2>1. NodeInv(m) /\ ~Opening(m) /\ (Unseen(m)' <=> Unseen(m)) /\ ~Unseen(m)
    BY <1>1, <1>2, <1>5, <1>8 DEF ProgramInv, ControlInv, Opening, Unseen
  <2>2. /\ at'[m] = at[m] /\ Wanted(at[m])' = Wanted(at[m])
        /\ ~Mentions(Pending, m)' => ~Removes(Pending, m)'
    BY <1>2, <1>5 DEF Mentions, Removes, Wanted
  <2>3. CASE m # e.node
    <3>1. ~Opening(m)'
      BY <1>2, <1>5, <2>3 DEF Opening
    <3>2. watched'[m] = watched[m]
      BY <1>1, <1>5, <2>3 DEF RemoveInputDevice
    <3> QED
      BY <1>7, <2>1, <2>2, <2>3, <3>1, <3>2 DEF NodeInv
  <2>4. CASE m = e.node /\ e.action = "remove"
    <3>1. watched'[m] = 0 /\ ~Opening(m)'
      BY <1>1, <1>2, <1>5, <2>4 DEF RemoveInputDevice, Opening
    <3>2. ~Mentions(Pending, m)' => Wanted(at[m]) = 0
      BY <1>1, <1>6, <2>4 DEF Result, Wanted
    <3> QED
      BY <2>1, <2>2, <3>1, <3>2 DEF NodeInv
  <2>5. CASE m = e.node /\ e.action = "add"
    <3>1. watched' = watched
      BY <1>5, <2>5
    <3>2. ~Removes(Pending, m)' => watched[m] \in {0, Wanted(at[m])} /\ at[m] = e.device
      BY <1>6, <1>7, <2>1, <2>5 DEF NodeInv
    <3>3. CASE e.device \in Inputs
      <4>1. Opening(m)'
        BY <1>5, <2>5, <3>3 DEF Opening
      <4> QED
        BY <2>1, <2>2, <3>1, <3>2, <3>3, <4>1 DEF NodeInv
    <3>4. CASE e.device \notin Inputs
      <4>1. ~Opening(m)'
        BY <1>2, <1>5, <2>5, <3>4 DEF Opening
      <4>2. ~Removes(Pending, m)' => Wanted(at[m]) = 0
        BY <3>2, <3>4 DEF Wanted
      <4> QED
        BY <2>1, <2>2, <3>1, <3>2, <4>1, <4>2 DEF NodeInv
    <3> QED
      BY <3>3, <3>4
  <2> QED
    BY <1>4, <2>3, <2>4, <2>5
<1> QED
  BY <1>2, <1>6, <1>8, <1>9, <1>10, <1>11, MoveKeepsDevices DEF ProgramMoves

\* stop() closes everything and asks udev for nothing more.
LEMMA StopKeepsDevices ==
    ASSUME DevicesInv, StopDevices
    PROVE  DevicesInv' /\ openFds' = 0
<1>1. DevicesTypeOK /\ KernelInv /\ ProgramInv /\ openFds = Cardinality(WatchedNodes)
  BY DEF DevicesInv
<1> USE TypesOfDevices
<1>2. /\ step = "loop" /\ running /\ running' = FALSE /\ receiving' = FALSE /\ queue' = <<>>
      /\ watched' = [n \in Nodes |-> 0] /\ openFds' = openFds - Cardinality(WatchedNodes)
      /\ refused' = {}
      /\ UNCHANGED <<kernel, ready, step, listed, opening>> /\ UNCHANGED <<at, uevents, plugs>>
  BY DEF StopDevices, kernel
<1>3. Pending' = uevents
  BY <1>1, <1>2, ConcatEmptySeq DEF Pending
<1>4. openFds' = 0
  BY <1>1, <1>2
<1>5. openFds' = Cardinality(WatchedNodes')
  <2>1. WatchedNodes' = {}
    BY <1>2 DEF WatchedNodes
  <2> QED
    BY <1>4, <2>1, FS_EmptySet
<1>6. DevicesTypeOK'
  <2>1. <<>> \in Seq(Events) /\ [n \in Nodes |-> 0] \in [Nodes -> Devices]
    BY <1>1
  <2>2. watched' \in [Nodes -> Devices] /\ queue' \in Seq(Events) /\ openFds' \in Nat
    BY <1>2, <1>4, <2>1
  <2> QED
    BY <1>1, <1>2, <2>2 DEF DevicesTypeOK
<1>7. ControlInv'
  BY <1>1, <1>2 DEF ProgramInv, ControlInv
<1>8. ASSUME NEW m \in Nodes PROVE NodeInv(m)'
  <2>1. Unseen(m)' /\ ~Opening(m)' /\ watched'[m] = 0
    BY <1>2 DEF Unseen, Opening
  <2> QED
    BY <2>1 DEF NodeInv
<1>9. Truthful(Pending', at)
  BY <1>1, <1>3 DEF KernelInv
<1> QED
  BY <1>2, <1>4, <1>5, <1>6, <1>7, <1>8, <1>9, MoveKeepsDevices DEF ProgramMoves

LEMMA InitDevices == DevicesInit => DevicesInv
<1> SUFFICES ASSUME DevicesInit PROVE DevicesInv
  OBVIOUS
<1>1. DevicesTypeOK
  <2>1. 0 \in Devices /\ <<>> \in Seq(Events)
    BY InputsAssumption DEF Devices
  <2>2. at \in [Nodes -> Devices] /\ ready = at /\ watched = at
    BY <2>1 DEF DevicesInit
  <2> QED
    BY <2>1, <2>2 DEF DevicesInit, DevicesTypeOK
<1>2. /\ uevents = <<>> /\ queue = <<>> /\ Pending = <<>> /\ Len(<<>>) = 0 /\ 1..0 = {}
      /\ ready = at /\ watched = at /\ at = [n \in Nodes |-> 0]
      /\ ~receiving /\ ~running /\ step = "loop" /\ listed = {} /\ openFds = 0
  BY ConcatEmptySeq DEF DevicesInit, Pending
<1>3. \A i \in 1..Len(<<>>) : FALSE
  BY <1>2
<1>4. KernelInv
  <2>1. OneNode
    BY <1>2 DEF OneNode, DevicesInit
  <2> QED
    BY <1>2, <1>3, <2>1, Zenon DEF KernelInv, Truthful, AddsInOrder, ReadyInv, Mentions
<1>5. ProgramInv
  BY <1>2 DEF ProgramInv, ControlInv, NodeInv, Unseen, Opening
<1>6. WatchedNodes = {}
  BY <1>2 DEF WatchedNodes
<1> QED
  BY <1>1, <1>2, <1>4, <1>5, <1>6, FS_EmptySet DEF DevicesInv

LEMMA DevicesStep == DevicesInv /\ [DevicesNext]_deviceVars => DevicesInv'
<1> SUFFICES ASSUME DevicesInv, [DevicesNext]_deviceVars PROVE DevicesInv'
  OBVIOUS
<1>1. ASSUME NEW n \in Nodes, Plug(n) \/ Unplug(n) PROVE DevicesInv'
  BY <1>1, PlugChanges, ChangeKeepsDevices DEF DevicesInv
<1>2. CASE UNCHANGED deviceVars
  <2> USE <1>2 DEF deviceVars, kernel, program, devices, DevicesInv
  <2>1. DevicesTypeOK'
    BY DEF DevicesTypeOK
  <2>2. Pending' = Pending /\ WatchedNodes' = WatchedNodes
    BY DEF Pending, WatchedNodes
  <2>3. KernelInv'
    BY <2>2 DEF KernelInv, OneNode, ReadyInv, Mentions, Removes
  <2>4. ProgramInv'
    BY <2>2 DEF ProgramInv, ControlInv, NodeInv, Unseen, Opening, Mentions, Removes, Wanted
  <2> QED
    BY <2>1, <2>2, <2>3, <2>4
<1> QED
  BY <1>1, <1>2, ProcessKeepsDevices, ScanKeepsDevices, AddKeepsDevices, ReadKeepsDevices,
     StopKeepsDevices DEF DevicesNext, Hotplug, WatchDevices

-----------------------------------------------------------------------------
(* The monitor over them.                                                  *)

\* Where there is an idle monitor, a hook or a tap, no device is touched.
Untouched == /\ at = [n \in Nodes |-> 0] /\ ready = at /\ watched = at
             /\ openFds = 0 /\ step = "loop" /\ ~receiving
DeviceSide == /\ desktop = "other" => DevicesInv
              /\ desktop # "other" => Untouched

UsingInv == /\ usingGnomeIdleMonitor => running /\ desktop = "gnome"
            /\ usingKdeIdleMonitor => running /\ desktop = "kde"
            /\ ~usingGnomeIdleMonitor => gnomeWatchId = 0
            /\ ~usingKdeIdleMonitor => ~catching

\* Mutter's watches: none has fired already, and none is left by a stop.
WatchInv == ~failed /\ ~restarted =>
                /\ watches \cap fired = {}
                /\ IF usingGnomeIdleMonitor THEN watches \subseteq {gnomeWatchId} ELSE watches = {}

HookInv == /\ hooks # {} => running /\ desktop \in {"windows", "macos"}
           /\ desktop = "windows" => "tap" \notin hooks
           /\ muted => hooks # {} /\ desktop = "macos"

MonitorInv == /\ MonitorTypeOK
              /\ DeviceSide
              /\ UsingInv /\ WatchInv /\ HookInv
              /\ KeepsListening

LEMMA InitMonitor == MonitorInit => MonitorInv
<1> SUFFICES ASSUME MonitorInit PROVE MonitorInv
  OBVIOUS
<1>1. DevicesInv
  BY InitDevices DEF MonitorInit
<1>2. MonitorTypeOK
  <2>1. 0 \in 0..MaxRearms
    BY MonitorAssumption
  <2> QED
    BY <1>1, <2>1 DEF MonitorInit, MonitorTypeOK, DevicesInv
<1>3. DeviceSide
  BY <1>1 DEF DeviceSide, Untouched, MonitorInit, DevicesInit
<1>4. UsingInv /\ HookInv
  BY DEF UsingInv, HookInv, MonitorInit
<1>5. WatchInv /\ KeepsListening
  BY DEF WatchInv, KeepsListening, MonitorInit, DevicesInit
<1> QED
  BY <1>2, <1>3, <1>4, <1>5 DEF MonitorInv

\* Starts and stops of what is not a device: they touch m_running at most.
LEMMA DesktopStep ==
    ASSUME MonitorTypeOK, DeviceSide, running' \in BOOLEAN,
           UNCHANGED <<kernel, ready, receiving, queue, step, listed, opening, devices, desktop>>,
           running' # running => desktop # "other"
    PROVE  DevicesTypeOK' /\ DeviceSide'
<1> USE DEF kernel, devices
<1>1. DevicesTypeOK'
  <2>1. DevicesTypeOK
    BY DEF MonitorTypeOK
  <2> QED
    BY <2>1 DEF DevicesTypeOK
<1>2. CASE desktop = "other"
  <2>1. UNCHANGED deviceVars
    BY <1>2, Zenon DEF deviceVars, program
  <2> QED
    BY <1>1, <1>2, <2>1, DevicesStep DEF DeviceSide
<1>3. CASE desktop # "other"
  BY <1>1, <1>3 DEF DeviceSide, Untouched
<1> QED
  BY <1>1, <1>2, <1>3

LEMMA NextMonitor == MonitorInv /\ [MonitorNext]_monitorVars => MonitorInv'
<1> SUFFICES ASSUME MonitorInv, [MonitorNext]_monitorVars PROVE MonitorInv'
  OBVIOUS
<1> USE DEF MonitorInv, using, gnome, kde, hooking, history
<1>1. CASE StartInputDevices \/ StopInputDevices \/ DeviceStep
  <2>1. DevicesNext /\ desktop = "other" /\ UNCHANGED <<desktop, using, gnome, kde, hooking, history>>
    BY <1>1 DEF StartInputDevices, StopInputDevices, DeviceStep, DevicesNext
  <2>2. DevicesInv'
    BY <2>1, DevicesStep DEF DeviceSide
  <2>3. MonitorTypeOK' /\ DeviceSide'
    BY <2>1, <2>2 DEF MonitorTypeOK, DeviceSide, DevicesInv
  <2>4. UsingInv' /\ WatchInv' /\ HookInv' /\ KeepsListening'
    BY <2>1 DEF UsingInv, WatchInv, HookInv, KeepsListening
  <2> QED
    BY <2>3, <2>4
<1>2. CASE StartGnomeIdleMonitor
  <2>1. PICK id \in FreshIds :
            \/ gnomeWatchId' = id /\ watches' = watches \cup {id} /\ UNCHANGED failed
            \/ Fails /\ gnomeWatchId' = 0 /\ watches' \in {watches, watches \cup {id}}
    BY <1>2 DEF StartGnomeIdleMonitor, ArmGnomeUserActiveWatch
  <2> USE <1>2, <2>1 DEF StartGnomeIdleMonitor, FreshIds, Fails
  <2>2. DevicesTypeOK' /\ DeviceSide'
    BY DesktopStep
  <2>3. MonitorTypeOK'
    BY <2>2 DEF MonitorTypeOK
  <2>4. UsingInv' /\ WatchInv' /\ HookInv' /\ KeepsListening'
    BY DEF UsingInv, WatchInv, HookInv, KeepsListening, MonitorTypeOK
  <2> QED
    BY <2>2, <2>3, <2>4
<1>3. CASE StopGnomeIdleMonitor
  <2> USE <1>3 DEF StopGnomeIdleMonitor, Fails
  <2>1. desktop = "gnome"
    BY DEF UsingInv
  <2>2. DevicesTypeOK' /\ DeviceSide'
    BY <2>1, DesktopStep
  <2>3. MonitorTypeOK'
    BY <2>2 DEF MonitorTypeOK
  <2>4. UsingInv' /\ WatchInv' /\ HookInv' /\ KeepsListening'
    BY <2>1 DEF UsingInv, WatchInv, HookInv, KeepsListening, MonitorTypeOK
  <2> QED
    BY <2>2, <2>3, <2>4
<1>4. ASSUME UNCHANGED <<deviceVars, desktop>> PROVE DevicesTypeOK' /\ DeviceSide'
  <2>1. running' \in BOOLEAN
    BY <1>4 DEF deviceVars, program, MonitorTypeOK, DevicesTypeOK
  <2> QED
    BY <1>4, <2>1, DesktopStep DEF deviceVars, program
<1>5. CASE GnomeInput
  <2> USE <1>5 DEF GnomeInput
  <2>1. DevicesTypeOK' /\ DeviceSide'
    BY <1>4
  <2>2. MonitorTypeOK'
    BY <2>1 DEF MonitorTypeOK
  <2>3. UsingInv' /\ HookInv'
    BY DEF UsingInv, HookInv, deviceVars, program
  <2>4. WatchInv' /\ KeepsListening'
    BY DEF WatchInv, KeepsListening, deviceVars, program
  <2> QED
    BY <2>1, <2>2, <2>3, <2>4
<1>6. ASSUME NEW id \in fired, HandleGnomeIdleWatchFired(id) PROVE MonitorInv'
  <2>1. /\ fired' = fired \ {id} /\ UNCHANGED <<deviceVars, desktop, using, kde, hooking, restarted>>
        /\ UNCHANGED running
    BY <1>6 DEF HandleGnomeIdleWatchFired, deviceVars, program
  <2>2. DevicesTypeOK' /\ DeviceSide'
    BY <1>4, <2>1
  <2>3. CASE id # gnomeWatchId
    <3>1. UNCHANGED <<gnomeWatchId, watches, failed>>
      BY <1>6, <2>3 DEF HandleGnomeIdleWatchFired
    <3>2. MonitorTypeOK'
      BY <2>1, <2>2, <3>1 DEF MonitorTypeOK
    <3>3. UsingInv' /\ WatchInv' /\ HookInv' /\ KeepsListening'
      BY <2>1, <2>3, <3>1 DEF UsingInv, WatchInv, HookInv, KeepsListening
    <3> QED
      BY <2>2, <3>2, <3>3
  <2>4. CASE id = gnomeWatchId
    <3>1. PICK new \in FreshIds :
              \/ gnomeWatchId' = new /\ watches' = watches \cup {new} /\ UNCHANGED failed
              \/ Fails /\ gnomeWatchId' = 0 /\ watches' \in {watches, watches \cup {new}}
      BY <1>6, <2>4 DEF HandleGnomeIdleWatchFired, ArmGnomeUserActiveWatch
    <3>2. gnomeWatchId \in WatchIds /\ gnomeWatchId # 0 /\ usingGnomeIdleMonitor
      BY <2>4, MonitorAssumption DEF MonitorTypeOK, UsingInv
    <3> USE DEF FreshIds, Fails
    <3>3. MonitorTypeOK'
      BY <2>1, <2>2, <3>1 DEF MonitorTypeOK
    <3>4. UsingInv' /\ HookInv' /\ KeepsListening'
      BY <2>1, <3>1, <3>2 DEF UsingInv, HookInv, KeepsListening, MonitorTypeOK
    <3>5. WatchInv'
      BY <2>1, <2>4, <3>1, <3>2 DEF WatchInv, MonitorTypeOK
    <3> QED
      BY <2>2, <3>3, <3>4, <3>5
  <2> QED
    BY <2>3, <2>4
<1>7. CASE RestartShell
  <2> USE <1>7 DEF RestartShell
  <2>1. DevicesTypeOK' /\ DeviceSide'
    BY <1>4
  <2>2. MonitorTypeOK'
    BY <2>1 DEF MonitorTypeOK
  <2>3. UsingInv' /\ WatchInv' /\ HookInv' /\ KeepsListening'
    BY DEF UsingInv, WatchInv, HookInv, KeepsListening, deviceVars, program
  <2> QED
    BY <2>1, <2>2, <2>3
<1>8. CASE StartKdeIdleMonitor \/ StopKdeIdleMonitor
  <2> USE <1>8 DEF StartKdeIdleMonitor, StopKdeIdleMonitor
  <2>1. desktop = "kde"
    BY DEF UsingInv
  <2>2. DevicesTypeOK' /\ DeviceSide'
    BY <2>1, DesktopStep
  <2>3. MonitorTypeOK'
    BY <2>2 DEF MonitorTypeOK
  <2>4. UsingInv' /\ WatchInv' /\ HookInv' /\ KeepsListening'
    BY <2>1 DEF UsingInv, WatchInv, HookInv, KeepsListening
  <2> QED
    BY <2>2, <2>3, <2>4
<1>9. CASE HandleKdeResumingFromIdle \/ Rearm
  <2> USE <1>9 DEF HandleKdeResumingFromIdle, Rearm
  <2>1. DevicesTypeOK' /\ DeviceSide'
    BY <1>4
  <2>2. MonitorTypeOK'
    <3>1. catching' \in BOOLEAN
      BY Zenon
    <3>2. rearms' \in 0..MaxRearms
      BY MonitorAssumption DEF MonitorTypeOK
    <3> QED
      BY <2>1, <3>1, <3>2 DEF MonitorTypeOK
  <2>3. UsingInv' /\ WatchInv' /\ HookInv' /\ KeepsListening'
    BY DEF UsingInv, WatchInv, HookInv, KeepsListening, deviceVars, program, MonitorTypeOK
  <2> QED
    BY <2>1, <2>2, <2>3
<1>10. CASE StartWindowsHooks \/ StopWindowsHooks \/ StartEventTap \/ StopEventTap
  <2> USE <1>10 DEF StartWindowsHooks, StopWindowsHooks, StartEventTap, StopEventTap, Begin, End,
                    UnchangedByHooks, Fails
  <2>1. desktop \in {"windows", "macos"} /\ UNCHANGED <<desktop, using, gnome, kde, restarted>>
    OBVIOUS
  <2>2. DevicesTypeOK' /\ DeviceSide'
    BY <2>1, DesktopStep
  <2>3. MonitorTypeOK'
    BY <2>2 DEF MonitorTypeOK
  <2>4. ~usingGnomeIdleMonitor /\ ~usingKdeIdleMonitor
    BY <2>1 DEF UsingInv
  <2>5. UsingInv' /\ WatchInv'
    BY <2>1, <2>4 DEF UsingInv, WatchInv
  <2>6. HookInv' /\ KeepsListening'
    BY <2>1, <2>4 DEF HookInv, KeepsListening
  <2> QED
    BY <2>2, <2>3, <2>5, <2>6
<1>11. CASE DisableEventTap \/ EventTapCallback \/ UNCHANGED monitorVars
  <2> USE <1>11 DEF DisableEventTap, EventTapCallback, monitorVars
  <2>1. UNCHANGED <<desktop, using, gnome, kde, hooks, history>> /\ UNCHANGED deviceVars
    BY Zenon
  <2>2. UNCHANGED running
    BY <2>1 DEF deviceVars, program
  <2>3. DevicesTypeOK' /\ DeviceSide'
    BY <1>4, <2>1
  <2>4. MonitorTypeOK'
    BY <2>1, <2>3 DEF MonitorTypeOK
  <2>5. UsingInv' /\ WatchInv' /\ KeepsListening'
    BY <2>1, <2>2 DEF UsingInv, WatchInv, KeepsListening
  <2>6. HookInv'
    BY <2>1, <2>2 DEF HookInv
  <2> QED
    BY <2>3, <2>4, <2>5, <2>6
<1> QED
  BY <1>1, <1>2, <1>3, <1>5, <1>6, <1>7, <1>8, <1>9, <1>10, <1>11 DEF MonitorNext

LEMMA MonitorInvariant == MonitorSpec => []MonitorInv
  BY InitMonitor, NextMonitor, PTL DEF MonitorSpec

\* Every variable keeps its type.
THEOREM MonitorTypes == MonitorSpec => []MonitorTypeOK
<1>1. MonitorInv => MonitorTypeOK
  BY DEF MonitorInv
<1> QED
  BY <1>1, MonitorInvariant, PTL

\* A monitor that runs hears the next input, on every desktop, through any order of
\* inputs, stops, starts and queued calls.
THEOREM ListeningKept == MonitorSpec => []KeepsListening
<1>1. MonitorInv => KeepsListening
  BY DEF MonitorInv
<1> QED
  BY <1>1, MonitorInvariant, PTL

\* Mutter holds no watch but the one the program remembers.
THEOREM OneWatch == MonitorSpec => []AtMostOneWatch
<1>1. MonitorInv => AtMostOneWatch
  BY DEF MonitorInv, WatchInv, UsingInv, AtMostOneWatch
<1> QED
  BY <1>1, MonitorInvariant, PTL

\* After stop() the system holds nothing for the program any more.
THEOREM StopReleases == MonitorSpec => []ReleasesWhenStopped
<1>1. MonitorInv => ReleasesWhenStopped
  BY DEF MonitorInv, UsingInv, HookInv, DeviceSide, DevicesInv, ProgramInv, ControlInv, Untouched,
         ReleasesWhenStopped, MonitorTypeOK
<1> QED
  BY <1>1, MonitorInvariant, PTL

\* Once udev's events are handled the program watches exactly the keyboards and mice
\* that are there and were not refused to it, for any number of nodes, devices and
\* swaps: a device is left out only because the last open() on it failed.
THEOREM DevicesAreWatched == MonitorSpec => []WatchesWhatIsThere
<1>1. MonitorInv => WatchesWhatIsThere
  <2> SUFFICES ASSUME MonitorInv, Settled, NEW n \in Nodes
               PROVE  watched[n] = Wanted(at[n])
    BY DEF WatchesWhatIsThere, Wanted
  <2>1. CASE desktop = "other"
    <3>1. DevicesInv /\ NodeInv(n) /\ ControlInv
      BY <2>1 DEF MonitorInv, DeviceSide, DevicesInv, ProgramInv
    <3>2. ~Unseen(n) /\ ~Opening(n)
      BY <3>1 DEF Settled, ControlInv, Unseen, Opening
    <3>3. Pending = <<>> /\ Len(Pending) = 0
      BY ConcatEmptySeq DEF Settled, Pending
    <3>4. ~Mentions(Pending, n)
      BY <3>3 DEF Mentions
    <3> QED
      BY <3>1, <3>2, <3>4 DEF NodeInv
  <2>2. CASE desktop # "other"
    BY <2>2, InputsAssumption DEF MonitorInv, DeviceSide, Untouched, Wanted
  <2> QED
    BY <2>1, <2>2
<1> QED
  BY <1>1, MonitorInvariant, PTL

\* No descriptor of a device is leaked or closed twice.
THEOREM DescriptorsMatch == MonitorSpec => []NoDescriptorLeaks
<1>1. MonitorInv => NoDescriptorLeaks
  <2> SUFFICES ASSUME MonitorInv PROVE NoDescriptorLeaks
    OBVIOUS
  <2>1. CASE desktop = "other"
    <3>1. DevicesInv /\ openFds = Cardinality(WatchedNodes)
      BY <2>1 DEF MonitorInv, DeviceSide, DevicesInv
    <3>2. ASSUME ~running, step = "loop" PROVE openFds = 0
      <4>1. \A n \in Nodes : watched[n] = 0
        BY <3>1, <3>2 DEF DevicesInv, ProgramInv, ControlInv, NodeInv, Unseen
      <4>2. WatchedNodes = {}
        BY <4>1 DEF WatchedNodes
      <4> QED
        BY <3>1, <4>2, FS_EmptySet
    <3> QED
      BY <3>1, <3>2 DEF NoDescriptorLeaks
  <2>2. CASE desktop # "other"
    <3>1. WatchedNodes = {} /\ openFds = 0
      BY <2>2 DEF MonitorInv, DeviceSide, Untouched, WatchedNodes
    <3> QED
      BY <3>1, FS_EmptySet DEF NoDescriptorLeaks
  <2> QED
    BY <2>1, <2>2
<1> QED
  BY <1>1, MonitorInvariant, PTL
=============================================================================
