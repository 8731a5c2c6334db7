------------------------ MODULE SendingServiceProofs ------------------------
(***************************************************************************)
(* Proofs, for every number of samples, restarts and URLs, of the safety   *)
(* properties of SendingService.tla and of its refinement of Outbox.tla.   *)
(***************************************************************************)
EXTENDS SendingService, SequenceTheorems, TLAPS

-----------------------------------------------------------------------------
(* What the two table operations do to a sequence without duplicates.      *)

LEMMA AppendedRow ==
    ASSUME NEW S, NEW q \in Seq(S), NEW s \in S
    PROVE  /\ Append(q, s) \in Seq(S)
           /\ ToSet(Append(q, s)) = ToSet(q) \cup {s}
           /\ IsInjective(q) /\ s \notin ToSet(q) => IsInjective(Append(q, s))
<1>1. /\ Append(q, s) \in Seq(S)
      /\ Len(Append(q, s)) = Len(q) + 1
      /\ \A i \in 1..Len(q) : Append(q, s)[i] = q[i]
      /\ Append(q, s)[Len(q) + 1] = s
  BY AppendProperties
<1>2. Len(q) \in Nat /\ DOMAIN q = 1..Len(q) /\ DOMAIN Append(q, s) = 1..(Len(q) + 1)
  BY <1>1, LenProperties
<1>3. ToSet(Append(q, s)) = ToSet(q) \cup {s}
  <2>1. ASSUME NEW x \in ToSet(Append(q, s)) PROVE x \in ToSet(q) \cup {s}
    <3>1. PICK i \in 1..(Len(q) + 1) : x = Append(q, s)[i]
      BY <1>2 DEF ToSet
    <3>2. i \in 1..Len(q) \/ i = Len(q) + 1
      BY <1>2
    <3> QED
      BY <1>1, <1>2, <3>1, <3>2 DEF ToSet
  <2>2. ASSUME NEW x \in ToSet(q) \cup {s} PROVE x \in ToSet(Append(q, s))
    <3>1. CASE x = s
      <4>1. Len(q) + 1 \in 1..(Len(q) + 1)
        BY <1>2
      <4> QED
        BY <1>1, <1>2, <3>1, <4>1 DEF ToSet
    <3>2. CASE x \in ToSet(q)
      <4>1. PICK i \in 1..Len(q) : x = q[i]
        BY <1>2, <3>2 DEF ToSet
      <4>2. i \in 1..(Len(q) + 1)
        BY <1>2
      <4> QED
        BY <1>1, <1>2, <4>1, <4>2 DEF ToSet
    <3> QED
      BY <2>2, <3>1, <3>2
  <2> QED
    BY <2>1, <2>2
<1>4. ASSUME IsInjective(q), s \notin ToSet(q) PROVE IsInjective(Append(q, s))
  <2> SUFFICES ASSUME NEW i \in 1..(Len(q) + 1), NEW j \in 1..(Len(q) + 1),
                      Append(q, s)[i] = Append(q, s)[j]
               PROVE  i = j
    BY <1>2 DEF IsInjective
  <2>1. \A k \in 1..Len(q) : q[k] # s
    BY <1>2, <1>4 DEF ToSet
  <2>2. /\ i \in 1..Len(q) \/ i = Len(q) + 1
        /\ j \in 1..Len(q) \/ j = Len(q) + 1
    BY <1>2
  <2> QED
    BY <1>1, <1>2, <1>4, <2>1, <2>2 DEF IsInjective
<1> QED
  BY <1>1, <1>3, <1>4

LEMMA TakenRow ==
    ASSUME NEW S, NEW q \in Seq(S), q # <<>>
    PROVE  /\ Head(q) \in S
           /\ Tail(q) \in Seq(S)
           /\ ToSet(q) = {Head(q)} \cup ToSet(Tail(q))
           /\ IsInjective(q) => IsInjective(Tail(q)) /\ Head(q) \notin ToSet(Tail(q))
<1>1. /\ Len(q) \in Nat /\ Len(q) >= 1
      /\ DOMAIN q = 1..Len(q)
      /\ Head(q) = q[1]
  BY EmptySeq, LenProperties
<1>2. /\ Head(q) \in S
      /\ Tail(q) \in Seq(S)
      /\ DOMAIN Tail(q) = 1..(Len(q) - 1)
      /\ \A i \in 1..(Len(q) - 1) : Tail(q)[i] = q[i + 1]
  BY HeadTailProperties, LenProperties
<1>3. ToSet(q) = {Head(q)} \cup ToSet(Tail(q))
  <2>1. ASSUME NEW x \in ToSet(q) PROVE x \in {Head(q)} \cup ToSet(Tail(q))
    <3>1. PICK i \in 1..Len(q) : x = q[i]
      BY <1>1 DEF ToSet
    <3>2. CASE i = 1
      BY <1>1, <3>1, <3>2
    <3>3. CASE i # 1
      <4>1. i - 1 \in 1..(Len(q) - 1) /\ (i - 1) + 1 = i
        BY <1>1, <3>3
      <4>2. x = Tail(q)[i - 1]
        BY <1>2, <3>1, <4>1
      <4> QED
        BY <1>2, <4>1, <4>2 DEF ToSet
    <3> QED
      BY <3>2, <3>3
  <2>2. ASSUME NEW x \in ToSet(Tail(q)) PROVE x \in ToSet(q)
    <3>1. PICK i \in 1..(Len(q) - 1) : x = Tail(q)[i]
      BY <1>2 DEF ToSet
    <3>2. i + 1 \in 1..Len(q) /\ x = q[i + 1]
      BY <1>1, <1>2, <3>1
    <3> QED
      BY <1>1, <3>2 DEF ToSet
  <2>3. Head(q) \in ToSet(q)
    <3>1. 1 \in 1..Len(q)
      BY <1>1
    <3> QED
      BY <1>1, <3>1 DEF ToSet
  <2> QED
    BY <2>1, <2>2, <2>3
<1>4. ASSUME IsInjective(q) PROVE IsInjective(Tail(q)) /\ Head(q) \notin ToSet(Tail(q))
  <2>1. \A i \in 1..(Len(q) - 1) : i + 1 \in 1..Len(q) /\ i + 1 # 1
    BY <1>1
  <2>2. 1 \in 1..Len(q)
    BY <1>1
  <2>3. ASSUME NEW i \in 1..(Len(q) - 1), NEW j \in 1..(Len(q) - 1), Tail(q)[i] = Tail(q)[j]
        PROVE  i = j
    <3>1. q[i + 1] = q[j + 1]
      BY <1>2, <2>3
    <3>2. i + 1 = j + 1
      BY <1>1, <1>4, <2>1, <3>1 DEF IsInjective
    <3> QED
      BY <3>2
  <2>4. ASSUME Head(q) \in ToSet(Tail(q)) PROVE FALSE
    <3>1. PICK i \in 1..(Len(q) - 1) : Head(q) = Tail(q)[i]
      BY <1>2, <2>4 DEF ToSet
    <3>2. q[1] = q[i + 1]
      BY <1>1, <1>2, <3>1
    <3> QED
      BY <1>1, <1>4, <2>1, <2>2, <3>2 DEF IsInjective
  <2> QED
    BY <1>2, <2>3, <2>4 DEF IsInjective
<1> QED
  BY <1>2, <1>3, <1>4

-----------------------------------------------------------------------------
(* Type correctness, with the meaning of the worker's row.                 *)

LEMMA InitTyped == Init => TypeOK /\ RowMatchesPc
<1> SUFFICES ASSUME Init PROVE TypeOK /\ RowMatchesPc
  OBVIOUS
<1>1. <<>> \in Seq(Samples)
  BY EmptySeq
<1>2. 0 \in 0..MaxSamples /\ 0 \in 0..MaxRestarts
  BY WorkerAssumption, ServiceAssumption
<1> QED
  BY <1>1, <1>2 DEF Init, WorkerInit, TypeOK, RowMatchesPc, WorkerPcs, MainPcs, Asleep

LEMMA WorkerTyped ==
    ASSUME TypeOK, RowMatchesPc, WorkerNext
    PROVE  TypeOK' /\ RowMatchesPc'
<1> USE DEF TypeOK, RowMatchesPc, WorkerPcs, Asleep, tables, serviceVars, NoRow
<1>1. NoRow \notin Samples
  BY DEF Samples
<1>2. CASE OpenDatabase
  BY <1>2, WorkerNext DEF OpenDatabase, WorkerNext
<1>3. CASE ReadServerUrl
  BY <1>3, WorkerNext DEF ReadServerUrl, WorkerNext
<1>4. CASE TakeRow
  <2>1. CASE TakeOldest
    <3>1. Head(notSent) \in Samples /\ Tail(notSent) \in Seq(Samples)
      BY <2>1, TakenRow DEF TakeOldest
    <3> QED
      BY <1>1, <1>4, <2>1, <3>1, WorkerNext DEF TakeRow, TakeOldest, WorkerNext
  <2>2. CASE TakeNothing
    BY <1>4, <2>2, WorkerNext DEF TakeRow, TakeNothing, WorkerNext
  <2> QED
    BY <1>4, <2>1, <2>2 DEF TakeRow
<1>5. CASE WaitForWake
  BY <1>5, WorkerNext DEF WaitForWake, WaitUnlessStopped, WorkerNext
<1>6. CASE ResendSucceeds
  BY <1>6, WorkerNext DEF ResendSucceeds, WorkerNext
<1>7. CASE ResendFails
  BY <1>7, WorkerNext DEF ResendFails, WorkerNext
<1>8. CASE RecordOutcome
  <2>1. row \in Samples
    BY <1>8 DEF RecordOutcome
  <2>2. Append(notSent, row) \in Seq(Samples)
    BY <2>1, AppendedRow
  <2> QED
    BY <1>8, <2>1, <2>2, WorkerNext
       DEF RecordOutcome, AddToSent, AddToNotSent, FailToRecord, WorkerNext
<1>9. CASE WaitRetryInterval
  BY <1>9, WorkerNext DEF WaitRetryInterval, WaitUnlessStopped, WorkerNext
<1>10. CASE RetryIntervalElapsed
  BY <1>10, WorkerNext DEF RetryIntervalElapsed, WorkerNext
<1>11. CASE Resume
  BY <1>11, WorkerNext DEF Resume, WorkerNext
<1> QED
  BY <1>2, <1>3, <1>4, <1>5, <1>6, <1>7, <1>8, <1>9, <1>10, <1>11, WorkerNext
     DEF WorkerNext, WorkerStep

LEMMA NextTyped ==
    ASSUME TypeOK, RowMatchesPc, [Next]_vars
    PROVE  TypeOK' /\ RowMatchesPc'
<1> USE DEF TypeOK, RowMatchesPc, WorkerPcs, MainPcs, Asleep, WakeAll, tables, workerVars
<1>1. ASSUME NEW u \in Urls \cup {NoUrl}, SetServerUrl(u) PROVE TypeOK' /\ RowMatchesPc'
  BY <1>1 DEF SetServerUrl
<1>2. CASE WakeWorker
  BY <1>2 DEF WakeWorker
<1>3. ASSUME NEW u, NEW i \in {"normal", "retry"}, SendNow(u, i)
      PROVE  /\ captured' \in 0..MaxSamples
             /\ inFlight' \subseteq Samples
             /\ timerInterval' \in {"normal", "retry"}
  <2>1. captured < MaxSamples => captured + 1 \in 0..MaxSamples /\ captured + 1 \in Samples
    BY WorkerAssumption DEF Samples
  <2> QED
    BY <1>3, <2>1 DEF SendNow
<1>4. CASE Timeout
  BY <1>3, <1>4 DEF Timeout
<1>5. CASE Start
  BY <1>3, <1>5 DEF Start
<1>6. CASE Stop
  <2>1. /\ timerActive' = FALSE /\ mainPc' = "joining"
        /\ RequestStop
        /\ UNCHANGED <<tables, received, serverUrl, url, row, captured, inFlight,
                       timerInterval, restarts>>
    BY <1>6, Zenon DEF Stop
  <2> QED
    BY <2>1 DEF RequestStop
<1>7. CASE Joined
  BY <1>7 DEF Joined
<1>8. ASSUME NEW s \in inFlight, HandleReplySucceeded(s) PROVE TypeOK' /\ RowMatchesPc'
  BY <1>8 DEF HandleReplySucceeded, AddToSent, FailToRecord
<1>9. ASSUME NEW s \in inFlight, HandleReplyFailed(s) PROVE TypeOK' /\ RowMatchesPc'
  <2>1. Append(notSent, s) \in Seq(Samples)
    BY <1>9, AppendedRow
  <2> QED
    BY <1>9, <2>1 DEF HandleReplyFailed, AddToNotSent, FailToRecord
<1>10. CASE Quit
  BY <1>10 DEF Quit, RequestStop
<1>11. CASE Exit \/ Crash
  <2>1. restarts + 1 \in 0..MaxRestarts
    BY <1>11, ServiceAssumption DEF Exit, Crash
  <2>2. InHand \subseteq Samples
    BY DEF InHand
  <2>3. received' \subseteq Samples
    BY <1>11, <2>2 DEF Exit, Crash, Relaunch
  <2>4. dropped' \subseteq Samples
    BY <1>11, <2>2 DEF Exit, Crash, Relaunch
  <2> QED
    BY <1>11, <2>1, <2>3, <2>4 DEF Exit, Crash, Relaunch, ResetWorker
<1>12. CASE WorkerNext
  BY <1>12, WorkerTyped
<1>13. CASE UNCHANGED vars
  BY <1>13 DEF vars, serviceVars
<1> QED
  BY <1>1, <1>2, <1>4, <1>5, <1>6, <1>7, <1>8, <1>9, <1>10, <1>11, <1>12, <1>13 DEF Next

\* Every variable keeps its type, and a row is in the worker's hand exactly
\* while it is being posted or recorded.
THEOREM TypeCorrect == Spec => [](TypeOK /\ RowMatchesPc)
<1>1. TypeOK /\ RowMatchesPc /\ [Next]_vars => (TypeOK /\ RowMatchesPc)'
  BY NextTyped
<1> QED
  BY <1>1, InitTyped, PTL DEF Spec

-----------------------------------------------------------------------------
(* Every step of either thread moves the books in one of five ways, or     *)
(* leaves them alone.                                                      *)

books == <<captured, inFlight, row, notSent, sent, dropped>>

Record(s) == AddToNotSent(s) \/ AddToSent(s) \/ FailToRecord(s)

CaptureMove == /\ captured < MaxSamples
               /\ captured' = captured + 1
               /\ inFlight' = inFlight \cup {captured + 1}
               /\ UNCHANGED <<row, tables>>

AnswerMove(s) == /\ s \in inFlight
                 /\ inFlight' = inFlight \ {s}
                 /\ Record(s)
                 /\ UNCHANGED <<captured, row>>

ResendMove == /\ row # NoRow
              /\ row' = NoRow
              /\ Record(row)
              /\ UNCHANGED <<captured, inFlight>>

TakeMove == /\ row = NoRow
            /\ notSent # <<>>
            /\ row' = Head(notSent)
            /\ notSent' = Tail(notSent)
            /\ UNCHANGED <<captured, inFlight, sent, dropped>>

EndMove == /\ dropped' = dropped \cup inFlight \cup InHand
           /\ inFlight' = {}
           /\ row' = NoRow
           /\ restarts' > 0
           /\ UNCHANGED <<captured, notSent, sent>>

BooksMove == \/ CaptureMove
             \/ \E s \in inFlight : AnswerMove(s)
             \/ ResendMove
             \/ TakeMove
             \/ EndMove
             \/ UNCHANGED books

LEMMA StepMovesBooks ==
    ASSUME TypeOK, RowMatchesPc, [Next]_vars
    PROVE  BooksMove
<1> USE DEF books, tables, workerVars, serviceVars
<1>1. ASSUME NEW u \in Urls \cup {NoUrl}, SetServerUrl(u) PROVE UNCHANGED books
  BY <1>1 DEF SetServerUrl
<1>2. CASE WakeWorker \/ Joined
  BY <1>2 DEF WakeWorker, Joined, BooksMove
<1>3. CASE Stop \/ Quit
  BY <1>3, Zenon DEF Stop, Quit, BooksMove
<1>4. ASSUME NEW u, NEW i, SendNow(u, i), UNCHANGED <<row, tables>>
      PROVE  CaptureMove \/ UNCHANGED books
  BY <1>4 DEF SendNow, CaptureMove
<1>5. CASE Timeout
  BY <1>4, <1>5 DEF Timeout, BooksMove
<1>6. CASE Start
  BY <1>4, <1>6 DEF Start, BooksMove
<1>7. ASSUME NEW s \in inFlight, HandleReplySucceeded(s) \/ HandleReplyFailed(s)
      PROVE  AnswerMove(s)
  BY <1>7 DEF HandleReplySucceeded, HandleReplyFailed, AnswerMove, Record
<1>8. CASE Exit \/ Crash
  <2>1. restarts + 1 > 0
    BY ServiceAssumption DEF TypeOK
  <2>2. EndMove
    BY <1>8, <2>1 DEF Exit, Crash, Relaunch, ResetWorker, EndMove
  <2> QED
    BY <2>2 DEF BooksMove
<1>9. CASE WorkerNext
  <2>1. CASE TakeRow
    <3>1. row = NoRow
      BY <2>1 DEF TakeRow, RowMatchesPc
    <3>2. CASE TakeOldest
      <4>1. TakeMove
        BY <1>9, <2>1, <3>1, <3>2 DEF TakeRow, TakeOldest, WorkerNext, TakeMove
      <4> QED
        BY <4>1 DEF BooksMove
    <3>3. CASE TakeNothing
      BY <1>9, <2>1, <3>3 DEF TakeRow, TakeNothing, WorkerNext, BooksMove
    <3> QED
      BY <2>1, <3>2, <3>3 DEF TakeRow
  <2>2. CASE RecordOutcome
    <3>1. row # NoRow
      BY <2>2 DEF RecordOutcome, RowMatchesPc
    <3>2. ResendMove
      BY <1>9, <2>2, <3>1 DEF RecordOutcome, WorkerNext, ResendMove, Record
    <3> QED
      BY <3>2 DEF BooksMove
  <2>3. CASE \/ OpenDatabase \/ ReadServerUrl \/ WaitForWake \/ ResendSucceeds
             \/ ResendFails \/ WaitRetryInterval \/ RetryIntervalElapsed \/ Resume
    <3>1. UNCHANGED books
      BY <1>9, <2>3
         DEF WorkerNext, OpenDatabase, ReadServerUrl, WaitForWake, ResendSucceeds,
             ResendFails, WaitRetryInterval, RetryIntervalElapsed, Resume,
             WaitUnlessStopped
    <3> QED
      BY <3>1 DEF BooksMove
  <2> QED
    BY <1>9, <2>1, <2>2, <2>3 DEF WorkerNext, WorkerStep
<1>10. CASE UNCHANGED vars
  BY <1>10 DEF vars, BooksMove
<1> QED
  BY <1>1, <1>2, <1>3, <1>5, <1>6, <1>7, <1>8, <1>9, <1>10 DEF Next, BooksMove

-----------------------------------------------------------------------------
(* Every captured sample is in exactly one place.                          *)

LEMMA InitPlaced == Init => EachSampleInOnePlace
<1> SUFFICES ASSUME Init PROVE EachSampleInOnePlace
  OBVIOUS
<1>1. DOMAIN <<>> = {}
  BY EmptySeq, LenProperties
<1>2. Queued = {} /\ InHand = {} /\ 1..captured = {}
  BY <1>1 DEF Init, WorkerInit, Queued, ToSet, InHand
<1>3. IsInjective(notSent)
  BY <1>1 DEF Init, WorkerInit, IsInjective
<1> QED
  BY <1>2, <1>3 DEF Init, WorkerInit, EachSampleInOnePlace, NoDuplicateRows,
                    PlacesDisjoint, NoneMissing

\* One sample leaves the live ones and is recorded: the heart of both threads.
LEMMA RecordKeepsPlaces ==
    ASSUME TypeOK, EachSampleInOnePlace,
           NEW s \in inFlight \cup InHand,
           Record(s),
           captured' = captured,
           inFlight' = inFlight \ {s},
           InHand' = InHand \ {s}
    PROVE  EachSampleInOnePlace'
<1> USE DEF EachSampleInOnePlace, NoDuplicateRows, PlacesDisjoint, NoneMissing, Queued
<1>1. s \in Samples /\ s \notin ToSet(notSent)
  BY DEF TypeOK, InHand
<1>2. /\ ToSet(Append(notSent, s)) = ToSet(notSent) \cup {s}
      /\ IsInjective(Append(notSent, s))
  BY <1>1, AppendedRow DEF TypeOK
<1>3. CASE AddToNotSent(s)
  BY <1>1, <1>2, <1>3 DEF AddToNotSent
<1>4. CASE AddToSent(s)
  BY <1>1, <1>4 DEF AddToSent
<1>5. CASE FailToRecord(s)
  BY <1>1, <1>5 DEF FailToRecord
<1> QED
  BY <1>3, <1>4, <1>5 DEF Record

LEMMA MoveKeepsPlaces ==
    ASSUME TypeOK, EachSampleInOnePlace, BooksMove
    PROVE  EachSampleInOnePlace'
<1> USE DEF tables
<1>1. CASE CaptureMove
  <2>1. captured + 1 \notin 1..captured /\ 1..(captured + 1) = 1..captured \cup {captured + 1}
    BY DEF TypeOK
  <2> QED
    BY <1>1, <2>1 DEF CaptureMove, EachSampleInOnePlace, NoDuplicateRows, PlacesDisjoint,
                      NoneMissing, Queued, InHand
<1>2. ASSUME NEW s \in inFlight, AnswerMove(s) PROVE EachSampleInOnePlace'
  <2>1. InHand' = InHand \ {s}
    BY <1>2 DEF AnswerMove, InHand, EachSampleInOnePlace, PlacesDisjoint
  <2> QED
    BY <1>2, <2>1, RecordKeepsPlaces DEF AnswerMove
<1>3. CASE ResendMove
  <2>1. row \in InHand /\ InHand' = InHand \ {row} /\ inFlight' = inFlight \ {row}
    BY <1>3 DEF ResendMove, InHand, EachSampleInOnePlace, PlacesDisjoint
  <2> QED
    BY <1>3, <2>1, RecordKeepsPlaces DEF ResendMove
<1>4. CASE TakeMove
  <2>1. /\ Head(notSent) \in Samples
        /\ ToSet(notSent) = {Head(notSent)} \cup ToSet(Tail(notSent))
        /\ IsInjective(Tail(notSent)) /\ Head(notSent) \notin ToSet(Tail(notSent))
    BY <1>4, TakenRow DEF TakeMove, TypeOK, EachSampleInOnePlace, NoDuplicateRows
  <2>2. InHand = {} /\ InHand' = {Head(notSent)}
    BY <1>4, <2>1 DEF TakeMove, InHand, Samples, NoRow
  <2> QED
    BY <1>4, <2>1, <2>2 DEF TakeMove, EachSampleInOnePlace, NoDuplicateRows,
                            PlacesDisjoint, NoneMissing, Queued
<1>5. CASE EndMove
  BY <1>5 DEF EndMove, EachSampleInOnePlace, NoDuplicateRows, PlacesDisjoint, NoneMissing,
              Queued, InHand
<1>6. CASE UNCHANGED books
  BY <1>6 DEF books, EachSampleInOnePlace, NoDuplicateRows, PlacesDisjoint, NoneMissing,
              Queued, InHand
<1> QED
  BY <1>1, <1>2, <1>3, <1>4, <1>5, <1>6 DEF BooksMove

\* Whatever the two threads, the server, database errors and crashes do, each
\* captured sample is in exactly one place and in one row.
THEOREM SamplesAccountedFor == Spec => []EachSampleInOnePlace
<1>1. TypeOK /\ RowMatchesPc /\ EachSampleInOnePlace /\ [Next]_vars => EachSampleInOnePlace'
  BY StepMovesBooks, MoveKeepsPlaces
<1> QED
  BY <1>1, InitPlaced, TypeCorrect, PTL DEF Spec
-----------------------------------------------------------------------------
(* Nothing is lost without a fault.                                        *)

LEMMA RestartsGrow ==
    ASSUME TypeOK, [Next]_vars
    PROVE  restarts' = restarts \/ restarts' > 0
<1>1. CASE Exit \/ Crash
  BY <1>1, ServiceAssumption DEF Exit, Crash, Relaunch, TypeOK
<1>2. CASE Stop \/ Quit
  BY <1>2, Zenon DEF Stop, Quit
<1> QED
  BY <1>1, <1>2 DEF Next, vars, serviceVars, SetServerUrl, WakeWorker, Timeout, Start,
                    Joined, HandleReplySucceeded, HandleReplyFailed, WorkerNext

\* Without database errors and without an end of the process, no interleaving
\* of captures, answers, resends, starts and stops drops a sample.
THEOREM NothingLost == Spec => []NothingDroppedWithoutFault
<1>1. Init => NothingDroppedWithoutFault
  BY DEF Init, WorkerInit, NothingDroppedWithoutFault
<1>2. TypeOK /\ RowMatchesPc /\ NothingDroppedWithoutFault /\ [Next]_vars
      => NothingDroppedWithoutFault'
  <2> SUFFICES ASSUME TypeOK, RowMatchesPc, NothingDroppedWithoutFault, [Next]_vars,
                      ~DbFaults
               PROVE  NothingDroppedWithoutFault'
    BY DEF NothingDroppedWithoutFault
  <2>1. \A s : Record(s) => UNCHANGED dropped
    BY DEF Record, AddToNotSent, AddToSent, FailToRecord
  <2>2. UNCHANGED dropped \/ restarts' > 0
    BY StepMovesBooks, <2>1
       DEF BooksMove, CaptureMove, AnswerMove, ResendMove, TakeMove, EndMove, books, tables
  <2> QED
    BY <2>2, RestartsGrow, ServiceAssumption DEF NothingDroppedWithoutFault, TypeOK
<1> QED
  BY <1>1, <1>2, TypeCorrect, PTL DEF Spec

-----------------------------------------------------------------------------
(* The sent table against the server.                                      *)

LEMMA SentStep ==
    ASSUME TypeOK, RowMatchesPc, SentWasReceived, [Next]_vars
    PROVE  SentWasReceived'
<1> USE DEF SentWasReceived, tables, workerVars
<1>1. CASE WorkerNext
  <2>1. CASE RecordOutcome
    BY <1>1, <2>1 DEF RecordOutcome, RowMatchesPc, AddToSent, AddToNotSent, FailToRecord
  <2>2. CASE ResendSucceeds \/ ResendFails
    BY <1>1, <2>2 DEF ResendSucceeds, ResendFails
  <2>3. CASE \/ OpenDatabase \/ ReadServerUrl \/ TakeRow \/ WaitForWake
             \/ WaitRetryInterval \/ RetryIntervalElapsed \/ Resume
    BY <2>3 DEF OpenDatabase, ReadServerUrl, TakeRow, WaitForWake, WaitRetryInterval,
                RetryIntervalElapsed, Resume, WaitUnlessStopped
  <2> QED
    BY <1>1, <2>1, <2>2, <2>3 DEF WorkerNext, WorkerStep
<1>2. ASSUME NEW s \in inFlight, HandleReplySucceeded(s) \/ HandleReplyFailed(s)
      PROVE  SentWasReceived'
  BY <1>2 DEF HandleReplySucceeded, HandleReplyFailed, AddToSent, AddToNotSent, FailToRecord
<1>3. CASE Exit \/ Crash
  BY <1>3 DEF Exit, Crash, Relaunch
<1>4. CASE Stop \/ Quit
  BY <1>4, Zenon DEF Stop, Quit
<1> QED
  BY <1>1, <1>2, <1>3, <1>4 DEF Next, vars, SetServerUrl, WakeWorker, Timeout, Start, Joined

\* The sent table never claims a delivery the server did not accept.
THEOREM SentOnlyIfReceived == Spec => []SentWasReceived
<1>1. Init => SentWasReceived
  BY DEF Init, WorkerInit, SentWasReceived
<1>2. TypeOK /\ RowMatchesPc /\ SentWasReceived /\ [Next]_vars => SentWasReceived'
  BY SentStep
<1> QED
  BY <1>1, <1>2, TypeCorrect, PTL DEF Spec

-----------------------------------------------------------------------------
(* Stopping.                                                               *)

LEMMA StopStep ==
    ASSUME TypeOK, NeverAsleepOnceStopped, QuietWhenStopped, [Next]_vars
    PROVE  NeverAsleepOnceStopped' /\ QuietWhenStopped'
<1> USE DEF NeverAsleepOnceStopped, QuietWhenStopped, Asleep, WakeAll, workerVars
<1>1. ASSUME NEW u \in Urls \cup {NoUrl}, SetServerUrl(u)
      PROVE  NeverAsleepOnceStopped' /\ QuietWhenStopped'
  BY <1>1 DEF SetServerUrl
<1>2. CASE WakeWorker \/ Joined
  BY <1>2 DEF WakeWorker, Joined
<1>3. CASE Timeout \/ Start
  BY <1>3 DEF Timeout, Start
<1>4. CASE Stop \/ Quit
  <2>1. RequestStop /\ mainPc' \in {"joining", "quitting"}
    BY <1>4, Zenon DEF Stop, Quit
  <2> QED
    BY <2>1 DEF RequestStop
<1>5. ASSUME NEW s \in inFlight, HandleReplySucceeded(s) \/ HandleReplyFailed(s)
      PROVE  NeverAsleepOnceStopped' /\ QuietWhenStopped'
  BY <1>5 DEF HandleReplySucceeded, HandleReplyFailed
<1>6. CASE Exit \/ Crash
  BY <1>6 DEF Exit, Crash, Relaunch, ResetWorker
<1>7. CASE WorkerNext
  <2>1. workerPc # "off" /\ UNCHANGED <<stopRequested, mainPc, timerActive>>
    BY <1>7
       DEF WorkerNext, WorkerStep, serviceVars, OpenDatabase, ReadServerUrl, TakeRow,
           WaitForWake, ResendSucceeds, ResendFails, RecordOutcome, WaitRetryInterval,
           RetryIntervalElapsed, Resume, WaitUnlessStopped
  <2>2. workerPc' \in Asleep => ~stopRequested
    BY <1>7
       DEF WorkerNext, WorkerStep, OpenDatabase, ReadServerUrl, TakeRow, TakeOldest,
           TakeNothing, WaitForWake, ResendSucceeds, ResendFails, RecordOutcome,
           WaitRetryInterval, RetryIntervalElapsed, Resume, WaitUnlessStopped
  <2> QED
    BY <2>1, <2>2
<1>8. CASE UNCHANGED vars
  BY <1>8 DEF vars, serviceVars
<1> QED
  BY <1>1, <1>2, <1>3, <1>4, <1>5, <1>6, <1>7, <1>8 DEF Next

LEMMA StopInvariant == Spec => [](NeverAsleepOnceStopped /\ QuietWhenStopped)
<1>1. Init => NeverAsleepOnceStopped /\ QuietWhenStopped
  BY DEF Init, WorkerInit, NeverAsleepOnceStopped, QuietWhenStopped
<1>2. TypeOK /\ (NeverAsleepOnceStopped /\ QuietWhenStopped) /\ [Next]_vars
      => (NeverAsleepOnceStopped /\ QuietWhenStopped)'
  BY StopStep
<1> QED
  BY <1>1, <1>2, TypeCorrect, PTL DEF Spec

\* No wakeup of a stop request is ever missed.
THEOREM StopIsNotMissed == Spec => []NeverAsleepOnceStopped
  BY StopInvariant, PTL

\* A stopped service has no worker thread.
THEOREM StoppedIsQuiet == Spec => []QuietWhenStopped
  BY StopInvariant, PTL

-----------------------------------------------------------------------------
(* The service and its worker implement the outbox.                        *)

LEMMA RecordImplements ==
    ASSUME EachSampleInOnePlace, NEW s \in inFlight \cup InHand, Record(s),
           captured' = captured, (inFlight \cup InHand)' = (inFlight \cup InHand) \ {s}
    PROVE  Contract!Next
<1>1. CASE AddToNotSent(s)
  BY <1>1 DEF AddToNotSent, Contract!Next, Contract!Enqueue
<1>2. CASE AddToSent(s)
  BY <1>2 DEF AddToSent, Contract!Next, Contract!Deliver
<1>3. CASE FailToRecord(s)
  BY <1>3 DEF FailToRecord, Contract!Next, Contract!Drop
<1> QED
  BY <1>1, <1>2, <1>3 DEF Record

LEMMA MoveImplements ==
    ASSUME TypeOK, EachSampleInOnePlace, BooksMove
    PROVE  [Contract!Next]_(Contract!vars)
<1> USE DEF tables
<1>1. CASE CaptureMove
  BY <1>1 DEF CaptureMove, InHand, Contract!Next, Contract!Capture
<1>2. ASSUME NEW s \in inFlight, AnswerMove(s) PROVE Contract!Next
  <2>1. (inFlight \cup InHand)' = (inFlight \cup InHand) \ {s}
    BY <1>2 DEF AnswerMove, InHand, EachSampleInOnePlace, PlacesDisjoint
  <2> QED
    BY <1>2, <2>1, RecordImplements DEF AnswerMove
<1>3. CASE ResendMove
  <2>1. row \in InHand /\ (inFlight \cup InHand)' = (inFlight \cup InHand) \ {row}
    BY <1>3 DEF ResendMove, InHand, EachSampleInOnePlace, PlacesDisjoint
  <2> QED
    BY <1>3, <2>1, RecordImplements DEF ResendMove
<1>4. CASE TakeMove
  <2>1. Head(notSent) \in Samples
    BY <1>4, TakenRow DEF TakeMove, TypeOK
  <2>2. InHand = {} /\ InHand' = {Head(notSent)}
    BY <1>4, <2>1 DEF TakeMove, InHand, Samples, NoRow
  <2> QED
    BY <1>4, <2>2 DEF TakeMove, Contract!Next, Contract!Resend
<1>5. CASE EndMove
  <2>1. InHand' = {}
    BY <1>5 DEF EndMove, InHand
  <2>2. (inFlight \cup InHand)' = {} /\ dropped' = dropped \cup (inFlight \cup InHand)
    BY <1>5, <2>1 DEF EndMove
  <2> QED
    BY <1>5, <2>2 DEF EndMove, Contract!Next, Contract!LoseLive
<1>6. CASE UNCHANGED books
  BY <1>6 DEF books, InHand, Contract!vars
<1> QED
  BY <1>1, <1>2, <1>3, <1>4, <1>5, <1>6 DEF BooksMove

\* For every number of samples and restarts, each step of the two threads is a
\* step of the outbox or leaves it alone.
THEOREM Refinement == Spec => ImplementsOutbox
<1>1. Init => Contract!Init
  BY DEF Init, WorkerInit, InHand, Contract!Init
<1>2. TypeOK /\ RowMatchesPc /\ EachSampleInOnePlace /\ [Next]_vars
      => [Contract!Next]_(Contract!vars)
  BY StepMovesBooks, MoveImplements
<1> QED
  BY <1>1, <1>2, TypeCorrect, SamplesAccountedFor, PTL DEF Spec, ImplementsOutbox, Contract!Spec
=============================================================================
