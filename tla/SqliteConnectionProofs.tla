----------------------- MODULE SqliteConnectionProofs -----------------------
(***************************************************************************)
(* Proofs about SqliteConnection.tla, for every number of connections, rows*)
(* and crashes. TakenOnce and AtomicQueue are about rows, but what makes   *)
(* them true are the locks: a connection that has read the oldest row keeps*)
(* a lock no commit goes past, so that row is still the oldest when the    *)
(* connection deletes it.                                                  *)
(***************************************************************************)
EXTENDS SqliteConnection, FiniteSetTheorems, TLAPS

Ids == Nat \ {NoRow}

\* The type invariant, as far as it does not count connections.
StoreTyped == /\ table \in Seq(Ids)
              /\ lastId \in Nat
              /\ taken \in Seq(Ids)
              /\ pc \in [Conns -> Statements]
              /\ inTransaction \in [Conns -> BOOLEAN]
              /\ lock \in [Conns -> Locks]
              /\ picked \in [Conns -> Nat]
              /\ crashes \in 0..MaxCrashes

\* Ids only grow: first those taken, then those in the table.
Increasing(s) == \A i, j \in 1..Len(s) : i < j => s[i] < s[j]
RowsInOrder == /\ Increasing(table)
               /\ Increasing(taken)
               /\ \A i \in 1..Len(taken), j \in 1..Len(table) : taken[i] < table[j]
               /\ \A i \in 1..Len(table) : table[i] <= lastId
               /\ \A i \in 1..Len(taken) : taken[i] <= lastId

\* The lock a connection holds at each statement, and that there is one writer.
LockFits(c) == /\ pc[c] \in {"idle", "select", "insert", "query"} => lock[c] = "none"
               /\ pc[c] = "delete" => lock[c] = "shared"
               /\ pc[c] \in {"commitTake", "commitInsert"} => lock[c] \in {"reserved", "pending"}
               /\ pc[c] = "return" => lock[c] \in {"none", "shared"}
Writing(c) == lock[c] \in {"reserved", "pending"}
LocksMatch == /\ \A c \in Conns : LockFits(c)
              /\ \A c, d \in Conns : Writing(c) /\ Writing(d) => c = d

\* A transaction is open from its BEGIN until its COMMIT or its rollback(): every
\* path from a statement of the take to its return passes one of the two.
TransactionFits ==
    \A c \in Conns : inTransaction[c] <=> pc[c] \in {"select", "delete", "commitTake", "rollback"}

\* What an open take has read is still there, and still the oldest, until it is
\* deleted or given up; nothing else has a SELECT open.
PickedIsOldest ==
    \A c \in Conns :
        /\ pc[c] \in {"delete", "commitTake"} => table # <<>> /\ picked[c] = Head(table)
        /\ pc[c] \in {"idle", "select", "insert", "commitInsert", "query"} => picked[c] = NoRow
        /\ picked[c] <= lastId

StoreInv == /\ StoreTyped
            /\ RowsInOrder
            /\ LocksMatch
            /\ TransactionFits
            /\ PickedIsOldest

-----------------------------------------------------------------------------
(* Operations on the table.                                                *)

LEMMA RemoveAtHead ==
    ASSUME NEW S, NEW s \in Seq(S), s # <<>>
    PROVE  RemoveAt(s, 1) = Tail(s)
<1>1. Len(s) \in Nat \ {0} /\ SubSeq(s, 1, 1 - 1) = <<>>
  OBVIOUS
<1>2. SubSeq(s, 2, Len(s)) = Tail(s)
  OBVIOUS
<1>3. <<>> \o Tail(s) = Tail(s)
  OBVIOUS
<1>4. RemoveAt(s, 1) = <<>> \o SubSeq(s, 2, Len(s))
  BY <1>1 DEF RemoveAt
<1> QED
  BY <1>2, <1>3, <1>4

\* Deleting the row with the oldest id deletes the oldest row.
LEMMA DeletesHead ==
    ASSUME NEW s \in Seq(Ids), s # <<>>
    PROVE  RemoveFirst(s, Head(s)) = Tail(s)
<1>1. s[1] = Head(s) /\ 1 \in 1..Len(s)
  OBVIOUS
<1> DEFINE I == {i \in 1..Len(s) : s[i] = Head(s)}
<1>2. 1 \in I /\ \A i \in I : i >= 1
  BY <1>1
<1>3. Min(I) = 1
  BY <1>2 DEF Min
<1>4. RemoveFirst(s, Head(s)) = RemoveAt(s, Min(I))
  BY <1>1, <1>2 DEF RemoveFirst, SelectInSeq
<1> QED
  BY <1>3, <1>4, RemoveAtHead

LEMMA TailInOrder ==
    ASSUME NEW s \in Seq(Ids), s # <<>>, Increasing(s)
    PROVE  /\ Tail(s) \in Seq(Ids) /\ Head(s) \in Ids /\ Head(s) = s[1] /\ 1 \in 1..Len(s)
           /\ Increasing(Tail(s))
           /\ \A i \in 1..Len(Tail(s)) : i + 1 \in 1..Len(s) /\ Tail(s)[i] = s[i + 1] /\ s[1] < s[i + 1]
<1>1. /\ Tail(s) \in Seq(Ids) /\ Head(s) \in Ids /\ Head(s) = s[1] /\ 1 \in 1..Len(s)
      /\ Len(Tail(s)) = Len(s) - 1 /\ Len(s) \in Nat
  OBVIOUS
<1>2. \A i \in 1..Len(Tail(s)) : i + 1 \in 1..Len(s) /\ Tail(s)[i] = s[i + 1]
  BY <1>1
<1>3. \A i \in 1..Len(Tail(s)) : s[1] < s[i + 1]
  BY <1>1, <1>2 DEF Increasing
<1>4. Increasing(Tail(s))
  BY <1>1, <1>2 DEF Increasing
<1> QED
  BY <1>1, <1>2, <1>3, <1>4

LEMMA AppendInOrder ==
    ASSUME NEW s \in Seq(Ids), NEW id \in Ids, Increasing(s), \A i \in 1..Len(s) : s[i] < id
    PROVE  /\ Append(s, id) \in Seq(Ids)
           /\ Increasing(Append(s, id))
           /\ Len(Append(s, id)) = Len(s) + 1
           /\ \A i \in 1..Len(Append(s, id)) :
                  (i \in 1..Len(s) /\ Append(s, id)[i] = s[i]) \/ Append(s, id)[i] = id
<1>1. /\ Append(s, id) \in Seq(Ids) /\ Len(Append(s, id)) = Len(s) + 1 /\ Len(s) \in Nat
      /\ Append(s, id)[Len(s) + 1] = id
      /\ \A i \in 1..Len(s) : Append(s, id)[i] = s[i]
  OBVIOUS
<1>2. \A i \in 1..Len(Append(s, id)) : i \in 1..Len(s) \/ i = Len(s) + 1
  BY <1>1
<1>3. Increasing(Append(s, id))
  BY <1>1, <1>2 DEF Increasing
<1> QED
  BY <1>1, <1>2, <1>3

-----------------------------------------------------------------------------
(* The inductive invariant, by what a step does to the rows and to a       *)
(* connection.                                                             *)

\* Whoever may exclude the others is alone with the table.
LEMMA AloneAtCommit ==
    ASSUME StoreInv, NEW c \in Conns, CanExclude(c)
    PROVE  \A d \in Conns \ {c} : /\ lock[d] = "none"
                                  /\ pc[d] \notin {"delete", "commitTake", "commitInsert"}
  BY DEF StoreInv, LocksMatch, LockFits, CanExclude

LEMMA TakeKeepsOrder ==
    ASSUME StoreInv, NEW c \in Conns, CommitTake(c)
    PROVE  /\ table # <<>> /\ table' = Tail(table) /\ taken' = Append(taken, Head(table))
           /\ table' \in Seq(Ids) /\ taken' \in Seq(Ids) /\ RowsInOrder'
<1>1. table # <<>> /\ picked[c] = Head(table)
  BY DEF CommitTake, StoreInv, PickedIsOldest
<1>2. table \in Seq(Ids) /\ taken \in Seq(Ids) /\ lastId \in Nat
  BY DEF StoreInv, StoreTyped
<1>3. table' = Tail(table) /\ taken' = Append(taken, Head(table)) /\ lastId' = lastId
  BY <1>1, <1>2, DeletesHead DEF CommitTake
<1>4. RowsInOrder
  BY DEF StoreInv
<1> HIDE DEF StoreInv
<1> DEFINE id == Head(table)
<1>5. /\ Tail(table) \in Seq(Ids) /\ id \in Ids /\ id = table[1] /\ 1 \in 1..Len(table)
      /\ Increasing(Tail(table))
      /\ \A i \in 1..Len(Tail(table)) : /\ i + 1 \in 1..Len(table)
                                        /\ Tail(table)[i] = table[i + 1]
                                        /\ id < table[i + 1]
  BY <1>1, <1>2, <1>4, TailInOrder DEF RowsInOrder
<1>6. \A i \in 1..Len(taken) : taken[i] < id
  BY <1>4, <1>5 DEF RowsInOrder
<1>7. /\ Append(taken, id) \in Seq(Ids)
      /\ Increasing(Append(taken, id))
      /\ \A i \in 1..Len(Append(taken, id)) :
             (i \in 1..Len(taken) /\ Append(taken, id)[i] = taken[i]) \/ Append(taken, id)[i] = id
  BY <1>2, <1>4, <1>5, <1>6, AppendInOrder DEF RowsInOrder
<1> HIDE DEF id
<1>8. \A i \in 1..Len(Append(taken, id)), j \in 1..Len(Tail(table)) :
          Append(taken, id)[i] < Tail(table)[j]
  BY <1>4, <1>5, <1>7 DEF RowsInOrder
<1>9. /\ \A i \in 1..Len(Tail(table)) : Tail(table)[i] <= lastId
      /\ \A i \in 1..Len(Append(taken, id)) : Append(taken, id)[i] <= lastId
  BY <1>4, <1>5, <1>7 DEF RowsInOrder
<1>10. RowsInOrder'
  BY <1>3, <1>5, <1>7, <1>8, <1>9 DEF RowsInOrder, Increasing, id
<1> QED
  BY <1>1, <1>3, <1>5, <1>7, <1>10 DEF id

LEMMA InsertKeepsOrder ==
    ASSUME StoreInv, NEW c \in Conns, CommitInsert(c)
    PROVE  table' \in Seq(Ids) /\ lastId' \in Nat /\ lastId' > lastId /\ RowsInOrder'
<1>1. table \in Seq(Ids) /\ taken \in Seq(Ids) /\ lastId \in Nat
  BY DEF StoreInv, StoreTyped
<1>2. table' = Append(table, lastId + 1) /\ lastId' = lastId + 1 /\ taken' = taken
  BY DEF CommitInsert
<1>3. RowsInOrder
  BY DEF StoreInv
<1> DEFINE id == lastId + 1
<1>4. id \in Ids /\ lastId < id
  BY <1>1 DEF Ids, NoRow
<1>5. /\ \A i \in 1..Len(table) : table[i] \in Ids /\ table[i] < id
      /\ \A i \in 1..Len(taken) : taken[i] \in Ids /\ taken[i] < id
  BY <1>1, <1>3, <1>4 DEF RowsInOrder, Ids
<1>6. /\ Append(table, id) \in Seq(Ids)
      /\ Increasing(Append(table, id))
      /\ \A i \in 1..Len(Append(table, id)) :
             (i \in 1..Len(table) /\ Append(table, id)[i] = table[i]) \/ Append(table, id)[i] = id
  BY <1>1, <1>3, <1>4, <1>5, AppendInOrder DEF RowsInOrder
<1>7. /\ \A i \in 1..Len(taken), j \in 1..Len(Append(table, id)) : taken[i] < Append(table, id)[j]
      /\ \A i \in 1..Len(Append(table, id)) : Append(table, id)[i] <= id
      /\ \A i \in 1..Len(taken) : taken[i] <= id
  <2>1. /\ id \in Nat
        /\ \A i \in 1..Len(table) : table[i] \in Nat /\ table[i] < id
        /\ \A i \in 1..Len(taken) : taken[i] \in Nat /\ taken[i] < id
    BY <1>4, <1>5 DEF Ids
  <2> HIDE DEF id
  <2>2. \A i \in 1..Len(taken), j \in 1..Len(table) : taken[i] < table[j]
    BY <1>3 DEF RowsInOrder
  <2>3. \A i \in 1..Len(taken), j \in 1..Len(Append(table, id)) : taken[i] < Append(table, id)[j]
    <3> TAKE i \in 1..Len(taken), j \in 1..Len(Append(table, id))
    <3>1. CASE j \in 1..Len(table) /\ Append(table, id)[j] = table[j]
      BY <3>1, <2>2
    <3>2. CASE Append(table, id)[j] = id
      BY <3>2, <2>1
    <3> QED
      BY <3>1, <3>2, <1>6
  <2>4. \A i \in 1..Len(Append(table, id)) : Append(table, id)[i] <= id
    BY <1>6, <2>1
  <2>5. \A i \in 1..Len(taken) : taken[i] <= id
    BY <2>1
  <2> QED
    BY <2>3, <2>4, <2>5
<1>8. RowsInOrder'
  <2>1. table' = Append(table, id) /\ lastId' = id /\ taken' = taken
    BY <1>2
  <2> HIDE DEF id
  <2> QED
    BY <2>1, <1>3, <1>6, <1>7, Zenon DEF RowsInOrder, Increasing
<1> QED
  BY <1>1, <1>2, <1>4, <1>6, <1>8 DEF Ids

\* Steps that change no row keep their order.
LEMMA RowsStay == ASSUME RowsInOrder, UNCHANGED <<table, taken, lastId>> PROVE RowsInOrder'
  BY DEF RowsInOrder, Increasing

LEMMA InitStore == Init => StoreInv
<1> SUFFICES ASSUME Init PROVE StoreInv
  OBVIOUS
<1>1. StoreTyped
  BY StoreAssumption DEF Init, StoreTyped, Statements, Locks, NoRow
<1>2. RowsInOrder
  <2>1. table = <<>> /\ taken = <<>> /\ \A i \in 1..Len(<<>>) : FALSE
    BY DEF Init
  <2> QED
    BY <2>1, Zenon DEF RowsInOrder, Increasing
<1>3. LocksMatch
  BY DEF Init, LocksMatch, LockFits, Writing
<1>4. TransactionFits /\ PickedIsOldest
  BY DEF Init, TransactionFits, PickedIsOldest, NoRow
<1> QED
  BY <1>1, <1>2, <1>3, <1>4 DEF StoreInv

\* A statement that fails hands its call to rollback(), or ends it.
LEMMA FailKeepsStore == ASSUME StoreInv, NEW c \in Conns, Fail(c) PROVE StoreInv'
<1> USE DEF StoreInv, StoreTyped, Fail, GoTo, Hold
<1>1. StoreTyped'
  BY DEF Statements, Locks
<1>2. /\ pc'[c] \in {"rollback", "return"}
      /\ pc'[c] = "rollback" <=> pc[c] \in {"select", "delete", "commitTake"}
      /\ pc'[c] = "rollback" => lock' = lock
      /\ pc'[c] = "return" => lock'[c] = "none"
      /\ \A d \in Conns \ {c} : pc'[d] = pc[d] /\ lock'[d] = lock[d]
      /\ UNCHANGED <<table, lastId, inTransaction, picked>>
  OBVIOUS
<1>3. LocksMatch'
  BY <1>2 DEF LocksMatch, LockFits, Writing
<1>4. TransactionFits'
  BY <1>2 DEF TransactionFits
<1>5. PickedIsOldest'
  BY <1>2 DEF PickedIsOldest
<1> QED
  BY <1>1, <1>3, <1>4, <1>5, RowsStay

LEMMA NextStore == StoreInv /\ [Next]_vars => StoreInv'
<1> SUFFICES ASSUME StoreInv, [Next]_vars PROVE StoreInv'
  OBVIOUS
<1> USE StoreAssumption DEF StoreInv, GoTo, Hold
<1>1. ASSUME NEW c \in Conns, BeginTake(c) \/ BeginInsert(c) \/ BeginQuery(c) PROVE StoreInv'
  <2> USE <1>1 DEF BeginTake, BeginInsert, BeginQuery, StoreTyped
  <2>1. StoreTyped'
    BY DEF Statements, Locks
  <2>2. /\ pc[c] = "idle" /\ pc'[c] \in {"select", "insert", "query"}
        /\ inTransaction'[c] <=> pc'[c] = "select"
        /\ \A d \in Conns \ {c} : pc'[d] = pc[d] /\ inTransaction'[d] = inTransaction[d]
        /\ UNCHANGED <<table, lastId, lock, picked>>
    BY DEF TransactionFits
  <2>3. LocksMatch'
    BY <2>2 DEF LocksMatch, LockFits, Writing
  <2>4. TransactionFits'
    BY <2>2 DEF TransactionFits
  <2>5. PickedIsOldest'
    BY <2>2 DEF PickedIsOldest
  <2> QED
    BY <2>1, <2>3, <2>4, <2>5, RowsStay
<1>2. ASSUME NEW c \in Conns, SelectOldest(c) PROVE StoreInv'
  <2> USE <1>2 DEF SelectOldest, StoreTyped
  <2>1. table # <<>> => Len(table) >= 1 /\ Head(table) = table[1] /\ Head(table) \in Nat
    BY DEF Ids
  <2>2. table # <<>> => Head(table) <= lastId
    BY <2>1 DEF RowsInOrder
  <2>3. StoreTyped'
    BY <2>1 DEF Statements, Locks
  <2>4. /\ pc[c] = "select" /\ lock'[c] = "shared"
        /\ \/ table = <<>> /\ pc'[c] = "rollback" /\ picked'[c] = picked[c]
           \/ table # <<>> /\ pc'[c] = "delete" /\ picked'[c] = Head(table)
        /\ \A d \in Conns \ {c} : pc'[d] = pc[d] /\ lock'[d] = lock[d] /\ picked'[d] = picked[d]
        /\ UNCHANGED <<table, lastId, inTransaction>>
    OBVIOUS
  <2>5. LocksMatch'
    BY <2>4 DEF LocksMatch, LockFits, Writing
  <2>6. TransactionFits'
    <3>1. inTransaction'[c] /\ pc'[c] \in {"delete", "rollback"}
      BY <2>4 DEF TransactionFits
    <3> QED
      BY <2>4, <3>1 DEF TransactionFits
  <2>7. PickedIsOldest'
    BY <2>2, <2>4 DEF PickedIsOldest
  <2> QED
    BY <2>3, <2>5, <2>6, <2>7, RowsStay
<1>3. ASSUME NEW c \in Conns,
             \/ CanReserve(c) /\ (DeleteOldest(c) \/ InsertRow(c))
             \/ AwaitReaders(c)
      PROVE  StoreInv'
  <2> USE <1>3 DEF DeleteOldest, InsertRow, AwaitReaders, StoreTyped
  <2>1. StoreTyped'
    BY DEF Statements, Locks
  <2>2. /\ lock'[c] \in {"reserved", "pending"} /\ pc'[c] \in {"commitTake", "commitInsert"}
        /\ pc'[c] = "commitTake" <=> pc[c] \in {"delete", "commitTake"}
        /\ pc[c] \in {"delete", "insert", "commitTake", "commitInsert"}
        /\ \A d \in Conns \ {c} : pc'[d] = pc[d] /\ lock'[d] = lock[d]
        /\ UNCHANGED <<table, lastId, inTransaction, picked>>
    BY DEF Statements
  <2>3. \A d \in Conns \ {c} : ~Writing(d)
    BY DEF CanReserve, Writing, LocksMatch
  <2>4. LocksMatch'
    <3>1. LockFits(c)' /\ \A d \in Conns \ {c} : LockFits(d)' /\ ~Writing(d)'
      BY <2>2, <2>3 DEF LocksMatch, LockFits, Writing
    <3> QED
      BY <3>1 DEF LocksMatch
  <2>5. TransactionFits'
    BY <2>2 DEF TransactionFits
  <2>6. PickedIsOldest'
    BY <2>2 DEF PickedIsOldest
  <2> QED
    BY <2>1, <2>4, <2>5, <2>6, RowsStay
<1>4. ASSUME NEW c \in Conns, CommitTake(c) \/ CommitInsert(c) PROVE StoreInv'
  <2>1. /\ CanExclude(c) /\ UNCHANGED <<picked, crashes>> /\ pc[c] \in {"commitTake", "commitInsert"}
        /\ pc'[c] = "return" /\ lock'[c] \in {"none", "shared"} /\ ~inTransaction'[c]
        /\ \A d \in Conns \ {c} : /\ pc'[d] = pc[d] /\ lock'[d] = lock[d]
                                  /\ inTransaction'[d] = inTransaction[d]
        /\ pc' \in [Conns -> Statements] /\ lock' \in [Conns -> Locks]
        /\ inTransaction' \in [Conns -> BOOLEAN]
    BY <1>4 DEF CommitTake, CommitInsert, LockOfOpenSelect, StoreTyped, Statements, Locks,
                TransactionFits
  <2>2. /\ table' \in Seq(Ids) /\ taken' \in Seq(Ids) /\ lastId' \in Nat /\ lastId' >= lastId
        /\ RowsInOrder'
    <3>1. CASE CommitTake(c)
      <4>1. lastId' = lastId
        BY <3>1 DEF CommitTake
      <4> QED
        BY <3>1, <4>1, TakeKeepsOrder DEF StoreTyped
    <3>2. CASE CommitInsert(c)
      <4>1. taken' = taken /\ lastId' = lastId + 1
        BY <3>2 DEF CommitInsert
      <4> QED
        BY <3>2, <4>1, InsertKeepsOrder DEF StoreTyped
    <3> QED
      BY <1>4, <3>1, <3>2
  <2>3. StoreTyped'
    BY <2>1, <2>2 DEF StoreTyped
  <2>4. \A d \in Conns \ {c} : lock[d] = "none" /\ pc[d] \notin {"delete", "commitTake", "commitInsert"}
    BY <2>1, AloneAtCommit
  <2>5. LocksMatch'
    BY <2>1, <2>4 DEF LocksMatch, LockFits, Writing
  <2>6. TransactionFits'
    BY <2>1 DEF TransactionFits
  <2>7. PickedIsOldest'
    <3>1. \A d \in Conns : picked'[d] <= lastId'
      BY <2>1, <2>2 DEF PickedIsOldest, StoreTyped
    <3>2. \A d \in Conns : /\ pc'[d] \notin {"delete", "commitTake"}
                           /\ d # c => pc'[d] = pc[d]
      BY <2>1, <2>4
    <3> QED
      BY <2>1, <3>1, <3>2 DEF PickedIsOldest
  <2> QED
    BY <2>2, <2>3, <2>5, <2>6, <2>7
<1>5. ASSUME NEW c \in Conns, Rollback(c) PROVE StoreInv'
  <2> USE <1>5 DEF Rollback, StoreTyped
  <2>1. StoreTyped'
    BY DEF Statements, Locks, LockOfOpenSelect
  <2>2. /\ pc'[c] = "return" /\ ~inTransaction'[c] /\ lock'[c] \in {"none", "shared"}
        /\ \A d \in Conns \ {c} : /\ pc'[d] = pc[d] /\ lock'[d] = lock[d]
                                  /\ inTransaction'[d] = inTransaction[d]
        /\ UNCHANGED <<table, lastId, picked>>
    BY DEF LockOfOpenSelect
  <2>3. LocksMatch'
    BY <2>2 DEF LocksMatch, LockFits, Writing
  <2>4. TransactionFits' /\ PickedIsOldest'
    BY <2>2 DEF TransactionFits, PickedIsOldest
  <2> QED
    BY <2>1, <2>3, <2>4, RowsStay
<1>10. ASSUME NEW c \in Conns, Return(c) PROVE StoreInv'
  <2> USE <1>10 DEF Return, StoreTyped
  <2>1. ~inTransaction[c]
    BY DEF TransactionFits
  <2>2. StoreTyped'
    BY <2>1 DEF Statements, Locks, NoRow
  <2>3. /\ pc'[c] = "idle" /\ lock'[c] = "none" /\ picked'[c] = NoRow
        /\ \A d \in Conns \ {c} : pc'[d] = pc[d] /\ lock'[d] = lock[d] /\ picked'[d] = picked[d]
        /\ UNCHANGED <<table, lastId, inTransaction>>
    BY <2>1
  <2>4. LocksMatch'
    BY <2>3 DEF LocksMatch, LockFits, Writing
  <2>5. TransactionFits'
    BY <2>1, <2>3 DEF TransactionFits
  <2>6. PickedIsOldest'
    <3>1. picked'[c] <= lastId'
      BY <2>3 DEF NoRow
    <3> QED
      BY <2>3, <3>1 DEF PickedIsOldest
  <2> QED
    BY <2>2, <2>4, <2>5, <2>6, RowsStay
<1>6. ASSUME NEW c \in Conns, RunQuery(c) PROVE StoreInv'
  <2> USE <1>6 DEF RunQuery, StoreTyped
  <2>1. StoreTyped'
    BY DEF Statements, Locks
  <2>2. /\ pc[c] = "query" /\ pc'[c] = "return" /\ lock'[c] = "shared"
        /\ \A d \in Conns \ {c} : pc'[d] = pc[d] /\ lock'[d] = lock[d]
        /\ UNCHANGED <<table, lastId, inTransaction, picked>>
    OBVIOUS
  <2>3. LocksMatch'
    BY <2>2 DEF LocksMatch, LockFits, Writing
  <2>4. TransactionFits' /\ PickedIsOldest'
    BY <2>2 DEF TransactionFits, PickedIsOldest
  <2> QED
    BY <2>1, <2>3, <2>4, RowsStay
<1>7. ASSUME NEW c \in Conns, \/ BusyTimeout(c) \/ StatementFails(c)
                              \/ DeleteOldest(c) /\ ~CanReserve(c)
      PROVE  StoreInv'
  BY <1>7, FailKeepsStore DEF BusyTimeout, StatementFails, DeleteOldest
<1>8. CASE Crash
  <2> USE <1>8 DEF Crash, StoreTyped
  <2>1. StoreTyped'
    BY DEF Statements, Locks, NoRow
  <2>2. LocksMatch' /\ TransactionFits' /\ PickedIsOldest'
    BY DEF LocksMatch, LockFits, Writing, TransactionFits, PickedIsOldest, NoRow
  <2> QED
    BY <2>1, <2>2, RowsStay
<1>9. CASE UNCHANGED vars
  <2> USE <1>9 DEF vars
  <2>1. StoreTyped'
    BY DEF StoreTyped
  <2>2. LocksMatch'
    BY DEF LocksMatch, LockFits, Writing
  <2>3. TransactionFits' /\ PickedIsOldest'
    BY DEF TransactionFits, PickedIsOldest
  <2> QED
    BY <2>1, <2>2, <2>3, RowsStay
<1>11. ASSUME NEW c \in Conns, DeleteOldest(c) \/ InsertRow(c) PROVE StoreInv'
  BY <1>3, <1>7, <1>11 DEF InsertRow
<1> HIDE DEF StoreInv, GoTo, Hold
<1> QED
  BY <1>1, <1>2, <1>3, <1>4, <1>5, <1>6, <1>7, <1>8, <1>9, <1>10, <1>11 DEF Next, Proceed

LEMMA StoreInvariant == Spec => []StoreInv
  BY InitStore, NextStore, PTL DEF Spec

-----------------------------------------------------------------------------
\* takeOldestEntryFromNotSentTable hands out no row twice, nor one that stays in the
\* table, for any number of connections and crashes.
THEOREM TakesOnce == Spec => []TakenOnce
<1>1. StoreInv => TakenOnce
  <2> SUFFICES ASSUME StoreInv PROVE TakenOnce
    OBVIOUS
  <2>1. /\ taken \in Seq(Ids) /\ table \in Seq(Ids)
        /\ RowsInOrder
    BY DEF StoreInv, StoreTyped
  <2>2. /\ DOMAIN taken = 1..Len(taken) /\ Len(taken) \in Nat
        /\ DOMAIN table = 1..Len(table)
        /\ \A i \in 1..Len(taken) : taken[i] \in Nat
        /\ \A i \in 1..Len(table) : table[i] \in Nat
    BY <2>1 DEF Ids
  <2>3. \A i, j \in 1..Len(taken) : i < j \/ j < i \/ i = j
    BY <2>2
  <2>4. IsInjective(taken)
    BY <2>1, <2>2, <2>3 DEF IsInjective, RowsInOrder, Increasing
  <2>5. ToSet(taken) \cap ToSet(table) = {}
    BY <2>1, <2>2 DEF ToSet, RowsInOrder
  <2> QED
    BY <2>4, <2>5 DEF TakenOnce
<1> QED
  BY <1>1, StoreInvariant, PTL

\* Every way out of a call of SQLiteConnection, through its COMMIT or through one of
\* its four rollback() calls, leaves no transaction open and no lock behind.
THEOREM NoLockLeftBehind == Spec => []IdleHoldsNoLock
<1>1. StoreInv => IdleHoldsNoLock
  BY DEF StoreInv, LocksMatch, LockFits, TransactionFits, IdleHoldsNoLock
<1> QED
  BY <1>1, StoreInvariant, PTL

\* What the worker and the service rely on: a call of SQLiteConnection changes the
\* table in one step, at its end, by its oldest row or a new last one.
THEOREM QueueIsAtomic == Spec => AtomicQueue
<1> DEFINE Atomic == \/ UNCHANGED <<table, taken>>
                     \/ table # <<>> /\ table' = Tail(table) /\ taken' = Append(taken, Head(table))
                     \/ table' = Append(table, lastId') /\ lastId' > lastId /\ UNCHANGED taken
<1>1. StoreInv /\ [Next]_vars => [Atomic]_vars
  <2> SUFFICES ASSUME StoreInv, Next PROVE Atomic
    OBVIOUS
  <2>1. ASSUME NEW c \in Conns, CommitTake(c) PROVE Atomic
    BY <2>1, TakeKeepsOrder
  <2>2. ASSUME NEW c \in Conns, CommitInsert(c) PROVE Atomic
    BY <2>2, InsertKeepsOrder DEF CommitInsert
  <2>3. ASSUME NEW c \in Conns,
               \/ BeginTake(c) \/ BeginInsert(c) \/ BeginQuery(c) \/ SelectOldest(c)
               \/ DeleteOldest(c) \/ AwaitReaders(c) \/ InsertRow(c) \/ RunQuery(c)
               \/ Rollback(c) \/ Return(c) \/ BusyTimeout(c) \/ StatementFails(c)
        PROVE  UNCHANGED <<table, taken>>
    BY <2>3 DEF BeginTake, BeginInsert, BeginQuery, SelectOldest, DeleteOldest, AwaitReaders,
                InsertRow, RunQuery, Rollback, Return, BusyTimeout, StatementFails, Fail
  <2>4. CASE Crash
    BY <2>4 DEF Crash
  <2> QED
    BY <2>1, <2>2, <2>3, <2>4 DEF Next, Proceed
<1> QED
  BY <1>1, StoreInvariant, PTL DEF Spec, AtomicQueue

-----------------------------------------------------------------------------
(* The bound on the ids: BeginInsert looks at lastId and CommitInsert adds *)
(* to it later, so each insert under way may go past MaxRows by one.       *)

Inserting == {c \in Conns : pc[c] \in {"insert", "commitInsert"}}
RoomForInserts == lastId + Cardinality(Inserting) <= MaxRows + Cardinality(Conns)

LEMMA InsertingCounted ==
    /\ IsFiniteSet(Inserting) /\ Cardinality(Inserting) \in Nat
    /\ Cardinality(Conns) \in Nat /\ Cardinality(Inserting) <= Cardinality(Conns)
<1>1. Inserting \in SUBSET Conns
  BY DEF Inserting
<1> QED
  BY <1>1, FS_Subset, FS_CardinalityType, StoreAssumption

\* A connection can only leave the inserts without a commit.
LEMMA FewerInserting ==
    ASSUME RoomForInserts, lastId \in Nat, lastId' = lastId,
           \A c \in Conns : pc'[c] \in {"insert", "commitInsert"} => c \in Inserting
    PROVE  RoomForInserts'
<1>1. Inserting' \in SUBSET Inserting
  BY DEF Inserting
<1>2. Cardinality(Inserting') <= Cardinality(Inserting) /\ Cardinality(Inserting') \in Nat
  BY <1>1, InsertingCounted, FS_Subset, FS_CardinalityType
<1> QED
  BY <1>2, InsertingCounted, StoreAssumption DEF RoomForInserts

LEMMA InitRoom == Init => RoomForInserts
<1> SUFFICES ASSUME Init PROVE RoomForInserts
  OBVIOUS
<1>1. lastId = 0
  BY DEF Init
<1> QED
  BY <1>1, InsertingCounted, StoreAssumption DEF RoomForInserts

LEMMA NextRoom == StoreInv /\ RoomForInserts /\ [Next]_vars => RoomForInserts'
<1> SUFFICES ASSUME StoreInv, RoomForInserts, [Next]_vars PROVE RoomForInserts'
  OBVIOUS
<1>1. lastId \in Nat /\ pc \in [Conns -> Statements]
  BY DEF StoreInv, StoreTyped
<1>2. ASSUME NEW c \in Conns, BeginInsert(c) PROVE RoomForInserts'
  <2>1. Inserting' \in SUBSET Conns
    BY DEF Inserting
  <2>2. Cardinality(Inserting') <= Cardinality(Conns) /\ Cardinality(Inserting') \in Nat
    BY <2>1, StoreAssumption, FS_Subset, FS_CardinalityType
  <2>3. lastId' = lastId /\ lastId < MaxRows
    BY <1>2 DEF BeginInsert
  <2> QED
    BY <1>1, <2>2, <2>3, InsertingCounted, StoreAssumption DEF RoomForInserts
<1>3. ASSUME NEW c \in Conns, CommitInsert(c) PROVE RoomForInserts'
  <2>1. c \in Inserting /\ lastId' = lastId + 1 /\ pc' = [pc EXCEPT ![c] = "return"]
    BY <1>3 DEF CommitInsert, GoTo, Inserting
  <2>2. Inserting' = Inserting \ {c}
    BY <1>1, <2>1 DEF Inserting
  <2>3. Cardinality(Inserting \ {c}) = Cardinality(Inserting) - 1
    BY <2>1, InsertingCounted, FS_RemoveElement
  <2>4. Cardinality(Inserting') = Cardinality(Inserting) - 1
    BY <2>2, <2>3
  <2> QED
    BY <1>1, <2>1, <2>4, InsertingCounted, StoreAssumption DEF RoomForInserts
<1>4. ASSUME NEW c \in Conns,
             \/ BeginTake(c) \/ BeginQuery(c) \/ SelectOldest(c) \/ DeleteOldest(c)
             \/ AwaitReaders(c) \/ CommitTake(c) \/ InsertRow(c) \/ RunQuery(c)
             \/ Rollback(c) \/ Return(c) \/ BusyTimeout(c) \/ StatementFails(c)
      PROVE  RoomForInserts'
  <2>1. lastId' = lastId
    BY <1>4 DEF BeginTake, BeginQuery, SelectOldest, DeleteOldest, AwaitReaders, CommitTake,
                InsertRow, RunQuery, Rollback, Return, BusyTimeout, StatementFails, Fail
  <2>2. /\ pc'[c] \in {"insert", "commitInsert"} => c \in Inserting
        /\ \A d \in Conns \ {c} : pc'[d] = pc[d]
    BY <1>1, <1>4 DEF BeginTake, BeginQuery, SelectOldest, DeleteOldest, AwaitReaders, CommitTake,
                InsertRow, RunQuery, Rollback, Return, BusyTimeout, StatementFails, Fail, GoTo, Inserting
  <2> QED
    BY <1>1, <2>1, <2>2, FewerInserting DEF Inserting
<1>5. CASE Crash \/ UNCHANGED vars
  <2>1. /\ lastId' = lastId
        /\ \A c \in Conns : pc'[c] \in {"insert", "commitInsert"} => c \in Inserting
    BY <1>5 DEF Crash, vars, Inserting
  <2> QED
    BY <1>1, <2>1, FewerInserting
<1> QED
  BY <1>2, <1>3, <1>4, <1>5 DEF Next, Proceed

\* What is taken from the table or read by a take has the id of a row once inserted.
LEMMA BoundedIds ==
    ASSUME NEW s \in Seq(Ids), NEW n \in Nat, \A i \in 1..Len(s) : s[i] <= n
    PROVE  s \in Seq(1..n)
<1>1. \A i \in 1..Len(s) : s[i] \in 1..n
  BY DEF Ids, NoRow
<1> QED
  BY <1>1

\* Every variable keeps its type, and no id goes past what MaxRows allows.
THEOREM StoreTypes == Spec => []TypeOK
<1>1. StoreInv /\ RoomForInserts => TypeOK
  <2> SUFFICES ASSUME StoreInv, RoomForInserts PROVE TypeOK
    OBVIOUS
  <2> DEFINE n == MaxRows + Cardinality(Conns)
  <2>1. StoreTyped /\ RowsInOrder /\ PickedIsOldest
    BY DEF StoreInv
  <2>2. n \in Nat /\ lastId \in Nat /\ lastId <= n
    BY <2>1, InsertingCounted, StoreAssumption DEF RoomForInserts, StoreTyped
  <2> HIDE DEF n
  <2>3. /\ table \in Seq(Ids) /\ taken \in Seq(Ids)
        /\ \A i \in 1..Len(table) : table[i] <= n
        /\ \A i \in 1..Len(taken) : taken[i] <= n
    <3>1. /\ \A i \in 1..Len(table) : table[i] <= lastId /\ table[i] \in Nat
          /\ \A i \in 1..Len(taken) : taken[i] <= lastId /\ taken[i] \in Nat
      BY <2>1 DEF StoreTyped, RowsInOrder, Ids
    <3> QED
      BY <2>1, <2>2, <3>1 DEF StoreTyped
  <2>4. table \in Seq(1..n) /\ taken \in Seq(1..n)
    BY <2>2, <2>3, BoundedIds
  <2>5. \A c \in Conns : picked[c] \in 0..n
    BY <2>1, <2>2 DEF StoreTyped, PickedIsOldest
  <2>6. picked \in [Conns -> 0..n]
    BY <2>1, <2>5 DEF StoreTyped
  <2> QED
    BY <2>1, <2>2, <2>4, <2>6 DEF TypeOK, StoreTyped, n
<1> QED
  BY <1>1, StoreInvariant, InitRoom, NextRoom, PTL DEF Spec
=============================================================================
