-------------------------- MODULE SqliteConnection --------------------------
(***************************************************************************)
(* The connections of core/storage/sqliteconnection.cpp working on one     *)
(* table, statement by statement: takeOldestEntryFromNotSentTable as its   *)
(* transaction with its four rollback() exits (takeOldestEntryFromSentTable*)
(* is the same on the other table), an insert, and the queries of the      *)
(* statistics. SQLite is external: its file locks, in the rollback journal *)
(* mode the code leaves in force. A lock lasts as long as the transaction, *)
(* or, outside one, as the statement that needs it. A statement that cannot*)
(* have its lock waits in the busy handler, except when it would upgrade a *)
(* transaction that has already read, where SQLite reports busy at once.   *)
(***************************************************************************)
EXTENDS Naturals, Sequences, SequencesExt

CONSTANTS Conns,          \* the connections: service, worker, controller
          MaxRows,        \* bound: rows inserted in a behaviour
          MaxCrashes,     \* bound: ends of the process
          IoFaults        \* whether a statement may fail by itself

ASSUME StoreAssumption == /\ IsFiniteSet(Conns)
                          /\ MaxRows \in Nat
                          /\ MaxCrashes \in Nat
                          /\ IoFaults \in BOOLEAN

VARIABLES table,          \* committed rows, by increasing id
          lastId,         \* AUTOINCREMENT: the largest id ever committed
          taken,          \* rows taken from the table, in order (history)
          pc,             \* statement each connection is about to run
          inTransaction,  \* whether its BEGIN has not met a COMMIT or ROLLBACK
          lock,           \* the file lock each connection holds
          picked,         \* id its SELECT, open until the call returns, has read
          crashes

vars == <<table, lastId, taken, pc, inTransaction, lock, picked, crashes>>

NoRow == 0
Statements == {"idle", "select", "delete", "commitTake", "rollback",
               "insert", "commitInsert", "query", "return"}
Locks == {"none", "shared", "reserved", "pending"}

Init == /\ table = <<>>
        /\ lastId = 0
        /\ taken = <<>>
        /\ pc = [c \in Conns |-> "idle"]
        /\ inTransaction = [c \in Conns |-> FALSE]
        /\ lock = [c \in Conns |-> "none"]
        /\ picked = [c \in Conns |-> NoRow]
        /\ crashes = 0

(***************************************************************************)
(* SQLite's locks (external).                                              *)
(***************************************************************************)
CanShare(c) == \A d \in Conns \ {c} : lock[d] # "pending"
CanReserve(c) == \A d \in Conns \ {c} : lock[d] \in {"none", "shared"}
CanExclude(c) == \A d \in Conns \ {c} : lock[d] = "none"

\* What a transaction that ends leaves c: a SELECT still open goes on reading.
LockOfOpenSelect(c) == IF picked[c] = NoRow THEN "none" ELSE "shared"

GoTo(c, statement) == pc' = [pc EXCEPT ![c] = statement]
Hold(c, l) == lock' = [lock EXCEPT ![c] = l]

(***************************************************************************)
(* takeOldestEntryFromNotSentTable                                         *)
(***************************************************************************)
\* transaction(): a deferred BEGIN takes no lock yet. Within a transaction left
\* open it fails, and the call throws and changes nothing.
BeginTake(c) ==
    /\ pc[c] = "idle" /\ ~inTransaction[c]
    /\ inTransaction' = [inTransaction EXCEPT ![c] = TRUE]
    /\ GoTo(c, "select")
    /\ UNCHANGED <<table, lastId, taken, lock, picked, crashes>>

\* Mutant: the SELECT runs outside the transaction and keeps no lock.
SelectUnlocked(c) ==
    /\ pc[c] = "select" /\ CanShare(c)
    /\ IF table = <<>>
       THEN GoTo(c, "rollback") /\ UNCHANGED picked
       ELSE GoTo(c, "delete") /\ picked' = [picked EXCEPT ![c] = Head(table)]
    /\ UNCHANGED <<table, lastId, taken, inTransaction, lock, crashes>>
\* Mutant: the id is read before next() has stepped to the row.
SelectUnpositioned(c) ==
    /\ pc[c] = "select" /\ CanShare(c)
    /\ Hold(c, "shared")
    /\ IF table = <<>> THEN GoTo(c, "rollback") ELSE GoTo(c, "delete")
    /\ UNCHANGED <<table, lastId, taken, inTransaction, picked, crashes>>
SelectOldest(c) ==
    /\ pc[c] = "select" /\ CanShare(c)
    /\ Hold(c, "shared")
    /\ IF table = <<>>
       THEN GoTo(c, "rollback") /\ UNCHANGED picked
       ELSE GoTo(c, "delete") /\ picked' = [picked EXCEPT ![c] = Head(table)]
    /\ UNCHANGED <<table, lastId, taken, inTransaction, crashes>>

\* Mutant: a failed DELETE throws without a rollback.
FailUnrolled(c) ==
    /\ \/ pc[c] \in {"select", "commitTake"} /\ GoTo(c, "rollback") /\ UNCHANGED lock
       \/ pc[c] = "delete" /\ GoTo(c, "return") /\ UNCHANGED lock
       \/ pc[c] \in {"insert", "commitInsert", "query"} /\ GoTo(c, "return") /\ Hold(c, "none")
    /\ UNCHANGED <<table, lastId, taken, inTransaction, picked, crashes>>
\* The statement c runs reports an error. Each one of a take is followed by
\* rollback(); the others are transactions of their own, which SQLite ends.
Fail(c) ==
    /\ \/ pc[c] \in {"select", "delete", "commitTake"} /\ GoTo(c, "rollback") /\ UNCHANGED lock
       \/ pc[c] \in {"insert", "commitInsert", "query"} /\ GoTo(c, "return") /\ Hold(c, "none")
    /\ UNCHANGED <<table, lastId, taken, inTransaction, picked, crashes>>

\* Mutant: the DELETE is retried until it gets its lock.
DeleteRetried(c) ==
    /\ pc[c] = "delete" /\ CanReserve(c)
    /\ Hold(c, "reserved")
    /\ GoTo(c, "commitTake")
    /\ UNCHANGED <<table, lastId, taken, inTransaction, picked, crashes>>
\* The transaction has read, so the busy timeout does not apply: when another
\* connection is writing, the DELETE fails at once.
DeleteOldest(c) ==
    /\ pc[c] = "delete"
    /\ IF CanReserve(c)
       THEN /\ Hold(c, "reserved")
            /\ GoTo(c, "commitTake")
            /\ UNCHANGED <<table, lastId, taken, inTransaction, picked, crashes>>
       ELSE Fail(c)

\* A commit first keeps new readers out, then waits for the present ones.
AwaitReaders(c) ==
    /\ pc[c] \in {"commitTake", "commitInsert"}
    /\ ~CanExclude(c)
    /\ lock[c] = "reserved"
    /\ Hold(c, "pending")
    /\ UNCHANGED <<table, lastId, taken, pc, inTransaction, picked, crashes>>

CommitTake(c) ==
    /\ pc[c] = "commitTake" /\ CanExclude(c)
    /\ table' = RemoveFirst(table, picked[c])            \* the one row with this id
    /\ taken' = Append(taken, picked[c])
    /\ inTransaction' = [inTransaction EXCEPT ![c] = FALSE]
    /\ Hold(c, LockOfOpenSelect(c))
    /\ GoTo(c, "return")
    /\ UNCHANGED <<lastId, picked, crashes>>

\* rollback(), whose result the code does not look at. SQLite is left outside a
\* transaction even when it reports that the failed statement had ended it.
Rollback(c) ==
    /\ pc[c] = "rollback"
    /\ inTransaction' = [inTransaction EXCEPT ![c] = FALSE]
    /\ Hold(c, LockOfOpenSelect(c))
    /\ GoTo(c, "return")
    /\ UNCHANGED <<table, lastId, taken, picked, crashes>>

\* The call returns or throws, which destroys its QSqlQuery objects. Only a
\* transaction still open keeps the lock.
Return(c) ==
    /\ pc[c] = "return"
    /\ picked' = [picked EXCEPT ![c] = NoRow]
    /\ IF inTransaction[c] THEN UNCHANGED lock ELSE Hold(c, "none")
    /\ GoTo(c, "idle")
    /\ UNCHANGED <<table, lastId, taken, inTransaction, crashes>>

(***************************************************************************)
(* addEntryToNotSentTable, and the 24-hour queries                         *)
(***************************************************************************)
BeginInsert(c) ==
    /\ pc[c] = "idle" /\ lastId < MaxRows
    /\ GoTo(c, "insert")
    /\ UNCHANGED <<table, lastId, taken, inTransaction, lock, picked, crashes>>

InsertRow(c) ==
    /\ pc[c] = "insert" /\ CanReserve(c)
    /\ Hold(c, "reserved")
    /\ GoTo(c, "commitInsert")
    /\ UNCHANGED <<table, lastId, taken, inTransaction, picked, crashes>>

\* Mutant: the rowid of an emptied table starts again (no AUTOINCREMENT).
CommitInsertReusing(c) ==
    /\ pc[c] = "commitInsert" /\ CanExclude(c)
    /\ lastId' = lastId + 1
    /\ table' = Append(table, IF table = <<>> THEN 1 ELSE table[Len(table)] + 1)
    /\ Hold(c, "none")
    /\ GoTo(c, "return")
    /\ UNCHANGED <<taken, inTransaction, picked, crashes>>
\* The INSERT commits by itself as it ends.
CommitInsert(c) ==
    /\ pc[c] = "commitInsert" /\ CanExclude(c)
    /\ lastId' = lastId + 1
    /\ table' = Append(table, lastId + 1)
    /\ Hold(c, "none")
    /\ GoTo(c, "return")
    /\ UNCHANGED <<taken, inTransaction, picked, crashes>>

BeginQuery(c) ==
    /\ pc[c] = "idle"
    /\ GoTo(c, "query")
    /\ UNCHANGED <<table, lastId, taken, inTransaction, lock, picked, crashes>>

\* countEntries... and sumHttpSize...: the row is read before the call returns.
RunQuery(c) ==
    /\ pc[c] = "query" /\ CanShare(c)
    /\ Hold(c, "shared")
    /\ GoTo(c, "return")
    /\ UNCHANGED <<table, lastId, taken, inTransaction, picked, crashes>>

(***************************************************************************)
(* Failures                                                                *)
(***************************************************************************)
Blocked(c) == \/ pc[c] \in {"select", "query"} /\ ~CanShare(c)
              \/ pc[c] = "insert" /\ ~CanReserve(c)
              \/ pc[c] \in {"commitTake", "commitInsert"} /\ ~CanExclude(c)

\* QSQLITE_BUSY_TIMEOUT has passed.
BusyTimeout(c) == Blocked(c) /\ Fail(c)

StatementFails(c) == IoFaults /\ Fail(c)

\* The process ends; the journal takes back what was not committed.
Crash ==
    /\ crashes < MaxCrashes
    /\ crashes' = crashes + 1
    /\ pc' = [c \in Conns |-> "idle"]
    /\ inTransaction' = [c \in Conns |-> FALSE]
    /\ lock' = [c \in Conns |-> "none"]
    /\ picked' = [c \in Conns |-> NoRow]
    /\ UNCHANGED <<table, lastId, taken>>

\* A step of a call under way.
Proceed(c) == \/ SelectOldest(c)
              \/ DeleteOldest(c)
              \/ AwaitReaders(c)
              \/ CommitTake(c)
              \/ Rollback(c)
              \/ Return(c)
              \/ InsertRow(c)
              \/ CommitInsert(c)
              \/ RunQuery(c)
              \/ BusyTimeout(c)

Next == \/ \E c \in Conns : \/ BeginTake(c) \/ BeginInsert(c) \/ BeginQuery(c)
                            \/ Proceed(c) \/ StatementFails(c)
        \/ Crash

\* Each thread goes on with the call it has begun; no statement has to fail.
Spec == Init /\ [][Next]_vars /\ \A c \in Conns : WF_vars(Proceed(c))

(***************************************************************************)
(* Properties                                                              *)
(***************************************************************************)
TypeOK == /\ table \in Seq(1..MaxRows + Cardinality(Conns))
          /\ lastId \in 0..MaxRows + Cardinality(Conns)
          /\ taken \in Seq(1..MaxRows + Cardinality(Conns))
          /\ pc \in [Conns -> Statements]
          /\ inTransaction \in [Conns -> BOOLEAN]
          /\ lock \in [Conns -> Locks]
          /\ picked \in [Conns -> 0..MaxRows + Cardinality(Conns)]
          /\ crashes \in 0..MaxCrashes

\* No row is handed out twice, and none is handed out while it stays in the
\* table, whatever two connections and a crash do between SELECT and COMMIT.
TakenOnce == /\ IsInjective(taken)
             /\ ToSet(taken) \cap ToSet(table) = {}

\* Every way out of a take, the return of a row or of none and the failure of any
\* of its statements, passes its COMMIT or its rollback(): a transaction that a
\* path forgets would keep the file from the other threads and make every later
\* take of its own connection throw.
IdleHoldsNoLock == \A c \in Conns : pc[c] = "idle" => ~inTransaction[c] /\ lock[c] = "none"

\* The queue the worker relies on: seen from outside, the table only ever loses
\* its oldest row, to the call that returns it, or gains a new last one.
AtomicQueue ==
    [][\/ UNCHANGED <<table, taken>>
       \/ table # <<>> /\ table' = Tail(table) /\ taken' = Append(taken, Head(table))
       \/ table' = Append(table, lastId') /\ lastId' > lastId /\ UNCHANGED taken]_vars

\* No call waits for ever: a reader that wants to write, a writer that waits for
\* readers and a reader that waits for a writer cannot hold each other up.
CallsReturn == \A c \in Conns : pc[c] # "idle" ~> pc[c] = "idle"
=============================================================================
