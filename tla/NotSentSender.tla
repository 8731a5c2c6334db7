--------------------------- MODULE NotSentSender ----------------------------
(***************************************************************************)
(* The worker thread that drains the not_sent table                        *)
(* (core/network/notsentsender.cpp), with the two tables it works on.      *)
(* One action per step of run() between two accesses to state that another *)
(* thread can reach; SendingService.tla adds the thread that owns it.      *)
(***************************************************************************)
EXTENDS Naturals, Sequences, SequencesExt

CONSTANTS MaxSamples,     \* bound: number of samples captured in a behaviour
          Urls,           \* the valid server URLs
          NoUrl,          \* the empty or invalid URL
          DbFaults        \* whether a database call may fail

ASSUME WorkerAssumption == /\ MaxSamples \in Nat
                           /\ NoUrl \notin Urls
                           /\ DbFaults \in BOOLEAN

Samples == 1..MaxSamples
NoRow == 0                \* std::nullopt

VARIABLES notSent,        \* the not_sent table: samples by increasing row id
          sent,           \* the sent table
          received,       \* samples the server has accepted (external)
          dropped,        \* samples no table records any more
          serverUrl,      \* m_serverUrl, of the service and of the worker
          stopRequested,  \* m_stopRequested
          workerPc,       \* where run() is
          url,            \* run()'s local url
          row             \* run()'s local row

tables == <<notSent, sent, dropped>>
workerVars == <<tables, received, serverUrl, stopRequested, workerPc, url, row>>

Asleep == {"idle", "pause"}           \* blocked in m_wakeCondition.wait
WorkerPcs == {"off", "open", "readUrl", "take", "noRow", "post", "recordSent",
              "recordNotSent", "pauseCheck", "woken"} \cup Asleep

Queued == ToSet(notSent)
InHand == {row} \ {NoRow}

(***************************************************************************)
(* Calls made from the owning thread.                                      *)
(***************************************************************************)
\* m_wakeCondition.wakeAll(): a notification nobody waits for is lost.
WakeAll(pc) == IF pc \in Asleep THEN "woken" ELSE pc

\* Mutant: the flag is set and nobody is notified.
RequestStopSilently == stopRequested' = TRUE /\ UNCHANGED workerPc
\* stop(), up to its wait() for the thread to end.
RequestStop == stopRequested' = TRUE /\ workerPc' = WakeAll(workerPc)

\* A fresh process: the object is constructed and its thread not started.
ResetWorker == /\ serverUrl' = NoUrl
               /\ stopRequested' = FALSE
               /\ workerPc' = "off"
               /\ url' = NoUrl
               /\ row' = NoRow

(***************************************************************************)
(* The tables, as the worker and the service write them.                   *)
(***************************************************************************)
\* Mutant: the row goes back to the front, in the order of capture.
PushNotSent(s) == notSent' = <<s>> \o notSent /\ UNCHANGED <<sent, dropped>>
\* addEntryToNotSentTable: AUTOINCREMENT gives the row the largest id.
AddToNotSent(s) == notSent' = Append(notSent, s) /\ UNCHANGED <<sent, dropped>>

\* addEntryToSentTable
AddToSent(s) == sent' = sent \cup {s} /\ UNCHANGED <<notSent, dropped>>

\* Either insert may throw; the callers log and forget the sample.
FailToRecord(s) == DbFaults /\ dropped' = dropped \cup {s} /\ UNCHANGED <<notSent, sent>>

(***************************************************************************)
(* run()                                                                   *)
(***************************************************************************)
\* SQLiteConnection connection: a failure to open ends the thread.
OpenDatabase ==
    /\ workerPc = "open"
    /\ \/ workerPc' = "readUrl"
       \/ DbFaults /\ workerPc' = "off"
    /\ UNCHANGED <<tables, received, serverUrl, stopRequested, url, row>>

ReadServerUrl ==
    /\ workerPc = "readUrl"
    /\ url' = serverUrl
    /\ workerPc' = "take"
    /\ UNCHANGED <<tables, received, serverUrl, stopRequested, row>>

\* Mutant: the row is read and not deleted.
PeekOldest ==
    /\ url # NoUrl /\ notSent # <<>>
    /\ row' = Head(notSent)
    /\ workerPc' = "post"
    /\ UNCHANGED notSent
TakeOldest ==
    /\ url # NoUrl /\ notSent # <<>>
    /\ row' = Head(notSent)
    /\ notSent' = Tail(notSent)
    /\ workerPc' = "post"

\* No URL, an empty table and a failed read all leave row without a value.
TakeNothing ==
    /\ url = NoUrl \/ notSent = <<>> \/ DbFaults
    /\ workerPc' = "noRow"
    /\ UNCHANGED <<notSent, row>>

TakeRow ==
    /\ workerPc = "take"
    /\ TakeOldest \/ TakeNothing
    /\ UNCHANGED <<sent, dropped, received, serverUrl, stopRequested, url>>

\* Mutant: m_stopRequested is not checked before the wait.
WaitUnchecked(check, sleep) ==
    /\ workerPc = check
    /\ workerPc' = sleep
    /\ UNCHANGED <<tables, received, serverUrl, stopRequested, url, row>>
\* Locks m_wakeMutex, checks m_stopRequested and starts to wait, atomically.
WaitUnlessStopped(check, sleep) ==
    /\ workerPc = check
    /\ workerPc' = IF stopRequested THEN "off" ELSE sleep
    /\ UNCHANGED <<tables, received, serverUrl, stopRequested, url, row>>

WaitForWake == WaitUnlessStopped("noRow", "idle")
WaitRetryInterval == WaitUnlessStopped("pauseCheck", "pause")

RetryIntervalElapsed ==
    /\ workerPc = "pause"
    /\ workerPc' = "woken"
    /\ UNCHANGED <<tables, received, serverUrl, stopRequested, url, row>>

\* Back from a wait: check m_stopRequested, then loop.
Resume ==
    /\ workerPc = "woken"
    /\ workerPc' = IF stopRequested THEN "off" ELSE "readUrl"
    /\ UNCHANGED <<tables, received, serverUrl, stopRequested, url, row>>

\* sendRowSynchronously returns. On an error the server may still have
\* accepted the row: the answer was lost or too late.
ResendSucceeds ==
    /\ workerPc = "post"
    /\ received' = received \cup {row}
    /\ workerPc' = "recordSent"
    /\ UNCHANGED <<tables, serverUrl, stopRequested, url, row>>

ResendFails ==
    /\ workerPc = "post"
    /\ \E accepted \in SUBSET {row} : received' = received \cup accepted
    /\ workerPc' = "recordNotSent"
    /\ UNCHANGED <<tables, serverUrl, stopRequested, url, row>>

\* Mutant: success is misread, every outcome goes to the sent table.
RecordAsSent ==
    /\ workerPc \in {"recordSent", "recordNotSent"}
    /\ AddToSent(row)
    /\ row' = NoRow
    /\ workerPc' = "pauseCheck"
    /\ UNCHANGED <<received, serverUrl, stopRequested, url>>
\* Mutant: the row is cleared before it is written back.
RecordCleared ==
    /\ workerPc \in {"recordSent", "recordNotSent"}
    /\ AddToNotSent(NoRow)
    /\ row' = NoRow
    /\ workerPc' = "pauseCheck"
    /\ UNCHANGED <<received, serverUrl, stopRequested, url>>
\* The outcome is written with no lock held, whatever stop() has asked since.
RecordOutcome ==
    /\ \/ workerPc = "recordSent" /\ AddToSent(row)
       \/ workerPc = "recordNotSent" /\ AddToNotSent(row)
       \/ workerPc \in {"recordSent", "recordNotSent"} /\ FailToRecord(row)
    /\ row' = NoRow
    /\ workerPc' = "pauseCheck"
    /\ UNCHANGED <<received, serverUrl, stopRequested, url>>

WorkerStep == \/ OpenDatabase
              \/ ReadServerUrl
              \/ TakeRow
              \/ WaitForWake
              \/ ResendSucceeds
              \/ ResendFails
              \/ RecordOutcome
              \/ WaitRetryInterval
              \/ RetryIntervalElapsed
              \/ Resume

WorkerInit == /\ notSent = <<>>
              /\ sent = {}
              /\ received = {}
              /\ dropped = {}
              /\ serverUrl = NoUrl
              /\ stopRequested = FALSE
              /\ workerPc = "off"
              /\ url = NoUrl
              /\ row = NoRow
=============================================================================
