--------------------------- MODULE SendingService ---------------------------
(***************************************************************************)
(* The sending service (core/network/sendingservice.cpp) and the worker    *)
(* thread it owns. The service lives on the main thread: its slots run to  *)
(* completion one after the other, but the worker runs between any two of  *)
(* their accesses to shared state, and stop() blocks the main thread until *)
(* the worker has ended.                                                   *)
(***************************************************************************)
EXTENDS NotSentSender

CONSTANTS MaxRestarts,    \* bound: ends of the process, clean or not
          StopAllowed     \* whether stop() may be called while running

ASSUME ServiceAssumption == MaxRestarts \in Nat /\ StopAllowed \in BOOLEAN

VARIABLES captured,       \* samples captured so far, numbered in time order
          inFlight,       \* samples of the live replies of m_networkManager
          timerActive,    \* m_timer.isActive()
          timerInterval,  \* m_timer.interval(): "normal" or "retry"
          mainPc,         \* "loop": in the event loop; otherwise inside a call
          restarts

serviceVars == <<captured, inFlight, timerActive, timerInterval, mainPc, restarts>>
vars == <<workerVars, serviceVars>>

MainPcs == {"loop", "wake", "joining", "quitting"}

Init == /\ WorkerInit
        /\ captured = 0
        /\ inFlight = {}
        /\ timerActive = FALSE
        /\ timerInterval = "normal"
        /\ mainPc = "loop"
        /\ restarts = 0

(***************************************************************************)
(* Slots of the main thread.                                               *)
(***************************************************************************)
\* setServerUrl, up to the wake() it ends with when the URL is valid.
SetServerUrl(u) ==
    /\ mainPc = "loop"
    /\ serverUrl' = u
    /\ mainPc' = IF u = NoUrl THEN "loop" ELSE "wake"
    /\ UNCHANGED <<tables, received, stopRequested, workerPc, url, row,
                   captured, inFlight, timerActive, timerInterval, restarts>>

\* m_notSentSender.wake(), the last shared step of two slots.
WakeWorker ==
    /\ mainPc = "wake"
    /\ workerPc' = WakeAll(workerPc)
    /\ mainPc' = "loop"
    /\ UNCHANGED <<tables, received, serverUrl, stopRequested, url, row,
                   captured, inFlight, timerActive, timerInterval, restarts>>

\* sendNow, called while the service has URL u and m_timer the given interval.
SendNow(u, interval) ==
    \/ /\ u = NoUrl
       /\ timerInterval' = interval
       /\ UNCHANGED <<captured, inFlight>>
    \/ /\ u # NoUrl                    \* the OS clock sync is off
       /\ timerInterval' = "retry"
       /\ UNCHANGED <<captured, inFlight>>
    \/ /\ u # NoUrl
       /\ captured < MaxSamples
       /\ captured' = captured + 1
       /\ inFlight' = inFlight \cup {captured + 1}
       /\ timerInterval' = "normal"

Timeout ==
    /\ mainPc = "loop" /\ timerActive
    /\ SendNow(serverUrl, timerInterval)
    /\ UNCHANGED <<workerVars, timerActive, mainPc, restarts>>

Start ==
    /\ mainPc = "loop"
    /\ timerActive' = TRUE
    /\ workerPc' = IF workerPc = "off" THEN "open" ELSE workerPc
    /\ SendNow(serverUrl, "normal")
    /\ UNCHANGED <<tables, received, serverUrl, stopRequested, url, row, mainPc, restarts>>

\* Mutant: the thread is told to stop and not waited for.
StopWithoutWait ==
    /\ StopAllowed
    /\ mainPc = "loop"
    /\ timerActive' = FALSE
    /\ RequestStop
    /\ UNCHANGED <<tables, received, serverUrl, url, row, captured, inFlight,
                   timerInterval, mainPc, restarts>>
\* stop(), up to QThread::wait(). Replies under way stay under way.
Stop ==
    /\ StopAllowed
    /\ mainPc = "loop"
    /\ timerActive' = FALSE
    /\ RequestStop
    /\ mainPc' = "joining"
    /\ UNCHANGED <<tables, received, serverUrl, url, row, captured, inFlight,
                   timerInterval, restarts>>

\* QThread::wait() returns.
Joined ==
    /\ mainPc = "joining" /\ workerPc = "off"
    /\ mainPc' = "loop"
    /\ UNCHANGED <<workerVars, captured, inFlight, timerActive, timerInterval, restarts>>

\* handleReplyFinished for a reply without error.
HandleReplySucceeded(s) ==
    /\ mainPc = "loop" /\ s \in inFlight
    /\ inFlight' = inFlight \ {s}
    /\ received' = received \cup {s}
    /\ AddToSent(s) \/ FailToRecord(s)
    /\ UNCHANGED <<serverUrl, stopRequested, workerPc, url, row, captured,
                   timerActive, timerInterval, mainPc, restarts>>

\* handleReplyFinished for a failed reply: the row is inserted, and only then
\* is the worker woken. The server may have accepted the sample all the same.
HandleReplyFailed(s) ==
    /\ mainPc = "loop" /\ s \in inFlight
    /\ inFlight' = inFlight \ {s}
    /\ \E accepted \in SUBSET {s} : received' = received \cup accepted
    /\ AddToNotSent(s) \/ FailToRecord(s)
    /\ mainPc' = "wake"
    /\ UNCHANGED <<serverUrl, stopRequested, workerPc, url, row, captured,
                   timerActive, timerInterval, restarts>>

(***************************************************************************)
(* The end of the process and the next launch. The tables are durable,     *)
(* the replies under way and the row in the worker's hand are not.         *)
(***************************************************************************)
Relaunch ==
    /\ restarts' = restarts + 1
    /\ dropped' = dropped \cup inFlight \cup InHand
    /\ \E accepted \in SUBSET (inFlight \cup InHand) : received' = received \cup accepted
    /\ inFlight' = {}
    /\ ResetWorker
    /\ timerActive' = FALSE
    /\ timerInterval' = "normal"
    /\ mainPc' = "loop"
    /\ UNCHANGED <<notSent, sent, captured>>

Crash == restarts < MaxRestarts /\ Relaunch

\* A clean exit: the event loop ends and ~SendingService stops the worker.
Quit ==
    /\ restarts < MaxRestarts
    /\ mainPc = "loop"
    /\ RequestStop
    /\ mainPc' = "quitting"
    /\ UNCHANGED <<tables, received, serverUrl, url, row, captured, inFlight,
                   timerActive, timerInterval, restarts>>

Exit == mainPc = "quitting" /\ workerPc = "off" /\ restarts < MaxRestarts /\ Relaunch

WorkerNext == WorkerStep /\ UNCHANGED serviceVars

Next == \/ \E u \in Urls \cup {NoUrl} : SetServerUrl(u)
        \/ WakeWorker
        \/ Timeout
        \/ Start
        \/ Stop
        \/ Joined
        \/ \E s \in inFlight : HandleReplySucceeded(s) \/ HandleReplyFailed(s)
        \/ Quit
        \/ Exit
        \/ Crash
        \/ WorkerNext

Spec == Init /\ [][Next]_vars
(***************************************************************************)
(* Fairness. The worker is a thread the OS keeps scheduling; both kinds of *)
(* POST end by their 30 s transfer timeout, and the retry pause is a timed *)
(* wait. The main thread finishes the slot it is in and handles the        *)
(* replies that finish. Nobody is obliged to start, stop, quit or change   *)
(* the URL, and an untimed wait ends only with a wake.                     *)
(***************************************************************************)
Fairness == /\ WF_vars(WorkerNext)
            /\ WF_vars(WakeWorker)
            /\ WF_vars(Joined)
            /\ WF_vars(Exit)
            /\ WF_vars(\E s \in inFlight : HandleReplySucceeded(s) \/ HandleReplyFailed(s))

FairSpec == Spec /\ Fairness

(***************************************************************************)
(* Safety                                                                  *)
(***************************************************************************)
\* The type invariant.
TypeOK == /\ notSent \in Seq(Samples)
          /\ sent \subseteq Samples
          /\ received \subseteq Samples
          /\ dropped \subseteq Samples
          /\ serverUrl \in Urls \cup {NoUrl}
          /\ stopRequested \in BOOLEAN
          /\ workerPc \in WorkerPcs
          /\ url \in Urls \cup {NoUrl}
          /\ row \in Samples \cup {NoRow}
          /\ captured \in 0..MaxSamples
          /\ inFlight \subseteq Samples
          /\ timerActive \in BOOLEAN
          /\ timerInterval \in {"normal", "retry"}
          /\ mainPc \in MainPcs
          /\ restarts \in 0..MaxRestarts

\* A row is in the worker's hand exactly from the take to the record, and run()
\* takes a resend for a success only if the server accepted it.
RowMatchesPc ==
    /\ row # NoRow <=> workerPc \in {"post", "recordSent", "recordNotSent"}
    /\ workerPc = "recordSent" => row \in received

NoDuplicateRows == IsInjective(notSent)

PlacesDisjoint == /\ (inFlight \cup InHand) \cap (Queued \cup sent \cup dropped) = {}
                  /\ inFlight \cap InHand = {}
                  /\ Queued \cap (sent \cup dropped) = {}
                  /\ sent \cap dropped = {}

NoneMissing == 1..captured = inFlight \cup InHand \cup Queued \cup sent \cup dropped

\* Two threads, two tables and the POSTs under way: every captured sample is in
\* exactly one of them, in one row, so none is counted twice in the 24 h
\* statistics and none disappears between takeOldestEntryFromNotSentTable and
\* the insert that records the outcome.
EachSampleInOnePlace == NoDuplicateRows /\ PlacesDisjoint /\ NoneMissing

\* A sample leaves the books only through a database error or the end of the
\* process: no order of stop(), start(), wake() and answers loses one.
NothingDroppedWithoutFault == dropped # {} => DbFaults \/ restarts > 0

\* A row of the sent table stands for a sample the server did accept.
SentWasReceived == sent \subseteq received

\* stop() cannot miss the worker: as the flag is set and the wake is sent under
\* m_wakeMutex, and run() checks the flag under it before each wait, the worker
\* is never asleep once the flag is up.
NeverAsleepOnceStopped == stopRequested => workerPc \notin Asleep

\* When stop() has returned the service is quiet: no worker thread is left that
\* could post, or write to the tables, behind the back of its owner.
QuietWhenStopped == mainPc \in {"loop", "wake"} /\ ~timerActive => workerPc = "off"

\* The contract of Outbox.tla: a sample under way is a live reply or the row in
\* the worker's hand; the queue is the not_sent table.
Contract == INSTANCE Outbox WITH live <- inFlight \cup InHand, queue <- notSent
ImplementsOutbox == Contract!Spec

(***************************************************************************)
(* Liveness                                                                *)
(***************************************************************************)
\* stop() and the destructor return: the main thread never waits for ever on a
\* worker that sleeps or loops.
StopReturns == mainPc \in {"joining", "quitting"} ~> mainPc = "loop"

\* A worker in its retry pause works through the backlog first in, first out:
\* each queued row is posted again, unless the worker ends, loses its URL or
\* goes to its untimed wait, to which only a failed read leads it here.
BacklogIsRetried ==
    \A s \in Samples : (workerPc = "pause" /\ s \in Queued)
                        ~> (row = s \/ workerPc \in {"off", "idle"} \/ serverUrl = NoUrl)

(***************************************************************************)
(* What the comments of the code promise and the code does not keep.       *)
(***************************************************************************)
\* "Drains `not_sent` in the background while active" (m_notSentSender): the
\* thread is there whenever the service is active.
DrainsWhileActive == mainPc = "loop" /\ timerActive => workerPc # "off"

\* "On failure, also wakes m_notSentSender so it picks up the newly queued entry
\* without delay" (handleReplyFinished): a queued row is posted again.
QueuedEntryIsPickedUp ==
    \A s \in Samples : s \in Queued ~> s \notin Queued \/ serverUrl = NoUrl \/ workerPc = "off"
=============================================================================
