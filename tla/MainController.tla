--------------------------- MODULE MainController ---------------------------
(***************************************************************************)
(* The controller (qml/controller/maincontroller.cpp) over the sending     *)
(* service and its worker: it decides when the service runs, from the      *)
(* Start button and from the user's activity, and turns the outcomes of    *)
(* live and resent samples into the status, the statistics and the         *)
(* rejected-credentials mark the window shows. Its slots are slots of the  *)
(* same main thread; the worker's signals reach it through the event queue.*)
(* In a build with BetterStackLogger (core/logging/betterstacklogger.cpp) a*)
(* failed database call of the main thread is a critical message: it is    *)
(* sent from an event loop of its own in the middle of the slot that met   *)
(* the failure, and other slots run in that loop.                          *)
(***************************************************************************)
EXTENDS SendingService

CONSTANTS Logging,        \* the build has the token of BetterStackLogger
          MaxSignals      \* bound: with so many worker signals queued the event loop
                          \* delivers one before a retry pause ends or a start

ASSUME ControllerAssumption == /\ Logging \in BOOLEAN
                               /\ MaxSignals \in Nat
                               /\ StopAllowed
                               /\ Urls # {}

VARIABLES launched,            \* the constructor has run
          pushed,              \* Settings::startButtonPushed()
          savedPushed,         \* its value in the settings file
          userStatus,          \* m_userStatus
          inactivityTimer,     \* m_inactivityTimer.isActive()
          reminderTimer,       \* m_startButtonNotPushedTimer.isActive()
          hasSendError,        \* m_hasSendError
          credentialsRejected, \* m_credentialsRejected
          sentCount,           \* m_sentCountLast24Hours
          refreshed,           \* history: the last statistics query succeeded
          oldAtRead,           \* history: "old" when a statistics query last succeeded
          signals,             \* queued sendSucceeded and sendFailed of the worker
          suspended,           \* the slot that waits for a message to be sent
          old                  \* samples whose utc_timestamp is more than 24 hours ago

tracking == <<launched, pushed, savedPushed, userStatus, inactivityTimer, reminderTimer>>
stats == <<sentCount, refreshed, oldAtRead>>
outcome == <<hasSendError, credentialsRejected, stats>>
controllerVars == <<tracking, outcome, signals, suspended, old>>
appVars == <<vars, controllerVars>>

\* Where in a slot a message may be sent: in refreshSentStats called by one of the
\* signals, by the signal in activityDetected, by the timer or the constructor, and
\* before either signal of handleReplyFinished.
Suspensions == {"sendSucceeded", "sendFailed", "activityDetected", "refresh", "constructor",
                "replySucceeded", "replyFailed"}

AppInit == /\ Init
           /\ launched = FALSE
           /\ pushed \in BOOLEAN
           /\ savedPushed = pushed
           /\ userStatus = "ACTIVE"
           /\ inactivityTimer = FALSE
           /\ reminderTimer = FALSE
           /\ hasSendError = FALSE
           /\ credentialsRejected = FALSE
           /\ sentCount = 0
           /\ refreshed = FALSE
           /\ oldAtRead = {}
           /\ signals = <<>>
           /\ suspended = "no"
           /\ old = {}

(***************************************************************************)
(* What the slots connected to the service's signals do.                   *)
(***************************************************************************)
\* BetterStackLogger::send, in the slot suspended at "place"; "now" is what is
\* suspended already, and then sending says that a message is on its way.
SendsMessage(now) == Logging /\ now = "no"
AfterCritical(now, place) == suspended' = IF SendsMessage(now) THEN place ELSE now

\* refreshSentStats counts the rows of the last 24 hours; a failed query keeps the
\* cached count.
StatsRead == /\ sentCount' = Cardinality(sent' \ old)
             /\ oldAtRead' = old
             /\ refreshed' = TRUE
StatsFail == DbFaults /\ refreshed' = FALSE /\ oldAtRead' = {} /\ UNCHANGED sentCount
RefreshSentStats(place) == \/ StatsRead /\ UNCHANGED suspended
                           \/ StatsFail /\ AfterCritical(suspended, place)

\* The slots of sendSucceeded and sendFailed in their order: refreshSentStats, then
\* those the constructor connects after its own call of it.
ShowOutcome(failed, rejected, now, place) ==
    \/ /\ StatsRead \/ (StatsFail /\ ~SendsMessage(now))
       /\ suspended' = now
       /\ hasSendError' = IF now = "constructor" THEN hasSendError ELSE failed
       /\ credentialsRejected' = (rejected /\ failed /\ now # "constructor")
    \/ /\ StatsFail /\ SendsMessage(now)
       /\ suspended' = place
       /\ credentialsRejected' = rejected
       /\ UNCHANGED hasSendError

OnSendSucceeded(now) == ShowOutcome(FALSE, credentialsRejected, now, "sendSucceeded")

\* A 401 has emitted authenticationFailed before.
OnSendFailed(unauthorized, now, place) ==
    ShowOutcome(TRUE, credentialsRejected \/ unauthorized, now, place)

\* sendNow captured a sample, or skipped and emitted sendFailed at once.
AfterSendNow(place) == IF captured' = captured
                       THEN OnSendFailed(FALSE, suspended, place)
                       ELSE UNCHANGED <<outcome, suspended>>

(***************************************************************************)
(* Starting and stopping the service.                                      *)
(***************************************************************************)
SignalRoom == Len(signals) < MaxSignals
RunService(place) == SignalRoom /\ Start /\ AfterSendNow(place)
HaltService == Stop /\ UNCHANGED <<outcome, suspended>>

\* The choice made by setRunning, setUserStatus and the constructor.
SwitchService(run, place) == IF run THEN RunService(place) ELSE HaltService

\* setUserStatus: an equal status changes nothing, and the service is left alone
\* while the Start button is not pushed.
SetUserStatus(status) ==
    /\ userStatus' = status
    /\ IF userStatus = status \/ ~pushed
       THEN UNCHANGED <<vars, outcome, suspended>>
       ELSE SwitchService(status = "ACTIVE", "activityDetected")

(***************************************************************************)
(* Slots of the controller.                                                *)
(***************************************************************************)
\* The constructor. The slots that show a failure are connected after the
\* service is started, so a send skipped on the way goes unnoticed.
Launch ==
    /\ ~launched
    /\ launched' = TRUE
    /\ serverUrl' \in Urls
    /\ \/ /\ pushed
          /\ timerActive' = TRUE
          /\ workerPc' = "open"
          /\ SendNow(serverUrl', "normal")
          /\ UNCHANGED stopRequested
       \/ /\ ~pushed                    \* stop(), with no thread to wait for
          /\ timerActive' = FALSE
          /\ stopRequested' = TRUE
          /\ UNCHANGED <<workerPc, captured, inFlight, timerInterval>>
    /\ inactivityTimer' = TRUE
    /\ reminderTimer' = ~pushed
    /\ UNCHANGED <<tables, received, url, row, mainPc, restarts, pushed, savedPushed,
                   userStatus, hasSendError, credentialsRejected, signals, old>>
    /\ RefreshSentStats("constructor")

\* Mutant: every activity stops the timer, and only a change of status restarts it.
ActivityDetectedOnce ==
    /\ launched /\ mainPc = "loop"
    /\ SetUserStatus("ACTIVE")
    /\ inactivityTimer' = (userStatus = "INACTIVE")
    /\ UNCHANGED <<launched, pushed, savedPushed, reminderTimer, signals, old>>
\* ActivityMonitor::activityDetected; the timer is started last.
ActivityDetected ==
    /\ launched /\ mainPc = "loop"
    /\ SetUserStatus("ACTIVE")
    /\ inactivityTimer' = (inactivityTimer \/ suspended' = suspended)
    /\ UNCHANGED <<launched, pushed, savedPushed, reminderTimer, signals, old>>

\* Mutant: m_userStatus is assigned without setUserStatus.
InactivityTimeoutDirect ==
    /\ launched /\ mainPc = "loop"
    /\ inactivityTimer
    /\ inactivityTimer' = FALSE
    /\ userStatus' = "INACTIVE"
    /\ UNCHANGED <<vars, outcome, launched, pushed, savedPushed, reminderTimer, signals,
                   suspended, old>>
\* A minute without activity; the timer is single-shot.
InactivityTimeout ==
    /\ launched /\ mainPc = "loop"
    /\ inactivityTimer
    /\ inactivityTimer' = FALSE
    /\ SetUserStatus("INACTIVE")
    /\ UNCHANGED <<launched, pushed, savedPushed, reminderTimer, signals, old>>

WindowIsUp == launched /\ mainPc = "loop" /\ suspended # "constructor"

\* Mutant: the user's presence is not consulted.
ToggleTrackingOnly ==
    /\ WindowIsUp
    /\ pushed' = ~pushed
    /\ reminderTimer' = ~pushed'
    /\ SwitchService(pushed', "sendFailed")
    /\ UNCHANGED <<launched, savedPushed, userStatus, inactivityTimer, signals, old>>
\* toggleTracking: setRunning with the other value, its first startButtonChanged
\* reaching toggleStartButtonNotPushedTimer; the one at its end changes nothing.
ToggleTracking ==
    /\ WindowIsUp
    /\ pushed' = ~pushed
    /\ reminderTimer' = ~pushed'
    /\ SwitchService(pushed' /\ userStatus = "ACTIVE", "sendFailed")
    /\ UNCHANGED <<launched, savedPushed, userStatus, inactivityTimer, signals, old>>

\* The user changes the user name or the password.
EditCredentials ==
    /\ WindowIsUp
    /\ credentialsRejected' = FALSE
    /\ UNCHANGED <<vars, tracking, hasSendError, stats, signals, suspended, old>>

\* m_sentStatsRefreshTimer
RefreshTimeout ==
    /\ launched /\ mainPc = "loop"
    /\ UNCHANGED <<vars, tracking, hasSendError, credentialsRejected, signals, old>>
    /\ RefreshSentStats("refresh")

SendTimeout == /\ launched /\ Timeout
               /\ AfterSendNow("sendFailed")
               /\ UNCHANGED <<tracking, signals, old>>

\* handleReplyFinished: a sample that cannot be recorded is a critical message.
Lost(s) == s \in dropped'

ReplySucceeded(s) ==
    /\ HandleReplySucceeded(s)
    /\ IF Lost(s) /\ SendsMessage(suspended)
       THEN suspended' = "replySucceeded" /\ UNCHANGED outcome
       ELSE OnSendSucceeded(suspended)
    /\ UNCHANGED <<tracking, signals, old>>

ReplyFailed(s) ==
    /\ HandleReplyFailed(s)
    /\ ~(Lost(s) /\ SendsMessage(suspended))
    /\ \E unauthorized \in BOOLEAN : OnSendFailed(unauthorized, suspended, "sendFailed")
    /\ UNCHANGED <<tracking, signals, old>>

\* The worker is woken after the message.
ReplyFailedAndLost(s) ==
    /\ mainPc = "loop" /\ s \in inFlight
    /\ inFlight' = inFlight \ {s}
    /\ \E accepted \in SUBSET {s} : received' = received \cup accepted
    /\ FailToRecord(s)
    /\ SendsMessage(suspended)
    /\ suspended' = "replyFailed"
    /\ UNCHANGED <<serverUrl, stopRequested, workerPc, url, row, captured, timerActive,
                   timerInterval, mainPc, restarts, outcome, tracking, signals, old>>

\* Mutant: the worker's signals are not relayed to refreshSentStats.
DeliverSignalUncounted ==
    /\ launched /\ mainPc = "loop" /\ signals # <<>>
    /\ signals' = Tail(signals)
    /\ hasSendError' = (Head(signals) = "sendFailed")
    /\ UNCHANGED <<vars, tracking, credentialsRejected, stats, suspended, old>>
\* Mutant: a resent row does not clear the rejected mark.
DeliverSignalPartly ==
    /\ launched /\ mainPc = "loop" /\ signals # <<>>
    /\ signals' = Tail(signals)
    /\ UNCHANGED <<vars, tracking, credentialsRejected, old>>
    /\ hasSendError' = (Head(signals) = "sendFailed")
    /\ RefreshSentStats("refresh")
\* The event queue delivers a signal of the worker, relayed by the service.
DeliverSignal ==
    /\ launched /\ mainPc = "loop" /\ signals # <<>>
    /\ signals' = Tail(signals)
    /\ UNCHANGED <<vars, tracking, old>>
    /\ IF Head(signals) = "sendSucceeded"
       THEN OnSendSucceeded(suspended)
       ELSE OnSendFailed(FALSE, suspended, "sendFailed")

\* The message has been sent or given up, and the rest of the slot runs.
ResumeSlot ==
    /\ mainPc = "loop"
    /\ \/ /\ suspended \in {"refresh", "constructor"}
          /\ suspended' = "no"
          /\ UNCHANGED <<vars, outcome, inactivityTimer>>
       \/ /\ suspended = "sendSucceeded"
          /\ suspended' = "no"
          /\ hasSendError' = FALSE
          /\ credentialsRejected' = FALSE
          /\ UNCHANGED <<vars, stats, inactivityTimer>>
       \/ /\ suspended \in {"sendFailed", "activityDetected"}
          /\ suspended' = "no"
          /\ hasSendError' = TRUE
          /\ inactivityTimer' = (inactivityTimer \/ suspended = "activityDetected")
          /\ UNCHANGED <<vars, credentialsRejected, stats>>
       \/ /\ suspended = "replySucceeded"
          /\ UNCHANGED <<vars, inactivityTimer>>
          /\ OnSendSucceeded("no")
       \/ /\ suspended = "replyFailed"
          /\ mainPc' = "wake"
          /\ UNCHANGED <<workerVars, captured, inFlight, timerActive, timerInterval, restarts,
                         inactivityTimer>>
          /\ \E unauthorized \in BOOLEAN : OnSendFailed(unauthorized, "no", "sendFailed")
    /\ UNCHANGED <<launched, pushed, savedPushed, userStatus, reminderTimer, signals, old>>

\* The worker queues a signal when it has recorded an outcome; the two are one
\* step, as it touches nothing shared in between.
EmittedByWorker == CASE workerPc = "recordSent"    -> <<"sendSucceeded">>
                     [] workerPc = "recordNotSent" -> <<"sendFailed">>
                     [] OTHER                      -> <<>>
AppWorker == /\ WorkerNext
             /\ signals' = signals \o EmittedByWorker
             /\ workerPc = "pause" => SignalRoom
             /\ UNCHANGED <<tracking, outcome, suspended, old>>

\* QSettings writes the file from the event loop.
SyncSettings ==
    /\ mainPc = "loop"
    /\ savedPushed' = pushed
    /\ UNCHANGED <<vars, launched, pushed, userStatus, inactivityTimer, reminderTimer,
                   outcome, signals, suspended, old>>

\* The controller of the next process; a clean exit has written the settings.
ResetController(saved) ==
    /\ launched' = FALSE
    /\ pushed' = saved
    /\ savedPushed' = saved
    /\ userStatus' = "ACTIVE"
    /\ inactivityTimer' = FALSE
    /\ reminderTimer' = FALSE
    /\ hasSendError' = FALSE
    /\ credentialsRejected' = FALSE
    /\ sentCount' = 0
    /\ refreshed' = FALSE
    /\ oldAtRead' = {}
    /\ signals' = <<>>
    /\ suspended' = "no"
    /\ UNCHANGED old

\* Quitting ends every event loop, the inner one first.
QuitApp == launched /\ suspended = "no" /\ Quit /\ UNCHANGED controllerVars
ExitApp == Exit /\ ResetController(pushed)
CrashApp == Crash /\ ResetController(savedPushed)

\* The wall clock goes on, or is set: other samples than before are 24 hours old.
WallClock ==
    /\ old' \in SUBSET (1..captured)
    /\ UNCHANGED <<vars, tracking, outcome, signals, suspended>>

AppNext == \/ Launch
           \/ ActivityDetected
           \/ InactivityTimeout
           \/ ToggleTracking
           \/ EditCredentials
           \/ RefreshTimeout
           \/ SendTimeout
           \/ \E s \in inFlight : ReplySucceeded(s) \/ ReplyFailed(s) \/ ReplyFailedAndLost(s)
           \/ ResumeSlot
           \/ DeliverSignal
           \/ WakeWorker /\ UNCHANGED controllerVars
           \/ Joined /\ UNCHANGED controllerVars
           \/ AppWorker
           \/ SyncSettings
           \/ QuitApp
           \/ ExitApp
           \/ CrashApp
           \/ WallClock

AppSpec == AppInit /\ [][AppNext]_appVars

\* userStatus(), which the tray icon and the window show.
ShownStatus == IF hasSendError THEN "ERROR" ELSE IF pushed THEN userStatus ELSE "INACTIVE"

(***************************************************************************)
(* Fairness: as in SendingService.tla, and the event loop comes round to a *)
(* timer that stays due, even if other slots keep interrupting the wait:   *)
(* hence strong fairness. A message is given up after five seconds. The    *)
(* user owes nothing.                                                      *)
(***************************************************************************)
AppFairness ==
    /\ WF_appVars(Launch)
    /\ WF_appVars(AppWorker)
    /\ WF_appVars(WakeWorker /\ UNCHANGED controllerVars)
    /\ WF_appVars(Joined /\ UNCHANGED controllerVars)
    /\ WF_appVars(ExitApp)
    /\ SF_appVars(InactivityTimeout)
    /\ SF_appVars(DeliverSignal)
    /\ SF_appVars(ResumeSlot)

AppFairSpec == AppSpec /\ AppFairness

(***************************************************************************)
(* Properties                                                              *)
(***************************************************************************)
\* Whenever the main thread is back in its event loop the send timer runs exactly
\* if the user has pushed Start and is present: no order of clicks, activity,
\* idleness and blocking stops leaves a stopped user tracked or an active one not.
TracksIffPushedAndPresent ==
    launched /\ mainPc = "loop" => (timerActive <=> pushed /\ userStatus = "ACTIVE")

\* The half-hourly reminder runs exactly while the Start button is not pushed.
RemindsIffNotPushed == launched => (reminderTimer <=> ~pushed)

\* An ACTIVE status is always under the watch of the inactivity timer, so it
\* cannot outlive the user's presence for more than a minute; while a message is
\* sent in the middle of activityDetected, from the end of that slot.
ActiveIsWatched ==
    launched /\ userStatus = "ACTIVE" => inactivityTimer \/ suspended = "activityDetected"

\* The red border on the credentials appears only together with the red icon:
\* what clears the error clears the rejection too, on every path, also where
\* answers come in while a message about an earlier one is sent.
RejectionImpliesError == credentialsRejected => hasSendError \/ suspended = "sendFailed"

\* Two connections write the sent table, a third one reads it, and rows leave the
\* 24 hours without being written: the count the window shows differs from the rows
\* now in the table by those that have aged since the last query, and by nothing
\* else unless a query has failed or the signal of a resent row is on its way.
SentCountIsCurrent ==
    launched /\ refreshed =>
                \/ sentCount = Cardinality(sent \ oldAtRead)
                \/ \E i \in 1..Len(signals) : signals[i] = "sendSucceeded"

\* A user who goes away for good is no longer tracked or shown as active, whatever
\* the worker was doing when the timer ran out.
IdleUserIsNotTracked ==
    <>[][~ActivityDetected]_appVars => <>[](~timerActive /\ ShownStatus # "ACTIVE")
=============================================================================
