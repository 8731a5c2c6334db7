------------------------ MODULE MainControllerProofs ------------------------
(***************************************************************************)
(* Proofs about the controller for every number of samples, restarts, URLs *)
(* and queued signals, with or without database errors and the messages    *)
(* sent about them.                                                        *)
(***************************************************************************)
EXTENDS MainController, SendingServiceProofs, TLAPS

\* The part of the state the user drives keeps its type.
TrackingTyped == /\ launched \in BOOLEAN
                 /\ pushed \in BOOLEAN
                 /\ savedPushed \in BOOLEAN
                 /\ userStatus \in {"ACTIVE", "INACTIVE"}
                 /\ inactivityTimer \in BOOLEAN
                 /\ reminderTimer \in BOOLEAN

\* TracksIffPushedAndPresent, also inside the calls the event loop waits for.
TracksOnceLaunched ==
    launched /\ mainPc # "quitting" => (timerActive <=> pushed /\ userStatus = "ACTIVE")

TrackingInv == /\ TrackingTyped
               /\ TracksOnceLaunched
               /\ RemindsIffNotPushed
               /\ ActiveIsWatched
               /\ ~launched => /\ mainPc = "loop" /\ userStatus = "ACTIVE" /\ inFlight = {}
                              /\ suspended = "no"

-----------------------------------------------------------------------------
(* What the composed steps do to the variables TrackingInv is about.       *)

\* A message is sent only where none is being sent.
SuspendedAt(place) == suspended' = suspended \/ (suspended = "no" /\ suspended' = place)

LEMMA OutcomeEffect ==
    ASSUME NEW failed, NEW rejected, NEW place, ShowOutcome(failed, rejected, suspended, place)
    PROVE  SuspendedAt(place)
  BY DEF ShowOutcome, SendsMessage, SuspendedAt

LEMMA RefreshEffect == ASSUME NEW place, RefreshSentStats(place) PROVE SuspendedAt(place)
  BY DEF RefreshSentStats, AfterCritical, SendsMessage, SuspendedAt

LEMMA SendEffect == ASSUME NEW place, AfterSendNow(place) PROVE SuspendedAt(place)
<1>1. CASE captured' = captured
  BY <1>1, OutcomeEffect DEF AfterSendNow, OnSendFailed
<1>2. CASE captured' # captured
  BY <1>2 DEF AfterSendNow, SuspendedAt
<1> QED
  BY <1>1, <1>2

LEMMA StartEffect ==
    ASSUME NEW place, RunService(place)
    PROVE  timerActive' = TRUE /\ UNCHANGED mainPc /\ SuspendedAt(place)
  BY SendEffect DEF RunService, Start

LEMMA StopEffect ==
    ASSUME HaltService
    PROVE  timerActive' = FALSE /\ mainPc' = "joining" /\ UNCHANGED suspended
  BY Zenon DEF HaltService, Stop

LEMMA SwitchEffect ==
    ASSUME NEW run \in BOOLEAN, NEW place, mainPc = "loop", SwitchService(run, place)
    PROVE  timerActive' = run /\ mainPc' \in {"loop", "joining"} /\ SuspendedAt(place)
  BY StartEffect, StopEffect DEF SwitchService, SuspendedAt

LEMMA StatusEffect ==
    ASSUME TrackingInv, launched, mainPc = "loop",
           NEW status \in {"ACTIVE", "INACTIVE"}, SetUserStatus(status)
    PROVE  /\ userStatus' = status
           /\ mainPc' \in {"loop", "joining"}
           /\ timerActive' <=> pushed /\ status = "ACTIVE"
           /\ SuspendedAt("activityDetected")
<1>1. CASE userStatus = status \/ ~pushed
  BY <1>1 DEF SetUserStatus, TrackingInv, TracksOnceLaunched, vars, serviceVars, SuspendedAt
<1>2. CASE userStatus # status /\ pushed
  <2>1. SwitchService(status = "ACTIVE", "activityDetected") /\ userStatus' = status
    BY <1>2 DEF SetUserStatus
  <2> QED
    BY <1>2, <2>1, SwitchEffect
<1> QED
  BY <1>1, <1>2 DEF TrackingInv, TrackingTyped

LEMMA ReplyEffect ==
    ASSUME NEW s, ReplySucceeded(s) \/ ReplyFailed(s) \/ ReplyFailedAndLost(s)
    PROVE  /\ UNCHANGED <<tracking, timerActive>> /\ mainPc' \in {"loop", "wake"}
           /\ mainPc = "loop" /\ (suspended' = suspended \/ suspended = "no")
<1> USE DEF SuspendedAt, SendsMessage
<1>1. CASE ReplySucceeded(s)
  BY <1>1, OutcomeEffect DEF ReplySucceeded, HandleReplySucceeded, OnSendSucceeded
<1>2. CASE ReplyFailed(s)
  BY <1>2, OutcomeEffect DEF ReplyFailed, HandleReplyFailed, OnSendFailed
<1>3. CASE ReplyFailedAndLost(s)
  BY <1>3 DEF ReplyFailedAndLost
<1> QED
  BY <1>1, <1>2, <1>3

\* The rest of a slot starts the inactivity timer if it is that of activityDetected.
LEMMA ResumeEffect ==
    ASSUME ResumeSlot
    PROVE  /\ UNCHANGED <<launched, pushed, savedPushed, userStatus, reminderTimer, timerActive>>
           /\ mainPc = "loop" /\ mainPc' \in {"loop", "wake"} /\ suspended # "no"
           /\ \/ UNCHANGED inactivityTimer /\ suspended # "activityDetected"
              \/ inactivityTimer' = (inactivityTimer \/ suspended = "activityDetected")
  BY DEF ResumeSlot, vars, serviceVars

-----------------------------------------------------------------------------
LEMMA TrackingInit == AppInit => TrackingInv
  BY DEF AppInit, Init, TrackingInv, TrackingTyped, TracksOnceLaunched,
         RemindsIffNotPushed, ActiveIsWatched

LEMMA TrackingStep == TrackingInv /\ [AppNext]_appVars => TrackingInv'
<1> SUFFICES ASSUME TrackingInv, [AppNext]_appVars PROVE TrackingInv'
  OBVIOUS
<1> USE DEF TrackingInv, TrackingTyped, TracksOnceLaunched, RemindsIffNotPushed,
            ActiveIsWatched, tracking, SuspendedAt
<1>1. CASE Launch
  BY <1>1 DEF Launch
<1>2. CASE ActivityDetected
  <2>1. /\ userStatus' = "ACTIVE" /\ mainPc' \in {"loop", "joining"}
        /\ timerActive' <=> pushed
        /\ SuspendedAt("activityDetected")
    BY <1>2, StatusEffect DEF ActivityDetected
  <2> QED
    BY <1>2, <2>1 DEF ActivityDetected
<1>3. CASE InactivityTimeout
  <2>1. /\ userStatus' = "INACTIVE" /\ mainPc' \in {"loop", "joining"}
        /\ ~timerActive'
    BY <1>3, StatusEffect DEF InactivityTimeout
  <2> QED
    BY <1>3, <2>1 DEF InactivityTimeout
<1>4. CASE ToggleTracking
  <2>1. /\ timerActive' <=> pushed' /\ userStatus = "ACTIVE"
        /\ mainPc' \in {"loop", "joining"}
        /\ SuspendedAt("sendFailed")
    BY <1>4, SwitchEffect DEF ToggleTracking, WindowIsUp
  <2> QED
    BY <1>4, <2>1 DEF ToggleTracking, WindowIsUp
<1>5. CASE EditCredentials \/ RefreshTimeout \/ DeliverSignal
  <2>1. launched /\ UNCHANGED <<vars, tracking>>
    BY <1>5, Zenon DEF EditCredentials, WindowIsUp, RefreshTimeout, DeliverSignal
  <2>2. suspended' = suspended \/ suspended = "no"
    BY <1>5, OutcomeEffect, RefreshEffect
       DEF EditCredentials, RefreshTimeout, DeliverSignal, OnSendSucceeded, OnSendFailed
  <2> QED
    BY <2>1, <2>2 DEF vars, serviceVars
<1>6. CASE SendTimeout
  <2>1. SuspendedAt("sendFailed")
    BY <1>6, SendEffect DEF SendTimeout
  <2> QED
    BY <1>6, <2>1 DEF SendTimeout, Timeout
<1>7. ASSUME NEW s \in inFlight, ReplySucceeded(s) \/ ReplyFailed(s) \/ ReplyFailedAndLost(s)
      PROVE  TrackingInv'
  BY <1>7, ReplyEffect
<1>8. CASE (WakeWorker \/ Joined) /\ UNCHANGED controllerVars
  BY <1>8 DEF WakeWorker, Joined, controllerVars
<1>9. CASE AppWorker
  BY <1>9 DEF AppWorker, WorkerNext, serviceVars
<1>10. CASE SyncSettings \/ WallClock
  BY <1>10 DEF SyncSettings, WallClock, tracking, vars, serviceVars
<1>11. CASE QuitApp
  BY <1>11 DEF QuitApp, Quit, controllerVars
<1>12. CASE ExitApp \/ CrashApp
  BY <1>12 DEF ExitApp, CrashApp, Exit, Crash, Relaunch, ResetController
<1>13. CASE ResumeSlot
  BY <1>13, ResumeEffect
<1>14. CASE UNCHANGED appVars
  BY <1>14 DEF appVars, controllerVars, vars, serviceVars
<1> QED
  BY <1>1, <1>2, <1>3, <1>4, <1>5, <1>6, <1>7, <1>8, <1>9, <1>10, <1>11, <1>12, <1>13,
     <1>14 DEF AppNext

LEMMA TrackingInvariant == AppSpec => []TrackingInv
  BY TrackingInit, TrackingStep, PTL DEF AppSpec

\* In the event loop the service is active exactly if the user has pushed Start
\* and is present, in every interleaving of the two threads.
THEOREM TrackingIsRight == AppSpec => []TracksIffPushedAndPresent
<1>1. TrackingInv => TracksIffPushedAndPresent
  BY DEF TrackingInv, TracksOnceLaunched, TracksIffPushedAndPresent
<1> QED
  BY <1>1, TrackingInvariant, PTL

\* The reminder follows the Start button.
THEOREM ReminderIsRight == AppSpec => []RemindsIffNotPushed
<1>1. TrackingInv => RemindsIffNotPushed
  BY DEF TrackingInv
<1> QED
  BY <1>1, TrackingInvariant, PTL

\* An active status is always watched by the inactivity timer.
THEOREM ActivityIsWatched == AppSpec => []ActiveIsWatched
<1>1. TrackingInv => ActiveIsWatched
  BY DEF TrackingInv
<1> QED
  BY <1>1, TrackingInvariant, PTL

-----------------------------------------------------------------------------
(* The outcome the window shows.                                           *)

\* The two marks keep together through the slots that show an outcome.
LEMMA SuccessMarks ==
    ASSUME NEW now, OnSendSucceeded(now),
           credentialsRejected => hasSendError \/ now = "sendFailed"
    PROVE  RejectionImpliesError'
<1>1. CASE credentialsRejected' = (credentialsRejected /\ FALSE /\ now # "constructor")
  BY <1>1, Zenon DEF RejectionImpliesError
<1>2. CASE /\ SendsMessage(now) /\ credentialsRejected' = credentialsRejected
           /\ UNCHANGED hasSendError
  BY <1>2 DEF SendsMessage, RejectionImpliesError
<1> QED
  BY <1>1, <1>2, Zenon DEF OnSendSucceeded, ShowOutcome

LEMMA FailureMarks ==
    ASSUME NEW unauthorized \in BOOLEAN, NEW now, NEW place,
           OnSendFailed(unauthorized, now, place), unauthorized => place = "sendFailed",
           credentialsRejected => hasSendError \/ now = "sendFailed"
    PROVE  RejectionImpliesError'
<1> DEFINE rejected == credentialsRejected \/ unauthorized
<1>1. CASE /\ hasSendError' = IF now = "constructor" THEN hasSendError ELSE TRUE
           /\ credentialsRejected' = (rejected /\ TRUE /\ now # "constructor")
  BY <1>1, Zenon DEF RejectionImpliesError
<1>2. CASE /\ SendsMessage(now) /\ suspended' = place
           /\ credentialsRejected' = rejected /\ UNCHANGED hasSendError
  BY <1>2, Zenon DEF SendsMessage, RejectionImpliesError
<1> QED
  BY <1>1, <1>2, Zenon DEF OnSendFailed, ShowOutcome

LEMMA SendMarks ==
    ASSUME RejectionImpliesError, NEW place, AfterSendNow(place) PROVE RejectionImpliesError'
<1>1. CASE captured' = captured
  BY <1>1, SuccessMarks, FailureMarks DEF AfterSendNow, RejectionImpliesError
<1>2. CASE captured' # captured
  BY <1>2 DEF AfterSendNow, RejectionImpliesError, outcome
<1> QED
  BY <1>1, <1>2

LEMMA SwitchMarks ==
    ASSUME RejectionImpliesError, NEW run \in BOOLEAN, NEW place, SwitchService(run, place)
    PROVE  RejectionImpliesError'
  BY SendMarks DEF SwitchService, RunService, HaltService, RejectionImpliesError, outcome

LEMMA StatusMarks ==
    ASSUME RejectionImpliesError, NEW status, SetUserStatus(status) PROVE RejectionImpliesError'
  BY SwitchMarks DEF SetUserStatus, RejectionImpliesError, outcome

LEMMA RefreshMarks ==
    ASSUME RejectionImpliesError, NEW place, RefreshSentStats(place),
           UNCHANGED <<hasSendError, credentialsRejected>>
    PROVE  RejectionImpliesError'
  BY DEF RefreshSentStats, AfterCritical, SendsMessage, RejectionImpliesError

LEMMA MarksStep == RejectionImpliesError /\ [AppNext]_appVars => RejectionImpliesError'
<1> SUFFICES ASSUME RejectionImpliesError, [AppNext]_appVars PROVE RejectionImpliesError'
  OBVIOUS
<1>1. CASE Launch \/ RefreshTimeout
  BY <1>1, RefreshMarks DEF Launch, RefreshTimeout
<1>2. CASE ActivityDetected \/ InactivityTimeout
  BY <1>2, StatusMarks DEF ActivityDetected, InactivityTimeout
<1>3. CASE ToggleTracking
  BY <1>3, SwitchMarks DEF ToggleTracking
<1>4. CASE SendTimeout
  BY <1>4, SendMarks DEF SendTimeout
<1>5. ASSUME NEW s \in inFlight, ReplySucceeded(s) \/ ReplyFailed(s) \/ ReplyFailedAndLost(s)
      PROVE  RejectionImpliesError'
  <2>1. CASE ReplySucceeded(s)
    <3>1. CASE OnSendSucceeded(suspended)
      BY <3>1, SuccessMarks, FailureMarks DEF RejectionImpliesError
    <3>2. CASE ~OnSendSucceeded(suspended)
      BY <2>1, <3>2 DEF ReplySucceeded, outcome, SendsMessage, RejectionImpliesError
    <3> QED
      BY <3>1, <3>2
  <2>2. CASE ReplyFailed(s)
    BY <2>2, SuccessMarks, FailureMarks DEF ReplyFailed, RejectionImpliesError
  <2>3. CASE ReplyFailedAndLost(s)
    BY <2>3 DEF ReplyFailedAndLost, outcome, SendsMessage, RejectionImpliesError
  <2> QED
    BY <1>5, <2>1, <2>2, <2>3
<1>6. CASE ResumeSlot
  <2>1. CASE suspended = "replySucceeded"
    <3>1. OnSendSucceeded("no") /\ (credentialsRejected => hasSendError)
      BY <1>6, <2>1 DEF ResumeSlot, RejectionImpliesError
    <3> QED
      BY <3>1, SuccessMarks
  <2>2. CASE suspended = "replyFailed"
    BY <1>6, <2>2, SuccessMarks, FailureMarks DEF ResumeSlot, RejectionImpliesError
  <2>3. CASE suspended \notin {"replySucceeded", "replyFailed"}
    BY <1>6, <2>3 DEF ResumeSlot, outcome, RejectionImpliesError
  <2> QED
    BY <2>1, <2>2, <2>3
<1>7. CASE DeliverSignal
  BY <1>7, SuccessMarks, FailureMarks DEF DeliverSignal, RejectionImpliesError
<1>8. CASE ExitApp \/ CrashApp
  BY <1>8 DEF ExitApp, CrashApp, ResetController, RejectionImpliesError
<1>9. CASE EditCredentials
  BY <1>9 DEF EditCredentials, RejectionImpliesError
<1>10. CASE AppWorker \/ SyncSettings \/ WallClock
  BY <1>10 DEF AppWorker, SyncSettings, WallClock, outcome, RejectionImpliesError
<1>11. CASE \/ (WakeWorker \/ Joined) /\ UNCHANGED controllerVars
            \/ QuitApp
            \/ UNCHANGED appVars
  BY <1>11 DEF QuitApp, appVars, controllerVars, outcome, RejectionImpliesError
<1> QED
  BY <1>1, <1>2, <1>3, <1>4, <1>5, <1>6, <1>7, <1>8, <1>9, <1>10, <1>11 DEF AppNext

\* The rejected mark never stays behind when the error it belongs to is cleared,
\* whichever slots run inside the sending of a message.
THEOREM RejectionIsAnError == AppSpec => []RejectionImpliesError
<1>1. AppInit => RejectionImpliesError
  BY DEF AppInit, RejectionImpliesError
<1> QED
  BY <1>1, MarksStep, PTL DEF AppSpec

-----------------------------------------------------------------------------
(* The books of the service under the controller. Its slots are the steps  *)
(* of SendingService.tla, but for three: the constructor, which sets the   *)
(* URL and starts the service in one go, a reply whose sample is lost while*)
(* a message is sent, and the wake that then comes in a slot of its own.   *)

BooksInv == /\ TypeOK /\ RowMatchesPc
            /\ EachSampleInOnePlace
            /\ ~launched => workerPc = "off"

WakeAtLast == mainPc' = "wake" /\ UNCHANGED <<workerVars, captured, inFlight, timerActive,
                                              timerInterval, restarts>>

LEMMA StepsOfService ==
    ASSUME [AppNext]_appVars
    PROVE  \/ [Next]_vars
           \/ Launch
           \/ \E s \in inFlight : ReplyFailedAndLost(s)
           \/ WakeAtLast
<1>1. CASE ActivityDetected \/ InactivityTimeout
  BY <1>1 DEF ActivityDetected, InactivityTimeout, SetUserStatus, SwitchService, RunService,
              HaltService, Next
<1>2. CASE ToggleTracking
  BY <1>2 DEF ToggleTracking, SwitchService, RunService, HaltService, Next
<1>3. CASE EditCredentials \/ RefreshTimeout \/ DeliverSignal \/ SyncSettings \/ WallClock
  <2>1. UNCHANGED vars
    BY <1>3, Zenon DEF EditCredentials, RefreshTimeout, DeliverSignal, SyncSettings, WallClock
  <2> QED
    BY <2>1
<1>4. CASE SendTimeout
  BY <1>4 DEF SendTimeout, Next
<1>5. ASSUME NEW s \in inFlight, ReplySucceeded(s) \/ ReplyFailed(s)
      PROVE  Next
  BY <1>5 DEF ReplySucceeded, ReplyFailed, Next
<1>6. CASE ResumeSlot
  BY <1>6, Zenon DEF ResumeSlot, WakeAtLast
<1>7. CASE WakeWorker \/ Joined \/ AppWorker \/ QuitApp \/ ExitApp \/ CrashApp
  BY <1>7 DEF AppWorker, QuitApp, ExitApp, CrashApp, Next
<1>8. CASE UNCHANGED appVars
  BY <1>8 DEF appVars
<1> QED
  BY <1>1, <1>2, <1>3, <1>4, <1>5, <1>6, <1>7, <1>8 DEF AppNext

LEMMA BooksInit == AppInit => BooksInv
  BY InitTyped, InitPlaced DEF AppInit, BooksInv, Init, WorkerInit

LEMMA BooksStep == BooksInv /\ TrackingInv /\ [AppNext]_appVars => BooksInv'
<1> SUFFICES ASSUME BooksInv, TrackingInv, [AppNext]_appVars PROVE BooksInv'
  OBVIOUS
<1>1. TypeOK /\ RowMatchesPc /\ EachSampleInOnePlace
  BY DEF BooksInv
<1>2. TypeOK' /\ RowMatchesPc' /\ BooksMove
  <2>1. CASE [Next]_vars
    BY <1>1, <2>1, NextTyped, StepMovesBooks
  <2>2. CASE Launch
    <3> USE DEF TypeOK, RowMatchesPc, WorkerPcs, tables
    <3>1. workerPc = "off" /\ row = NoRow
      BY <1>1, <2>2 DEF BooksInv, Launch
    <3>2. serverUrl' \in Urls \cup {NoUrl} /\ workerPc' \in {"off", "open"}
      BY <1>1, <2>2, <3>1 DEF Launch
    <3>3. CaptureMove \/ UNCHANGED books
      BY <2>2 DEF Launch, SendNow, CaptureMove, books
    <3>4. /\ timerInterval' \in {"normal", "retry"} /\ timerActive' \in BOOLEAN
          /\ stopRequested' \in BOOLEAN
          /\ UNCHANGED <<notSent, sent, received, dropped, url, row, mainPc, restarts>>
      BY <1>1, <2>2 DEF Launch, SendNow
    <3>5. captured' \in 0..MaxSamples /\ inFlight' \subseteq Samples
      <4>1. CASE CaptureMove
        <5>1. captured + 1 \in 0..MaxSamples /\ captured + 1 \in Samples
          BY <1>1, <4>1, WorkerAssumption DEF CaptureMove, Samples
        <5> QED
          BY <1>1, <4>1, <5>1 DEF CaptureMove
      <4>2. CASE UNCHANGED books
        BY <1>1, <4>2 DEF books
      <4> QED
        BY <3>3, <4>1, <4>2
    <3> QED
      BY <1>1, <3>1, <3>2, <3>3, <3>4, <3>5, Zenon DEF BooksMove
  <2>3. ASSUME NEW s \in inFlight, ReplyFailedAndLost(s) PROVE TypeOK' /\ RowMatchesPc' /\ BooksMove
    <3>1. AnswerMove(s)
      BY <2>3 DEF ReplyFailedAndLost, AnswerMove, Record
    <3>2. TypeOK' /\ RowMatchesPc'
      BY <1>1, <2>3 DEF ReplyFailedAndLost, FailToRecord, TypeOK, RowMatchesPc
    <3> QED
      BY <3>1, <3>2 DEF BooksMove
  <2>4. CASE WakeAtLast
    BY <1>1, <2>4 DEF WakeAtLast, TypeOK, RowMatchesPc, workerVars, tables, MainPcs, BooksMove, books
  <2> QED
    BY <2>1, <2>2, <2>3, <2>4, StepsOfService
<1>3. EachSampleInOnePlace'
  BY <1>1, <1>2, MoveKeepsPlaces
<1>4. ~launched' => workerPc' = "off"
  <2>1. CASE launched /\ ~launched'
    <3>1. ExitApp \/ CrashApp
      BY <2>1, Zenon
         DEF AppNext, appVars, controllerVars, tracking, Launch, ActivityDetected,
             InactivityTimeout, ToggleTracking, EditCredentials, RefreshTimeout, SendTimeout,
             ReplySucceeded, ReplyFailed, ReplyFailedAndLost, ResumeSlot, DeliverSignal,
             AppWorker, SyncSettings, WallClock, QuitApp
    <3> QED
      BY <3>1 DEF ExitApp, CrashApp, Exit, Crash, Relaunch, ResetWorker
  <2>2. CASE ~launched /\ ~launched'
    <3>1. workerPc = "off" /\ mainPc = "loop" /\ inFlight = {} /\ suspended = "no"
      BY <2>2 DEF BooksInv, TrackingInv
    <3>2. ~AppWorker
      BY <3>1 DEF AppWorker, WorkerNext, WorkerStep, OpenDatabase, ReadServerUrl, TakeRow,
                  WaitForWake, ResendSucceeds, ResendFails, RecordOutcome, WaitRetryInterval,
                  RetryIntervalElapsed, Resume, WaitUnlessStopped
    <3>3. \/ SyncSettings \/ WallClock \/ ExitApp \/ CrashApp \/ UNCHANGED appVars
      BY <2>2, <3>1, <3>2
         DEF AppNext, Launch, ActivityDetected, InactivityTimeout, ToggleTracking, WindowIsUp,
             EditCredentials, RefreshTimeout, SendTimeout, ResumeSlot, DeliverSignal, WakeWorker,
             Joined, QuitApp
    <3> QED
      BY <3>1, <3>3 DEF SyncSettings, WallClock, ExitApp, CrashApp, Exit, Crash, Relaunch, ResetWorker,
                        appVars, vars, workerVars
  <2> QED
    BY <2>1, <2>2
<1> QED
  BY <1>2, <1>3, <1>4 DEF BooksInv

LEMMA BooksInvariant == AppSpec => []BooksInv
  BY BooksInit, BooksStep, TrackingInvariant, PTL DEF AppSpec

\* The controller's slots and the loops inside them keep the promise of the service:
\* every captured sample is in one place and one row.
THEOREM SamplesAccountedForInApp == AppSpec => []EachSampleInOnePlace
<1>1. BooksInv => EachSampleInOnePlace
  BY DEF BooksInv
<1> QED
  BY <1>1, BooksInvariant, PTL

-----------------------------------------------------------------------------
(* The count of the sent table. Whoever changes the table on the main      *)
(* thread reads it in the same slot or, where the read fails, says so; the *)
(* worker leaves a signal.                                                 *)

SentSignalled == \E i \in 1..Len(signals) : signals[i] = "sendSucceeded"

\* The rows the last successful query counted, and those written since.
Counted == sent \ oldAtRead

CountInv == SentCountIsCurrent /\ signals \in Seq({"sendSucceeded", "sendFailed"})

LEMMA OutcomeCounts ==
    ASSUME NEW failed, NEW rejected, NEW now, NEW place,
           ShowOutcome(failed, rejected, now, place)
    PROVE  refreshed' => sentCount' = Cardinality(Counted')
  BY Zenon DEF ShowOutcome, StatsRead, StatsFail, Counted

LEMMA RefreshCounts ==
    ASSUME NEW place, RefreshSentStats(place)
    PROVE  refreshed' => sentCount' = Cardinality(Counted')
  BY Zenon DEF RefreshSentStats, StatsRead, StatsFail, Counted

\* What keeps the count right: it has just been read, or its table, the signals and
\* the cached count are what they were.
CountKept == /\ UNCHANGED <<sent, signals>>
             /\ launched' => launched
             /\ \/ refreshed' => sentCount' = Cardinality(Counted')
                \/ UNCHANGED stats

LEMMA StartCounts ==
    ASSUME NEW place, AfterSendNow(place), UNCHANGED sent
    PROVE  \/ refreshed' => sentCount' = Cardinality(Counted')
           \/ UNCHANGED stats
  BY OutcomeCounts DEF AfterSendNow, OnSendFailed, outcome

LEMMA SwitchCounts ==
    ASSUME NEW run \in BOOLEAN, NEW place, SwitchService(run, place)
    PROVE  /\ UNCHANGED sent
           /\ \/ refreshed' => sentCount' = Cardinality(Counted')
              \/ UNCHANGED stats
<1>1. CASE run
  <2>1. Start /\ AfterSendNow(place)
    BY <1>1 DEF SwitchService, RunService
  <2> QED
    BY <2>1, StartCounts DEF Start, tables
<1>2. CASE ~run
  BY <1>2, Zenon DEF SwitchService, HaltService, Stop, tables, outcome
<1> QED
  BY <1>1, <1>2

\* The worker's row in the sent table comes with a signal.
LEMMA WorkerSignals ==
    ASSUME BooksInv, CountInv, AppWorker
    PROVE  /\ signals' \in Seq({"sendSucceeded", "sendFailed"})
           /\ UNCHANGED <<launched, stats>>
           /\ SentSignalled \/ sent' # sent => SentSignalled'
<1> DEFINE e == EmittedByWorker
<1>1. signals \in Seq({"sendSucceeded", "sendFailed"}) /\ signals' = signals \o e
  BY DEF CountInv, AppWorker
<1>2. e \in Seq({"sendSucceeded", "sendFailed"})
  <2>1. e \in {<<"sendSucceeded">>, <<"sendFailed">>, <<>>}
    BY Zenon DEF EmittedByWorker
  <2> HIDE DEF e
  <2>2. /\ <<"sendSucceeded">> \in Seq({"sendSucceeded", "sendFailed"})
        /\ <<"sendFailed">> \in Seq({"sendSucceeded", "sendFailed"})
        /\ <<>> \in Seq({"sendSucceeded", "sendFailed"})
    OBVIOUS
  <2> QED
    BY <2>1, <2>2, Zenon
<1>3. sent' # sent => e = <<"sendSucceeded">>
  <2>1. sent' # sent => workerPc = "recordSent"
    BY DEF AppWorker, WorkerNext, WorkerStep, OpenDatabase, ReadServerUrl, TakeRow, WaitForWake,
           ResendSucceeds, ResendFails, RecordOutcome, WaitRetryInterval, RetryIntervalElapsed,
           Resume, WaitUnlessStopped, AddToSent, AddToNotSent, FailToRecord, tables
  <2>2. workerPc = "recordSent" => e = <<"sendSucceeded">>
    BY Zenon DEF EmittedByWorker
  <2> QED
    BY <2>1, <2>2
<1> HIDE DEF e
<1>4. /\ Len(signals') = Len(signals) + Len(e)
      /\ \A i \in 1..Len(signals) : signals'[i] = signals[i]
      /\ \A i \in 1..Len(e) : signals'[Len(signals) + i] = e[i]
  BY <1>1, <1>2
<1>5. SentSignalled => SentSignalled'
  BY <1>1, <1>2, <1>4 DEF SentSignalled
<1>6. sent' # sent => SentSignalled'
  <2> SUFFICES ASSUME sent' # sent PROVE SentSignalled'
    OBVIOUS
  <2>1. Len(e) = 1 /\ e[1] = "sendSucceeded"
    BY <1>3
  <2> QED
    BY <1>1, <1>4, <2>1 DEF SentSignalled
<1> QED
  BY <1>1, <1>2, <1>5, <1>6 DEF AppWorker, tracking, outcome

LEMMA CountStep == BooksInv /\ CountInv /\ [AppNext]_appVars => CountInv'
<1> SUFFICES ASSUME BooksInv, CountInv, [AppNext]_appVars PROVE CountInv'
  OBVIOUS
<1>1. /\ signals \in Seq({"sendSucceeded", "sendFailed"})
      /\ launched /\ refreshed => sentCount = Cardinality(Counted) \/ SentSignalled
  BY DEF CountInv, SentCountIsCurrent, Counted, SentSignalled
<1>2. ASSUME CountKept PROVE CountInv'
  <2>1. /\ UNCHANGED <<sent, signals>> /\ SentSignalled' = SentSignalled
        /\ launched' => launched
    BY <1>2 DEF CountKept, SentSignalled
  <2> HIDE DEF SentSignalled
  <2>2. launched' /\ refreshed' => sentCount' = Cardinality(Counted') \/ SentSignalled'
    <3>1. CASE refreshed' => sentCount' = Cardinality(Counted')
      BY <3>1
    <3>2. CASE UNCHANGED stats
      BY <1>1, <2>1, <3>2 DEF stats, Counted
    <3> QED
      BY <1>2, <3>1, <3>2 DEF CountKept
  <2> QED
    BY <1>1, <2>1, <2>2 DEF CountInv, SentCountIsCurrent, Counted, SentSignalled
<1>3. CASE Launch
  <2>1. /\ UNCHANGED signals
        /\ refreshed' => sentCount' = Cardinality(Counted')
    BY <1>3, RefreshCounts DEF Launch
  <2> QED
    BY <1>1, <2>1 DEF CountInv, SentCountIsCurrent, Counted
<1>4. CASE ActivityDetected \/ InactivityTimeout
  <2>1. PICK status \in {"ACTIVE", "INACTIVE"} : SetUserStatus(status)
    BY <1>4 DEF ActivityDetected, InactivityTimeout
  <2>2. CASE userStatus = status \/ ~pushed
    BY <1>4, <2>1, <2>2, <1>2 DEF SetUserStatus, vars, workerVars, tables, outcome, CountKept,
                                  ActivityDetected, InactivityTimeout
  <2>3. CASE ~(userStatus = status \/ ~pushed)
    <3>1. SwitchService(status = "ACTIVE", "activityDetected")
      BY <2>1, <2>3 DEF SetUserStatus
    <3>2. UNCHANGED <<launched, signals>>
      BY <1>4 DEF ActivityDetected, InactivityTimeout
    <3> QED
      BY <3>1, <3>2, SwitchCounts, <1>2 DEF CountKept
  <2> QED
    BY <2>2, <2>3
<1>5. CASE ToggleTracking
  BY <1>5, SwitchCounts, <1>2 DEF ToggleTracking, CountKept
<1>6. CASE \/ EditCredentials \/ SyncSettings \/ WallClock \/ QuitApp \/ UNCHANGED appVars
           \/ (WakeWorker \/ Joined) /\ UNCHANGED controllerVars
  BY <1>6, <1>2 DEF EditCredentials, SyncSettings, WallClock, QuitApp, Quit, WakeWorker, Joined, appVars,
                    controllerVars, outcome, tracking, vars, workerVars, tables, CountKept
<1>7. CASE RefreshTimeout
  BY <1>7, <1>2, RefreshCounts DEF RefreshTimeout, tracking, vars, workerVars, tables, CountKept
<1>8. CASE SendTimeout
  BY <1>8, <1>2, StartCounts DEF SendTimeout, Timeout, tracking, workerVars, tables, CountKept
<1>9. ASSUME NEW s \in inFlight, ReplySucceeded(s) \/ ReplyFailed(s) \/ ReplyFailedAndLost(s)
      PROVE  CountInv'
  <2>1. UNCHANGED <<launched, signals>>
    BY <1>9 DEF ReplySucceeded, ReplyFailed, ReplyFailedAndLost, tracking
  <2>2. \/ refreshed' => sentCount' = Cardinality(Counted')
        \/ UNCHANGED <<sent, stats>>
    <3>1. CASE ReplySucceeded(s) /\ ~Lost(s)
      BY <3>1, OutcomeCounts DEF ReplySucceeded, OnSendSucceeded
    <3>2. CASE ReplySucceeded(s) /\ Lost(s)
      <4>1. s \notin dropped
        BY DEF BooksInv, EachSampleInOnePlace, PlacesDisjoint
      <4>2. UNCHANGED sent
        BY <3>2, <4>1 DEF ReplySucceeded, HandleReplySucceeded, Lost, AddToSent, FailToRecord
      <4> QED
        BY <3>2, <4>2, OutcomeCounts DEF ReplySucceeded, OnSendSucceeded, outcome
    <3>3. CASE ReplyFailed(s)
      BY <3>3, OutcomeCounts DEF ReplyFailed, OnSendFailed
    <3>4. CASE ReplyFailedAndLost(s)
      BY <3>4 DEF ReplyFailedAndLost, FailToRecord, outcome
    <3> QED
      BY <1>9, <3>1, <3>2, <3>3, <3>4
  <2>3. CASE UNCHANGED <<sent, stats>>
    BY <1>2, <2>1, <2>3 DEF CountKept
  <2>4. CASE refreshed' => sentCount' = Cardinality(Counted')
    BY <1>1, <2>1, <2>4 DEF CountInv, SentCountIsCurrent, Counted
  <2> QED
    BY <2>2, <2>3, <2>4
<1>10. CASE ResumeSlot
  <2>1. UNCHANGED <<launched, signals, sent>>
    BY <1>10 DEF ResumeSlot, vars, workerVars, tables
  <2>2. \/ refreshed' => sentCount' = Cardinality(Counted')
        \/ UNCHANGED stats
    BY <1>10, OutcomeCounts DEF ResumeSlot, OnSendSucceeded, OnSendFailed, outcome
  <2> QED
    BY <2>1, <2>2, <1>2 DEF CountKept
<1>11. CASE DeliverSignal
  <2>1. refreshed' => sentCount' = Cardinality(Counted')
    BY <1>11, OutcomeCounts DEF DeliverSignal, OnSendSucceeded, OnSendFailed
  <2>2. signals' = Tail(signals) /\ signals # <<>>
    BY <1>11 DEF DeliverSignal
  <2>3. signals' \in Seq({"sendSucceeded", "sendFailed"})
    BY <1>1, <2>2
  <2> QED
    BY <2>1, <2>3 DEF CountInv, SentCountIsCurrent, Counted
<1>12. CASE AppWorker
  <2>1. /\ signals' \in Seq({"sendSucceeded", "sendFailed"})
        /\ UNCHANGED <<launched, stats>>
        /\ SentSignalled \/ sent' # sent => SentSignalled'
    BY <1>12, WorkerSignals
  <2>2. CASE SentSignalled'
    BY <2>1, <2>2 DEF CountInv, SentCountIsCurrent, SentSignalled
  <2>3. CASE ~SentSignalled'
    <3>1. sent' = sent /\ ~SentSignalled
      BY <2>1, <2>3
    <3>2. launched' /\ refreshed' => sentCount' = Cardinality(Counted')
      BY <1>1, <2>1, <3>1 DEF stats, Counted
    <3> QED
      BY <2>1, <3>2 DEF CountInv, SentCountIsCurrent, Counted
  <2> QED
    BY <2>2, <2>3
<1>13. CASE ExitApp \/ CrashApp
  <2>1. launched' = FALSE /\ signals' = <<>>
    BY <1>13 DEF ExitApp, CrashApp, ResetController
  <2> QED
    BY <2>1 DEF CountInv, SentCountIsCurrent, Counted
<1> QED
  BY <1>3, <1>4, <1>5, <1>6, <1>7, <1>8, <1>9, <1>10, <1>11, <1>12, <1>13 DEF AppNext

\* The count the window shows is that of the sent rows which were less than 24 hours
\* old at the last query, until a query fails or while a worker's signal is queued.
THEOREM CountIsCurrent == AppSpec => []SentCountIsCurrent
<1>1. AppInit => CountInv
  BY DEF AppInit, CountInv, SentCountIsCurrent, Counted
<1>2. CountInv => SentCountIsCurrent
  BY DEF CountInv
<1> QED
  BY <1>1, <1>2, CountStep, BooksInvariant, PTL DEF AppSpec
=============================================================================
