------------------------------ MODULE Sampling ------------------------------
(***************************************************************************)
(* What a sample is made of: SendingService::sendNow reads the focused     *)
(* window's title (FocusedWindowTitle.tla) and the wall clock, and takes no*)
(* sample while the system's clock synchronisation is confirmed to be off. *)
(* It then tries again every two seconds, and the controller tells the user*)
(* (MainController::notifyClockSyncDisabled), throttled by the very clock  *)
(* that is not synchronised. Time is counted in ticks of a retry interval. *)
(* What the samples become is in SendingService.tla.                       *)
(***************************************************************************)
EXTENDS FocusedWindowTitle, Integers

CONSTANTS Minute,      \* kNormalIntervalMs and kClockSyncNotificationIntervalMs, in ticks
          MaxShift     \* bound: ticks the wall clock is set by between two notices

ASSUME SamplingAssumption == Minute \in Nat \ {0} /\ MaxShift \in Nat

VARIABLES constructed,   \* the MainController is
          running,       \* m_timer.isActive()
          retrying,      \* m_timer.interval() is kClockSyncRetryIntervalMs
          due,           \* ticks until m_timer fires
          syncOff,       \* the system's clock synchronisation is off (external)
          sinceNotice,   \* ticks since the last notice was asked for; LongAgo: longer ago than matters
          shift,         \* ticks the wall clock has been set forward since
          setBack,       \* the furthest it has been behind meanwhile (history)
          unheard        \* the constructor's sendNow was refused, and none since (history)

service == <<constructed, running, retrying, due>>
notice == <<sinceNotice, shift, setBack, unheard>>
samplingVars == <<service, notice, syncOff>>
allVars == <<vars, samplingVars>>

LongAgo == Minute + MaxShift

SamplingReset == /\ constructed' = FALSE
                 /\ running' = FALSE
                 /\ retrying' = FALSE
                 /\ due' = 0
                 /\ sinceNotice' = LongAgo
                 /\ shift' = 0
                 /\ setBack' = 0
                 /\ unheard' = FALSE

SamplingInit == /\ Init
                /\ constructed = FALSE
                /\ running = FALSE
                /\ retrying = FALSE
                /\ due = 0
                /\ syncOff \in BOOLEAN
                /\ sinceNotice = LongAgo
                /\ shift = 0
                /\ setBack = 0
                /\ unheard = FALSE

(***************************************************************************)
(* Slots of the main thread                                                *)
(***************************************************************************)
\* isClockSyncEnabled: off only if the system says so; any failure counts as on.
ClockSyncAnswers == {~syncOff} \cup (IF Faults THEN {TRUE} ELSE {})

\* The system may fail to show it, and nobody hears of that.
ShowNotification == sinceNotice' = 0 /\ shift' = 0 /\ setBack' = 0

\* Mutant: every attempt counts for the throttle, shown or not.
NotifyThrottlingAttempts ==
    IF sinceNotice + shift < Minute
    THEN sinceNotice' = sinceNotice /\ shift' = -sinceNotice /\ UNCHANGED setBack
    ELSE ShowNotification
\* The wall clock says when the last notice was; a process starts with none.
NotifyClockSyncDisabled ==
    IF sinceNotice + shift < Minute
    THEN UNCHANGED <<sinceNotice, shift, setBack>>
    ELSE ShowNotification

\* sendNow; connected: the controller's slot is connected to clockSyncDisabled.
SendNow(connected) ==
    \E enabled \in ClockSyncAnswers :
        /\ retrying' = ~enabled
        /\ due' = IF enabled THEN Minute ELSE 1
        /\ unheard' = (~enabled /\ ~connected)
        /\ IF enabled \/ ~connected
           THEN UNCHANGED <<sinceNotice, shift, setBack>>
           ELSE NotifyClockSyncDisabled

\* The constructor starts the service, if the button is pushed, before it connects
\* its slot.
ConstructController ==
    /\ pc = "loop" /\ ~constructed
    /\ constructed' = TRUE
    /\ \/ running' = TRUE /\ SendNow(FALSE)
       \/ UNCHANGED <<running, retrying, due, notice>>
    /\ UNCHANGED syncOff

\* start() by the Start button, or by activity.
StartService ==
    /\ constructed
    /\ running' = TRUE
    /\ SendNow(TRUE)
    /\ UNCHANGED <<constructed, syncOff>>

StopService ==
    /\ constructed /\ running
    /\ running' = FALSE
    /\ UNCHANGED <<constructed, retrying, due, notice, syncOff>>

TimerFires ==
    /\ running /\ due = 0
    /\ SendNow(TRUE)
    /\ UNCHANGED <<constructed, running, syncOff>>

(***************************************************************************)
(* The surroundings. The event loop handles a due timer before time goes   *)
(* on.                                                                     *)
(***************************************************************************)
Tick ==
    /\ constructed /\ (running => due > 0)
    /\ due' = IF running THEN due - 1 ELSE due
    /\ sinceNotice' = IF sinceNotice < LongAgo THEN sinceNotice + 1 ELSE LongAgo
    /\ UNCHANGED <<constructed, running, retrying, shift, setBack, unheard, syncOff>>

\* Somebody sets the wall clock; without synchronisation nothing sets it right.
SetClock ==
    /\ constructed
    /\ shift' \in (-MaxShift)..MaxShift
    /\ setBack' = IF -shift' > setBack THEN -shift' ELSE setBack
    /\ UNCHANGED <<service, sinceNotice, unheard, syncOff>>

SwitchSync == syncOff' = ~syncOff /\ UNCHANGED <<service, notice>>

SamplingStep == \/ ConstructController
                \/ StartService
                \/ StopService
                \/ TimerFires
                \/ Tick
                \/ SetClock
                \/ SwitchSync

\* The desktop's steps; the end of the process takes the controller with it.
TitleStep == /\ Next
             /\ IF pc' = "down" THEN SamplingReset /\ UNCHANGED syncOff
                                ELSE UNCHANGED samplingVars

SamplingNext == \/ SamplingStep /\ UNCHANGED vars
                \/ TitleStep

SamplingSpec == SamplingInit /\ [][SamplingNext]_allVars

(***************************************************************************)
(* Properties                                                              *)
(***************************************************************************)
\* The type invariant: only a process that has reached its event loop samples.
SamplingTypeOK == /\ TypeOK
                  /\ {constructed, running, retrying, syncOff, unheard} \subseteq BOOLEAN
                  /\ constructed => pc = "loop"
                  /\ running => constructed
                  /\ due \in 0..Minute
                  /\ sinceNotice \in 0..LongAgo
                  /\ shift \in (-MaxShift)..MaxShift
                  /\ setBack \in 0..MaxShift

\* A user whose samples are not taken knows it: while the service is refused, the
\* last notice is never older than a minute and what the wall clock has been set back
\* since, whatever was stopped, started and set in between. Only a refusal of the
\* constructor's own attempt goes unnoticed, for one retry interval.
ToldWithinAMinute ==
    running /\ retrying /\ ~unheard => sinceNotice <= Minute + setBack
=============================================================================
