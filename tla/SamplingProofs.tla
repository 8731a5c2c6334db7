--------------------------- MODULE SamplingProofs ---------------------------
(***************************************************************************)
(* Proofs about Sampling.tla and FocusedWindowTitle.tla, for every retry   *)
(* interval, every shift of the wall clock, every desktop, set of windows  *)
(* and number of calls under way.                                          *)
(*                                                                         *)
(* ToldWithinAMinute is not inductive: it has to leave room for the ticks  *)
(* until the next attempt, and to know that the wall clock is behind by no *)
(* more than it has been. What is known of the active window rests on the  *)
(* last title KWin's script has told, arrived or not: while the script runs*)
(* it is the active window's, and none only if the script is an earlier    *)
(* process's; while none runs it is none, unless one was taken away.       *)
(***************************************************************************)
EXTENDS Sampling, SequenceTheorems, TLAPS

NoticeTyped == /\ due \in Nat
               /\ sinceNotice \in Nat
               /\ shift \in Int
               /\ setBack \in Nat

\* By the next attempt the notice will still be young enough.
InTime(since, until, back) == since + until <= Minute + back
ToldInTime == running /\ retrying /\ ~unheard => InTime(sinceNotice, due, setBack)

NotFurther(set, back) == 0 <= back + set

NoticeInv == /\ NoticeTyped
             /\ NotFurther(shift, setBack)
             /\ ToldInTime

-----------------------------------------------------------------------------
(* Arithmetic, kept apart from the steps.                                  *)

LEMMA TickIsInTime ==
    \A since, until, back, since1, until1 \in Int :
        InTime(since, until, back) /\ since1 <= since + 1 /\ until1 = until - 1
            => InTime(since1, until1, back)
  BY SamplingAssumption DEF InTime

LEMMA NoticeIsInTime ==
    \A since, set, back \in Int :
        since + set < Minute /\ NotFurther(set, back) => InTime(since, 1, back)
  BY SamplingAssumption DEF InTime, NotFurther

LEMMA SetBackIsInTime ==
    \A since, until, back, back1 \in Int :
        InTime(since, until, back) /\ back <= back1 => InTime(since, until, back1)
  BY SamplingAssumption DEF InTime

LEMMA SetBackIsFurthest ==
    \A set \in Int, back \in Nat :
        LET back1 == IF -set > back THEN -set ELSE back
        IN  back1 \in Nat /\ back <= back1 /\ NotFurther(set, back1)
  BY DEF NotFurther

LEMMA NewNotice == InTime(0, 1, 0) /\ NotFurther(0, 0)
  BY SamplingAssumption DEF InTime, NotFurther

-----------------------------------------------------------------------------
\* sendNow leaves the notice young enough, whatever it was before.
LEMMA SendNowTells ==
    ASSUME NoticeInv, NEW connected \in BOOLEAN, SendNow(connected)
    PROVE  NoticeInv'
<1> USE SamplingAssumption DEF NoticeInv, NoticeTyped
<1>1. PICK enabled \in ClockSyncAnswers :
        /\ retrying' = ~enabled
        /\ due' = IF enabled THEN Minute ELSE 1
        /\ unheard' = (~enabled /\ ~connected)
        /\ IF enabled \/ ~connected
           THEN UNCHANGED <<sinceNotice, shift, setBack>>
           ELSE NotifyClockSyncDisabled
  BY DEF SendNow
<1>2. CASE enabled \/ ~connected
  BY <1>1, <1>2 DEF ToldInTime
<1>3. CASE ~(enabled \/ ~connected)
  <2>1. NotifyClockSyncDisabled /\ due' = 1
    BY <1>1, <1>3
  <2>2. CASE sinceNotice + shift < Minute
    <3>1. UNCHANGED <<sinceNotice, shift, setBack>>
      BY <2>1, <2>2 DEF NotifyClockSyncDisabled
    <3>2. InTime(sinceNotice, 1, setBack)
      BY <2>2, NoticeIsInTime
    <3> QED
      BY <2>1, <3>1, <3>2 DEF ToldInTime
  <2>3. CASE ~(sinceNotice + shift < Minute)
    <3>1. sinceNotice' = 0 /\ shift' = 0 /\ setBack' = 0
      BY <2>1, <2>3 DEF NotifyClockSyncDisabled, ShowNotification
    <3> QED
      BY <2>1, <3>1, NewNotice DEF ToldInTime
  <2> QED
    BY <2>2, <2>3
<1> QED
  BY <1>2, <1>3

LEMMA InitNotice == SamplingInit => NoticeInv
<1> SUFFICES ASSUME SamplingInit PROVE NoticeInv
  OBVIOUS
<1>1. LongAgo \in Nat
  BY SamplingAssumption DEF LongAgo
<1>2. /\ running = FALSE /\ retrying = FALSE /\ unheard = FALSE /\ due = 0
      /\ sinceNotice = LongAgo /\ shift = 0 /\ setBack = 0
  BY DEF SamplingInit
<1>3. NoticeTyped
  BY <1>1, <1>2 DEF NoticeTyped
<1>4. NotFurther(shift, setBack)
  BY <1>2, NewNotice
<1>5. ToldInTime
  BY <1>2 DEF ToldInTime
<1> QED
  BY <1>3, <1>4, <1>5 DEF NoticeInv

LEMMA NextNotice ==
    ASSUME NoticeInv, [SamplingNext]_allVars
    PROVE  NoticeInv'
<1> USE SamplingAssumption DEF NoticeInv, NoticeTyped
<1>0. LongAgo \in Nat
  BY DEF LongAgo
<1>1. CASE ConstructController
  <2>1. CASE running' = TRUE /\ SendNow(FALSE)
    BY <2>1, SendNowTells
  <2>2. CASE UNCHANGED <<running, retrying, due, notice>>
    BY <2>2 DEF notice, ToldInTime
  <2> QED
    BY <1>1, <2>1, <2>2 DEF ConstructController
<1>2. CASE StartService
  BY <1>2, SendNowTells DEF StartService
<1>3. CASE StopService
  BY <1>3 DEF StopService, notice, ToldInTime
<1>4. CASE TimerFires
  BY <1>4, SendNowTells DEF TimerFires
<1>5. CASE Tick
  <2>1. UNCHANGED <<running, retrying, unheard, shift, setBack>>
    BY <1>5 DEF Tick
  <2>2. sinceNotice' \in Nat /\ sinceNotice' <= sinceNotice + 1
    BY <1>0, <1>5 DEF Tick
  <2>3. CASE running
    <3>1. due > 0 /\ due' = due - 1 /\ due' \in Nat
      BY <1>5, <2>3 DEF Tick
    <3>2. ToldInTime'
      BY <2>1, <2>2, <3>1, TickIsInTime DEF ToldInTime
    <3> QED
      BY <2>1, <2>2, <3>1, <3>2
  <2>4. CASE ~running
    <3>1. due' = due
      BY <1>5, <2>4 DEF Tick
    <3> QED
      BY <2>1, <2>2, <2>4, <3>1 DEF ToldInTime
  <2> QED
    BY <2>3, <2>4
<1>6. CASE SetClock
  <2>1. UNCHANGED <<running, retrying, unheard, due, sinceNotice>>
    BY <1>6 DEF SetClock, service
  <2>2. shift' \in Int /\ setBack' = IF -shift' > setBack THEN -shift' ELSE setBack
    BY <1>6 DEF SetClock
  <2>3. setBack' \in Nat /\ setBack <= setBack' /\ NotFurther(shift', setBack')
    BY <2>2, SetBackIsFurthest
  <2>4. ToldInTime'
    BY <2>1, <2>3, SetBackIsInTime DEF ToldInTime
  <2> QED
    BY <2>1, <2>2, <2>3, <2>4
<1>7. CASE SwitchSync
  BY <1>7 DEF SwitchSync, service, notice, ToldInTime
<1>8. CASE TitleStep
  <2>1. CASE SamplingReset
    <3>1. /\ running' = FALSE /\ retrying' = FALSE /\ unheard' = FALSE /\ due' = 0
          /\ sinceNotice' = LongAgo /\ shift' = 0 /\ setBack' = 0
      BY <2>1 DEF SamplingReset
    <3> QED
      BY <1>0, <3>1, NewNotice DEF ToldInTime
  <2>2. CASE UNCHANGED samplingVars
    BY <2>2 DEF samplingVars, service, notice, ToldInTime
  <2> QED
    BY <1>8, <2>1, <2>2 DEF TitleStep
<1>9. CASE UNCHANGED allVars
  BY <1>9 DEF allVars, samplingVars, service, notice, ToldInTime
<1> QED
  BY <1>1, <1>2, <1>3, <1>4, <1>5, <1>6, <1>7, <1>8, <1>9 DEF SamplingNext, SamplingStep

\* A user whose samples are refused for an unsynchronised clock is told in time
\* (MainController::notifyClockSyncDisabled), although the throttle measures the time
\* since the last notice with that very clock.
THEOREM UserIsTold == SamplingSpec => []ToldWithinAMinute
<1>1. NoticeInv => ToldWithinAMinute
  BY SamplingAssumption DEF NoticeInv, NoticeTyped, ToldInTime, InTime, ToldWithinAMinute
<1> QED
  BY <1>1, InitNotice, NextNotice, PTL DEF SamplingSpec

-----------------------------------------------------------------------------
(* The focused window's title.                                             *)

\* Each desktop has its own way through main().
OwnSteps == /\ pc \in {"unload", "load", "run"} => desktop = "kde"
            /\ pc \in {"enabled?", "install", "enable"} => desktop = "gnome"

\* What the script has told the program last, although it may not have heard yet.
LastTold == IF calls = <<>> THEN title ELSE calls[Len(calls)]

KDEInv ==
    /\ ~registered => calls = <<>> /\ title = NoTitle
    /\ script = "running" => LastTold.window \in {active, NoWindow}
    /\ script # "running" /\ ~orphaned => LastTold.window = NoWindow
    /\ desktop = "kde" /\ ~failed =>
           /\ pc \in {"unload", "load", "run", "loop"} => registered
           /\ pc = "load" => script = "absent"
           /\ pc = "run" => script = "loaded"
           /\ pc = "loop" /\ script = "running" => LastTold.window = active

GnomeInv ==
    desktop = "gnome" /\ ~failed /\ pc = "loop" => extension \in {"absent", "enabled"}

TitleInv == TypeOK /\ OwnSteps /\ KDEInv /\ GnomeInv


LEMMA TitleOfTyped ==
    ASSUME caption \in [Windows -> Captions], NEW w \in Windows \cup {NoWindow}
    PROVE  TitleOf(w) \in Titles /\ TitleOf(w).window = w
  BY DEF TitleOf, Titles, NoTitle

\* The script's call is the last thing told, if there is anybody to hear it.
LEMMA ReportTells ==
    ASSUME TypeOK, Room, NEW w \in Windows \cup {NoWindow}, ReportActiveWindowTitle(w),
           UNCHANGED title
    PROVE  /\ calls' \in Seq(Titles) /\ Len(calls') <= MaxCalls
           /\ registered => LastTold'.window = w
           /\ ~registered => calls' = calls
<1>1. /\ calls \in Seq(Titles) /\ Len(calls) \in Nat /\ Len(calls) < MaxCalls
      /\ TitleOf(w) \in Titles /\ TitleOf(w).window = w
  BY TitleOfTyped DEF TypeOK, Room
<1>2. CASE registered
  <2> DEFINE told == Append(calls, TitleOf(w))
  <2>1. /\ told \in Seq(Titles) /\ Len(told) = Len(calls) + 1 /\ told # <<>>
        /\ told[Len(calls) + 1] = TitleOf(w)
    BY <1>1, AppendProperties
  <2>2. calls' = told
    BY <1>2 DEF ReportActiveWindowTitle
  <2> HIDE DEF told
  <2>3. LastTold'.window = w
    BY <1>1, <2>1, <2>2 DEF LastTold
  <2>4. Len(calls') <= MaxCalls
    BY <1>1, <2>1, <2>2, TitleAssumption
  <2> QED
    BY <1>2, <2>1, <2>2, <2>3, <2>4
<1>3. CASE ~registered
  BY <1>1, <1>3, TitleAssumption DEF ReportActiveWindowTitle
<1> QED
  BY <1>2, <1>3

\* The program hears in the order the script tells.
LEMMA HearingTold ==
    ASSUME TypeOK, SetActiveWindowTitle
    PROVE  /\ calls' \in Seq(Titles) /\ Len(calls') <= MaxCalls /\ title' \in Titles
           /\ LastTold' = LastTold
<1>1. calls \in Seq(Titles) /\ calls # <<>> /\ Len(calls) \in Nat /\ Len(calls) <= MaxCalls
  BY DEF TypeOK, SetActiveWindowTitle
<1>2. /\ title' = Head(calls) /\ calls' = Tail(calls)
  BY DEF SetActiveWindowTitle
<1>3. /\ Head(calls) \in Titles /\ Tail(calls) \in Seq(Titles)
      /\ Len(Tail(calls)) = Len(calls) - 1 /\ Head(calls) = calls[1]
      /\ \A j \in 1..Len(Tail(calls)) : Tail(calls)[j] = calls[j + 1]
  BY <1>1, HeadTailProperties
<1>4. CASE Tail(calls) = <<>>
  <2>1. Len(calls) = 1
    <3>1. Len(Tail(calls)) = 0
      BY <1>4
    <3>2. Len(calls) - 1 = 0
      BY <1>3, <3>1, Zenon
    <3> QED
      BY <1>1, <3>2
  <2> QED
    BY <1>1, <1>2, <1>3, <1>4, <2>1, TitleAssumption DEF LastTold
<1>5. CASE Tail(calls) # <<>>
  <2>1. Len(Tail(calls)) # 0
    BY <1>3, <1>5
  <2>2. Tail(calls)[Len(calls) - 1] = calls[Len(calls)]
    BY <1>1, <1>3, <2>1
  <2> QED
    BY <1>1, <1>2, <1>3, <1>5, <2>2, TitleAssumption DEF LastTold
<1> QED
  BY <1>4, <1>5

LEMMA InitTitle == Init => TitleInv
<1> SUFFICES ASSUME Init PROVE TitleInv
  OBVIOUS
<1>1. NoTitle \in Titles /\ <<>> \in Seq(Titles) /\ Len(<<>>) = 0 /\ NoTitle.window = NoWindow
  BY DEF Titles, NoTitle
<1>2. TypeOK
  <2>1. calls \in Seq(Titles) /\ Len(calls) <= MaxCalls
    BY <1>1, TitleAssumption DEF Init
  <2>2. title \in Titles
    BY <1>1 DEF Init
  <2> QED
    BY <2>1, <2>2 DEF Init, TypeOK
<1>3. OwnSteps /\ GnomeInv
  BY DEF Init, OwnSteps, GnomeInv
<1>4. KDEInv
  BY <1>1 DEF Init, KDEInv, LastTold
<1> QED
  BY <1>2, <1>3, <1>4 DEF TitleInv

\* A step of KWin's script, or around it.
LEMMA ActivateKeeps ==
    ASSUME TitleInv, NEW w \in Windows \cup {NoWindow}, Activate(w), UNCHANGED gnome
    PROVE  TitleInv'
<1> USE DEF TitleInv, Activate, gnome, program
<1>1. CASE script = "running"
  <2>1. /\ calls' \in Seq(Titles) /\ Len(calls') <= MaxCalls
        /\ registered => LastTold'.window = w
        /\ ~registered => calls' = calls
    BY <1>1, ReportTells
  <2>2. ~registered => LastTold' = NoTitle
    BY <2>1 DEF KDEInv, LastTold
  <2>3. TypeOK'
    BY <2>1 DEF TypeOK
  <2>4. KDEInv'
    <3>1. /\ LastTold'.window \in {w, NoWindow}
          /\ registered => LastTold'.window = w
      <4>1. NoTitle.window = NoWindow
        BY DEF NoTitle
      <4>2. CASE registered
        BY <2>1, <4>2
      <4>3. CASE ~registered
        BY <2>2, <4>1, <4>3
      <4> QED
        BY <4>2, <4>3
    <3>2. UNCHANGED <<script, registered, pc, title, failed, desktop, orphaned>> /\ active' = w
      OBVIOUS
    <3>3. ~registered => calls' = <<>> /\ title' = NoTitle
      BY <2>1, <3>2 DEF KDEInv
    <3> QED
      BY <1>1, <3>1, <3>2, <3>3 DEF KDEInv
  <2> QED
    BY <2>3, <2>4 DEF OwnSteps, GnomeInv
<1>2. CASE script # "running"
  <2>1. TypeOK'
    BY <1>2 DEF TypeOK
  <2>2. KDEInv'
    BY <1>2 DEF KDEInv, LastTold
  <2> QED
    BY <2>1, <2>2 DEF OwnSteps, GnomeInv
<1> QED
  BY <1>1, <1>2

LEMMA BeginScriptKeeps == ASSUME TitleInv, BeginScript, UNCHANGED gnome PROVE TitleInv'
<1> USE DEF TitleInv, BeginScript, gnome, program
<1>1. /\ calls' \in Seq(Titles) /\ Len(calls') <= MaxCalls
      /\ registered => LastTold'.window = active
      /\ ~registered => calls' = calls
  BY ReportTells DEF TypeOK
<1>2. ~registered => LastTold' = NoTitle
  BY <1>1 DEF KDEInv, LastTold
<1>3. TypeOK'
  BY <1>1 DEF TypeOK
<1>4. KDEInv'
  <2>1. /\ LastTold'.window \in {active, NoWindow}
        /\ registered => LastTold'.window = active
    <3>1. NoTitle.window = NoWindow
      BY DEF NoTitle
    <3>2. CASE registered
      BY <1>1, <3>2
    <3>3. CASE ~registered
      BY <1>2, <3>1, <3>3
    <3> QED
      BY <3>2, <3>3
  <2> QED
    BY <1>1, <2>1 DEF KDEInv
<1> QED
  BY <1>3, <1>4 DEF OwnSteps, GnomeInv

LEMMA EndKeeps == ASSUME TitleInv, Quit \/ Crash, UNCHANGED gnome PROVE TitleInv'
<1> USE DEF TitleInv, gnome, EndProcess
<1>1. /\ calls' = <<>> /\ ~registered' /\ registered' \in BOOLEAN /\ pc' = "down"
      /\ started' = FALSE /\ title' = NoTitle /\ UNCHANGED <<active, caption>> /\ ~orphaned' /\ orphaned' \in BOOLEAN
      /\ script' \in {script, "absent"} /\ failed' \in BOOLEAN
  BY DEF Quit, Crash, Succeeds, Fails, TypeOK
<1>2. NoTitle \in Titles /\ <<>> \in Seq(Titles) /\ Len(<<>>) = 0 /\ NoTitle.window = NoWindow
  BY DEF Titles, NoTitle
<1>3. TypeOK'
  <2>1. calls' \in Seq(Titles) /\ Len(calls') <= MaxCalls
    BY <1>1, <1>2, TitleAssumption
  <2>2. title' \in Titles
    BY <1>1, <1>2
  <2> QED
    BY <1>1, <2>1, <2>2 DEF TypeOK
<1>4. KDEInv'
  BY <1>1, <1>2 DEF KDEInv, LastTold
<1> QED
  BY <1>1, <1>3, <1>4 DEF OwnSteps, GnomeInv

\* start() under KDE, and all that happens to KWin meanwhile.
LEMMA KDEStartKeeps ==
    ASSUME TitleInv, UNCHANGED gnome,
           RestartKWin \/ RegisterService \/ UnloadEarlierCopy \/ LoadScript \/ RunScript
    PROVE  TitleInv'
<1> USE DEF TitleInv, gnome, kwin, Succeeds, Fails, LoadFails, ScriptGoes
<1>0. ~registered => LastTold.window = NoWindow
  <2>1. ~registered => calls = <<>> /\ title = NoTitle
    BY DEF KDEInv
  <2>2. NoTitle.window = NoWindow
    BY DEF NoTitle
  <2> QED
    BY <2>1, <2>2, Zenon DEF LastTold
<1>1. UNCHANGED <<active, caption, calls, title>> /\ LastTold' = LastTold
  BY DEF RestartKWin, RegisterService, UnloadEarlierCopy, LoadScript, RunScript, program, LastTold
<1>2. CASE RestartKWin
  BY <1>0, <1>1, <1>2 DEF RestartKWin, program, TypeOK, OwnSteps, KDEInv, GnomeInv
<1>3. CASE RegisterService
  BY <1>1, <1>3 DEF RegisterService, TypeOK, OwnSteps, KDEInv, GnomeInv
<1>4. CASE UnloadEarlierCopy
  BY <1>0, <1>1, <1>4 DEF UnloadEarlierCopy, TypeOK, OwnSteps, KDEInv, GnomeInv
<1>5. CASE LoadScript
  BY <1>1, <1>5 DEF LoadScript, TypeOK, OwnSteps, KDEInv, GnomeInv
<1>6. CASE RunScript
  BY <1>1, <1>6 DEF RunScript, TypeOK, OwnSteps, KDEInv, GnomeInv
<1> QED
  BY <1>2, <1>3, <1>4, <1>5, <1>6

\* The rest of what changes under KDE.
LEMMA KDEKeeps == ASSUME TitleInv, KDENext, UNCHANGED gnome PROVE TitleInv'
<1>1. ASSUME NEW w \in Windows, ChangeCaption(w) PROVE TitleInv'
  <2> USE DEF TitleInv, gnome, program
  <2>1. /\ caption' \in [Windows -> Captions] /\ UNCHANGED <<active, script, orphaned, calls, failed>>
        /\ UNCHANGED <<registered, pc, started, title>> /\ LastTold' = LastTold
    BY <1>1 DEF ChangeCaption, TypeOK, LastTold
  <2>2. TypeOK'
    BY <2>1 DEF TypeOK
  <2> QED
    BY <2>1, <2>2 DEF OwnSteps, KDEInv, GnomeInv
<1>2. CASE SetActiveWindowTitle
  <2> USE DEF TitleInv, gnome, kwin, SetActiveWindowTitle
  <2>1. /\ calls' \in Seq(Titles) /\ Len(calls') <= MaxCalls /\ title' \in Titles
        /\ LastTold' = LastTold
    BY <1>2, HearingTold
  <2>2. registered
    BY <1>2 DEF KDEInv
  <2>3. TypeOK'
    BY <1>2, <2>1 DEF TypeOK
  <2> QED
    BY <1>2, <2>1, <2>2, <2>3 DEF OwnSteps, KDEInv, GnomeInv
<1> QED
  BY <1>1, <1>2, ActivateKeeps, BeginScriptKeeps, KDEStartKeeps, EndKeeps DEF KDENext

\* Elsewhere KWin and its script are not touched.
LEMMA OtherDesktopKeeps == ASSUME TitleInv, OtherDesktopNext PROVE TitleInv'
<1> USE DEF TitleInv, Succeeds, Fails, UserAnswers
<1>1. /\ UNCHANGED <<desktop, active, caption, script, orphaned, calls, registered, started, title>>
      /\ LastTold' = LastTold
  BY DEF OtherDesktopNext, kwin, LastTold
<1>2. CASE StartGNOME
  <2>1. /\ desktop = "gnome" /\ failed' \in BOOLEAN
        /\ extension' \in {"absent", "disabled", "enabled"} /\ dialog' \in BOOLEAN
        /\ pc' \in {"enabled?", "install", "enable", "loop"}
    BY <1>2 DEF StartGNOME, IsGNOMEFocusedWindowDBusInstalled, IsGNOMEFocusedWindowDBusEnabled,
                InstallGNOMEFocusedWindowDBus, EnableGNOMEFocusedWindowDBus, TypeOK, OwnSteps
  <2>2. pc' = "loop" /\ ~failed' => extension' \in {"absent", "enabled"}
    BY <1>2 DEF StartGNOME, IsGNOMEFocusedWindowDBusInstalled, IsGNOMEFocusedWindowDBusEnabled,
                InstallGNOMEFocusedWindowDBus, EnableGNOMEFocusedWindowDBus
  <2> QED
    BY <1>1, <2>1, <2>2 DEF TypeOK, OwnSteps, KDEInv, GnomeInv
<1>3. CASE AnswerDialog \/ ChangeExtension
  <2>1. /\ desktop = "gnome" /\ failed' = TRUE /\ pc' = pc
        /\ extension' \in {"absent", "disabled", "enabled"} /\ dialog' \in BOOLEAN
    BY <1>3 DEF AnswerDialog, ChangeExtension, TypeOK
  <2> QED
    BY <1>1, <2>1 DEF TypeOK, OwnSteps, KDEInv, GnomeInv
<1>4. CASE StartElsewhere
  BY <1>1, <1>4 DEF StartElsewhere, TypeOK, OwnSteps, KDEInv, GnomeInv
<1> QED
  BY <1>2, <1>3, <1>4 DEF OtherDesktopNext

LEMMA NextTitle == TitleInv /\ [Next]_vars => TitleInv'
<1> SUFFICES ASSUME TitleInv, [Next]_vars PROVE TitleInv'
  OBVIOUS
<1>1. CASE UNCHANGED vars
  BY <1>1 DEF vars, kdeVars, kwin, program, gnome, TitleInv, TypeOK, OwnSteps, KDEInv, LastTold,
              GnomeInv
<1> QED
  BY <1>1, KDEKeeps, OtherDesktopKeeps DEF Next


\* The way from what was told last to the title a sample gets.
LEMMA TitleAnswers ==
    ASSUME TitleInv, NEW t \in FocusedWindowTitles,
           desktop = "kde" => calls = <<>> /\ ~orphaned
    PROVE  t.window \in {active, NoWindow}
<1>1. TitleOf(active).window = active /\ NoTitle.window = NoWindow
  BY TitleOfTyped DEF TitleInv, TypeOK, NoTitle
<1>2. CASE desktop = "kde"
  <2>1. t = title /\ LastTold = title
    BY <1>2 DEF FocusedWindowTitles, LastTold
  <2> QED
    BY <1>2, <2>1 DEF TitleInv, KDEInv
<1>3. CASE desktop # "kde"
  <2>1. t \in {TitleOf(active), NoTitle}
    <3>1. CASE desktop = "gnome"
      BY <3>1 DEF FocusedWindowTitles, AskExtension, Unanswered
    <3>2. CASE desktop = "cinnamon"
      BY <3>2 DEF FocusedWindowTitles, AskCinnamon, Unanswered
    <3>3. CASE desktop = "windows"
      BY <3>3 DEF FocusedWindowTitles, ForegroundWindowText
    <3>4. CASE desktop = "macos"
      BY <3>4 DEF FocusedWindowTitles, FocusedWindowAttribute, Unanswered
    <3>5. CASE desktop = "other"
      BY <3>5 DEF FocusedWindowTitles
    <3> QED
      BY <1>3, <3>1, <3>2, <3>3, <3>4, <3>5, TitleAssumption DEF TitleInv, TypeOK
  <2> QED
    BY <1>1, <2>1
<1> QED
  BY <1>2, <1>3

LEMMA TitleIsKnown == TitleInv => KnowsActiveWindow
<1> SUFFICES ASSUME TitleInv, Settled, desktop = "kde" => started, ~failed
             PROVE  \E t \in FocusedWindowTitles : t.window = active
  BY DEF KnowsActiveWindow
<1>1. TitleOf(active).window = active
  BY TitleOfTyped DEF TitleInv, TypeOK
<1>2. CASE desktop = "kde"
  <2>1. title \in FocusedWindowTitles /\ LastTold = title
    BY <1>2 DEF FocusedWindowTitles, Settled, LastTold
  <2> QED
    BY <1>2, <2>1 DEF TitleInv, KDEInv, Settled
<1>3. CASE desktop # "kde"
  <2>1. TitleOf(active) \in FocusedWindowTitles
    <3>1. CASE desktop = "gnome"
      <4>1. extension = "enabled"
        BY <3>1 DEF TitleInv, GnomeInv, Settled
      <4> QED
        BY <3>1, <4>1 DEF FocusedWindowTitles, AskExtension
    <3>2. CASE desktop = "cinnamon"
      BY <3>2 DEF FocusedWindowTitles, AskCinnamon
    <3>3. CASE desktop = "windows"
      BY <3>3 DEF FocusedWindowTitles, ForegroundWindowText
    <3>4. CASE desktop = "macos"
      BY <3>4 DEF FocusedWindowTitles, FocusedWindowAttribute
    <3> QED
      BY <1>3, <3>1, <3>2, <3>3, <3>4, TitleAssumption DEF Settled, TitleInv, TypeOK
  <2> QED
    BY <1>1, <2>1
<1> QED
  BY <1>2, <1>3

-----------------------------------------------------------------------------
(* The samples over it.                                                    *)

LEMMA TitleInvariant == SamplingSpec => []TitleInv
<1>1. SamplingInit => TitleInv
  BY InitTitle DEF SamplingInit
<1>2. [SamplingNext]_allVars => [Next]_vars
  BY DEF SamplingNext, TitleStep, allVars
<1> QED
  BY <1>1, <1>2, NextTitle, PTL DEF SamplingSpec

\* A started program knows the active window's title (Utilities::focusedWindowTitle),
\* for any windows, titles and number of the script's calls under way.
THEOREM ActiveWindowKnown == SamplingSpec => []KnowsActiveWindow
  BY TitleInvariant, TitleIsKnown, PTL

\* And it never sends another window's, whatever fails and whenever KWin restarts,
\* unless the script it heard is gone with nothing in its place.
THEOREM NoOtherWindow == SamplingSpec => []NeverAnotherWindow
<1>1. TitleInv => NeverAnotherWindow
  BY TitleAnswers DEF NeverAnotherWindow
<1> QED
  BY <1>1, TitleInvariant, PTL

\* Only a process in its event loop samples, and every counter keeps its bound.
SamplingInv == /\ {constructed, running, retrying, syncOff, unheard} \subseteq BOOLEAN
               /\ constructed => pc = "loop"
               /\ running => constructed
               /\ due \in 0..Minute
               /\ sinceNotice \in 0..LongAgo
               /\ shift \in (-MaxShift)..MaxShift
               /\ setBack \in 0..MaxShift

LEMMA SamplingBounds == /\ Minute \in Nat /\ Minute > 0 /\ LongAgo \in Nat
                        /\ 0 \in 0..Minute /\ 1 \in 0..Minute /\ Minute \in 0..Minute
                        /\ 0 \in 0..LongAgo /\ LongAgo \in 0..LongAgo
                        /\ 0 \in (-MaxShift)..MaxShift /\ 0 \in 0..MaxShift
  BY SamplingAssumption DEF LongAgo

LEMMA SetBackBounded ==
    \A set \in (-MaxShift)..MaxShift, back \in 0..MaxShift :
        (IF -set > back THEN -set ELSE back) \in 0..MaxShift
  BY SamplingAssumption

LEMMA SendNowTyped ==
    ASSUME SamplingInv, NEW connected \in BOOLEAN, SendNow(connected)
    PROVE  /\ retrying' \in BOOLEAN /\ unheard' \in BOOLEAN /\ due' \in 0..Minute
           /\ sinceNotice' \in 0..LongAgo /\ shift' \in (-MaxShift)..MaxShift
           /\ setBack' \in 0..MaxShift
<1> USE SamplingBounds DEF SamplingInv
<1>1. PICK enabled \in ClockSyncAnswers :
        /\ retrying' = ~enabled
        /\ due' = IF enabled THEN Minute ELSE 1
        /\ unheard' = (~enabled /\ ~connected)
        /\ IF enabled \/ ~connected
           THEN UNCHANGED <<sinceNotice, shift, setBack>>
           ELSE NotifyClockSyncDisabled
  BY DEF SendNow
<1>2. due' \in 0..Minute
  BY <1>1
<1>3. retrying' \in BOOLEAN /\ unheard' \in BOOLEAN
  BY <1>1, Zenon
<1>4. UNCHANGED <<sinceNotice, shift, setBack>> \/ ShowNotification
  BY <1>1 DEF NotifyClockSyncDisabled
<1> QED
  BY <1>2, <1>3, <1>4 DEF ShowNotification

\* From the event loop the desktop's steps lead nowhere but out.
LEMMA LoopStays == ASSUME Next, pc = "loop" PROVE pc' \in {"loop", "down"}
<1>1. CASE KDENext
  BY <1>1 DEF KDENext, Activate, ChangeCaption, BeginScript, RestartKWin, RegisterService,
              UnloadEarlierCopy, LoadScript, RunScript, SetActiveWindowTitle, Quit, Crash,
              EndProcess, program
<1>2. CASE OtherDesktopNext
  BY <1>2 DEF OtherDesktopNext, StartGNOME, IsGNOMEFocusedWindowDBusInstalled,
              IsGNOMEFocusedWindowDBusEnabled, InstallGNOMEFocusedWindowDBus,
              EnableGNOMEFocusedWindowDBus, AnswerDialog, ChangeExtension, StartElsewhere
<1> QED
  BY <1>1, <1>2 DEF Next

LEMMA NextSampling == ASSUME SamplingInv, [SamplingNext]_allVars PROVE SamplingInv'
<1> USE SamplingAssumption, SamplingBounds DEF SamplingInv
<1>1. CASE SamplingStep /\ UNCHANGED vars
  <2>1. UNCHANGED pc
    BY <1>1 DEF vars, kdeVars, program
  <2>2. CASE ConstructController
    <3>1. CASE running' = TRUE /\ SendNow(FALSE)
      BY <2>1, <2>2, <3>1, SendNowTyped DEF ConstructController
    <3>2. CASE UNCHANGED <<running, retrying, due, notice>>
      BY <2>1, <2>2, <3>2 DEF ConstructController, notice
    <3> QED
      BY <2>2, <3>1, <3>2 DEF ConstructController
  <2>3. CASE StartService \/ TimerFires
    <3>1. SendNow(TRUE) /\ constructed' = constructed /\ constructed /\ syncOff' = syncOff
      BY <2>3 DEF StartService, TimerFires
    <3>2. running' \in BOOLEAN
      BY <2>3 DEF StartService, TimerFires
    <3> QED
      BY <2>1, <3>1, <3>2, SendNowTyped
  <2>4. CASE StopService \/ SwitchSync
    <3>1. CASE StopService
      BY <2>1, <3>1 DEF StopService, notice
    <3>2. CASE SwitchSync
      <4>1. UNCHANGED <<service, notice>> /\ syncOff' \in BOOLEAN
        BY <3>2, Zenon DEF SwitchSync
      <4> QED
        BY <2>1, <4>1 DEF service, notice
    <3> QED
      BY <2>4, <3>1, <3>2
  <2>5. CASE Tick
    <3>1. due' \in 0..Minute
      BY <2>5 DEF Tick
    <3>2. sinceNotice' \in 0..LongAgo
      BY <2>5 DEF Tick
    <3> QED
      BY <2>1, <2>5, <3>1, <3>2 DEF Tick
  <2>6. CASE SetClock
    <3>1. /\ shift' \in (-MaxShift)..MaxShift
          /\ setBack' = IF -shift' > setBack THEN -shift' ELSE setBack
      BY <2>6 DEF SetClock
    <3>2. setBack' \in 0..MaxShift
      BY <3>1, SetBackBounded
    <3> QED
      BY <2>1, <2>6, <3>1, <3>2 DEF SetClock, service
  <2> QED
    BY <1>1, <2>2, <2>3, <2>4, <2>5, <2>6 DEF SamplingStep
<1>2. CASE TitleStep
  <2>1. CASE pc' = "down"
    BY <1>2, <2>1 DEF TitleStep, SamplingReset
  <2>2. CASE pc' # "down"
    BY <1>2, <2>2, LoopStays DEF TitleStep, samplingVars, service, notice
  <2> QED
    BY <2>1, <2>2
<1>3. CASE UNCHANGED allVars
  BY <1>3 DEF allVars, vars, kdeVars, program, samplingVars, service, notice
<1> QED
  BY <1>1, <1>2, <1>3 DEF SamplingNext

\* Every variable keeps its type, for any interval and any shift of the clock.
THEOREM SamplingTypes == SamplingSpec => []SamplingTypeOK
<1>1. SamplingInit => SamplingInv
  BY SamplingBounds DEF SamplingInit, SamplingInv
<1>2. SamplingInv /\ TitleInv => SamplingTypeOK
  BY DEF SamplingInv, TitleInv, SamplingTypeOK
<1> QED
  BY <1>1, <1>2, NextSampling, TitleInvariant, PTL DEF SamplingSpec

=============================================================================
