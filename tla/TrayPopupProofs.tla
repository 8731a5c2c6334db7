-------------------------- MODULE TrayPopupProofs --------------------------
(***************************************************************************)
(* Proofs about the popup and its placement, for any guard, delay, number  *)
(* of versions and number of ends of the process.                          *)
(***************************************************************************)
EXTENDS TrayPopup, TLAPS

Starting == Files \cup {"disable", "enable"}

\* What the shell runs is what is on the disk, unless this start() knows better.
InstallInv ==
    /\ gnomeActive \/ answered => pc \in {"loop", "asking"}
    /\ pc = "metadata" => ~changed
    /\ pc = "disable" => changed
    /\ ~broken => /\ pc = "script" => files["metadata"] = bundled["metadata"]
                  /\ pc \in {"disable", "enable"} \/ gnomeActive => files = bundled
                  /\ enabled /\ ~(changed /\ pc \in {"script", "disable"}) => loaded = files

\* Under KDE there is no extension, and KWin has the script of a process with a tray.
ScriptInv ==
    /\ mapping = "window" => ~tray
    /\ desktop = "kde" => pc \in {"down", "loop"} /\ ~enabled /\ ~gnomeActive
    /\ desktop = "kde" /\ ~left /\ script => pc = "loop" /\ tray /\ kwinActive

\* A popup that has gone under a waiting click went no longer ago than the click, or
\* the loss of focus it caused, has waited.
ClickInv ==
    /\ pc = "down" => ~visible /\ press = "none"
    /\ ~visible => ~focused /\ ~focusEvent
    /\ press # "none" => tray
    /\ press = "onPopup" => visible \/ (pc = "loop" /\ sinceHide <= age)
    /\ press = "onNothing" => ~visible /\ Idle /\ pc = "loop"

\* The shell remembers the request it has answered.
AnswerInv == answered => pending

PopupInv == /\ TypeOK
            /\ InstallInv /\ ScriptInv /\ ClickInv /\ AnswerInv
            /\ ScriptMovesOnlyPopups


-----------------------------------------------------------------------------
(* TypeOK.                                                                 *)

LEMMA Bounds == /\ {Guard, MaxDelay, MaxEnds} \subseteq Nat /\ MaxDelay <= Guard
                /\ 0 \in 0..MaxDelay /\ 0 \in 0..MaxEnds
                /\ 0 \in 0..Guard + 1 /\ Guard + 1 \in 0..Guard + 1
  BY PopupAssumption

\* One copy of the files after another.
LEMMA PlacementTyped == ASSUME TypeOK, StartExtension PROVE ExtensionTypeOK'
<1>1. /\ bundled \in [Files -> 1..MaxVersions] /\ loaded \in [Files -> 0..MaxVersions]
      /\ files \in [Files -> 0..MaxVersions]
      /\ changed \in BOOLEAN /\ gnomeActive \in BOOLEAN /\ broken \in BOOLEAN
      /\ enabled \in BOOLEAN /\ pending \in BOOLEAN
      /\ enabled => Complete(loaded)
      /\ pending => enabled
  BY DEF TypeOK, ExtensionTypeOK
<1>2. UNCHANGED bundled /\ pc' \in Files \cup {"disable", "enable", "loop"}
  BY DEF StartExtension, InstallExtension, InstallFile, InstallFails, CallDisable, CallEnable, Files
<1>3. CASE InstallExtension \/ InstallFails
  <2>1. UNCHANGED <<loaded, gnomeActive, enabled, pending>>
    BY <1>3 DEF InstallExtension, InstallFile, InstallFails
  <2>2. changed' \in BOOLEAN /\ broken' \in BOOLEAN
    BY <1>1, <1>3, Zenon DEF InstallExtension, InstallFile, WriteFails, InstallFails
  <2>3. ASSUME NEW f \in Files, InstallFile(f) PROVE files' \in [Files -> 0..MaxVersions]
    BY <1>1, <2>3, ExtensionAssumption DEF InstallFile, WriteFails
  <2>4. files' \in [Files -> 0..MaxVersions]
    BY <1>1, <1>3, <2>3 DEF InstallExtension, InstallFails, Files
  <2> QED
    BY <1>1, <1>2, <2>1, <2>2, <2>4 DEF ExtensionTypeOK, Complete
<1>4. CASE CallDisable
  <2>1. UNCHANGED <<files, loaded, changed, gnomeActive>>
    BY <1>4 DEF CallDisable
  <2>2. /\ broken' \in BOOLEAN
        /\ (~enabled' /\ ~pending') \/ UNCHANGED <<enabled, pending>>
        /\ enabled' \in BOOLEAN /\ pending' \in BOOLEAN
    BY <1>1, <1>4 DEF CallDisable, TurnOff
  <2> QED
    BY <1>1, <1>2, <2>1, <2>2 DEF ExtensionTypeOK, Complete
<1>5. CASE CallEnable
  <2>1. UNCHANGED <<files, changed, pending>>
    BY <1>5 DEF CallEnable
  <2>2. broken' \in BOOLEAN /\ gnomeActive' \in BOOLEAN
    BY <1>1, <1>5 DEF CallEnable
  <2>3. TurnOn \/ UNCHANGED <<loaded, enabled>>
    BY <1>5 DEF CallEnable
  <2>4. /\ loaded' \in {loaded, files} /\ enabled' \in BOOLEAN
        /\ enabled' => Complete(loaded')
        /\ enabled => enabled'
    <3>1. CASE TurnOn
      <4>1. enabled' \in BOOLEAN /\ (enabled' => Complete(loaded'))
        BY <3>1, Zenon DEF TurnOn, Complete
      <4>2. loaded' \in {loaded, files}
        BY <3>1 DEF TurnOn
      <4>3. enabled => loaded' = loaded /\ enabled' = Complete(loaded)
        BY <1>1, <3>1, Zenon DEF TurnOn
      <4> QED
        BY <1>1, <4>1, <4>2, <4>3
    <3>2. CASE UNCHANGED <<loaded, enabled>>
      BY <1>1, <3>2
    <3> QED
      BY <2>3, <3>1, <3>2
  <2> QED
    BY <1>1, <1>2, <2>1, <2>2, <2>4 DEF ExtensionTypeOK, Complete
<1> QED
  BY <1>3, <1>4, <1>5 DEF StartExtension

\* An end of the process.
LEMMA EndTyped == ASSUME TypeOK, Quit \/ Crash PROVE TypeOK'
<1> USE DEF Quit, Crash, EndProcess
<1>1. {script', left', broken'} \subseteq BOOLEAN
  <2>1. script \in BOOLEAN /\ left \in BOOLEAN /\ broken \in BOOLEAN
    BY DEF TypeOK, ExtensionTypeOK
  <2>2. script' \in BOOLEAN
    BY <2>1, Zenon
  <2>3. left' \in BOOLEAN
    BY <2>1, Zenon
  <2>4. broken' \in BOOLEAN
    BY <2>1, Zenon DEF CutOff
  <2> QED
    BY <2>2, <2>3, <2>4
<1>2. files' \in [Files -> 0..MaxVersions]
  BY ExtensionAssumption DEF TypeOK, ExtensionTypeOK, CutOff, Files
<1>3. ends' \in 0..MaxEnds
  BY Bounds DEF TypeOK
<1>4. UNCHANGED <<bundled, loaded, changed, enabled, pending>>
  OBVIOUS
<1>5. ExtensionTypeOK'
  BY <1>1, <1>2, <1>4 DEF TypeOK, ExtensionTypeOK
<1> QED
  BY <1>1, <1>3, <1>5, Bounds DEF TypeOK, Windows

LEMMA TypeStep == ASSUME TypeOK, ClickInv, [Next]_vars PROVE TypeOK'
<1> USE Bounds, ExtensionAssumption
    DEF TypeOK, ExtensionTypeOK, Windows, constant, click, placement, shell, history, installation
<1>1. CASE ClickIcon
  BY <1>1 DEF ClickIcon
<1>2. CASE LoseFocus
  BY <1>2 DEF LoseFocus
<1>3. CASE Tick
  BY <1>3 DEF Tick, Idle
<1>4. CASE OnActiveChanged
  BY <1>4 DEF OnActiveChanged, Hide
<1>5. CASE OnActivated
  <2>1. CASE Hide /\ UNCHANGED <<pc, answered>>
    BY <1>5, <2>1 DEF OnActivated, Hide
  <2>2. CASE ShowPopup
    <3>1. UNCHANGED <<constant, tray, sinceHide, placement, shell, late, left, ends>>
      BY <1>5 DEF OnActivated
    <3>2. press' = "none" /\ age' = 0 /\ tray
      BY <1>5 DEF OnActivated, ClickInv
    <3> QED
      BY <2>2, <3>1, <3>2 DEF ShowPopup, Show
  <2>3. CASE UNCHANGED <<pc, visible, focused, focusEvent, mapping, answered>>
    BY <1>5, <2>3 DEF OnActivated
  <2> QED
    BY <1>5, <2>1, <2>2, <2>3 DEF OnActivated
<1>6. CASE OnShowTriggered
  BY <1>6 DEF OnShowTriggered, ShowPopup, Show, Overtake
<1>7. CASE OnClosing
  BY <1>7 DEF OnClosing, Hide, Overtake
<1>8. CASE PlaceNextPopup \/ RequestTimesOut
  <2>1. CASE PlaceNextPopup
    BY <2>1 DEF PlaceNextPopup, Show
  <2>2. CASE RequestTimesOut
    BY <2>2 DEF RequestTimesOut, Show
  <2> QED
    BY <1>8, <2>1, <2>2
<1>9. CASE PlaceNextPopupLate
  BY <1>9 DEF PlaceNextPopupLate
<1>10. CASE MapWindow
  BY <1>10 DEF MapWindow
<1>11. CASE DisableExtension
  BY <1>11 DEF DisableExtension, TurnOff
<1>12. CASE EnableExtension
  BY <1>12 DEF EnableExtension, TurnOn, Complete
<1>13. CASE StartSession
  BY <1>13 DEF StartSession, Complete
<1>14. CASE Launch
  BY <1>14 DEF Launch, Update, StartScript, Complete, Files
<1>15. CASE StartPlacement
  <2>1. pc' # "asking"
    BY <1>15 DEF StartPlacement, StartExtension, InstallExtension, InstallFails, CallDisable, CallEnable
  <2> QED
    BY <1>15, <2>1, PlacementTyped DEF StartPlacement
<1>16. CASE UNCHANGED vars
  BY <1>16 DEF vars, Complete
<1> QED
  BY <1>1, <1>2, <1>3, <1>4, <1>5, <1>6, <1>7, <1>8, <1>9, <1>10, <1>11, <1>12, <1>13, <1>14,
     <1>15, <1>16, EndTyped DEF Next

-----------------------------------------------------------------------------
(* The extension.                                                          *)

\* What start() does to the files and the shell.
LEMMA PlacementInstalls ==
    ASSUME TypeOK, InstallInv, StartExtension, UNCHANGED answered PROVE InstallInv'
<1> USE DEF TypeOK, ExtensionTypeOK, InstallInv, Files, Complete, Absent
<1>1. ASSUME NEW f \in Files, InstallFile(f), ~broken'
      PROVE  /\ files'[f] = bundled'[f] /\ \A g \in Files \ {f} : files'[g] = files[g]
             /\ (changed' = changed /\ files' = files) \/ changed'
             /\ UNCHANGED <<bundled, loaded, enabled, gnomeActive, broken>>
  BY <1>1, ExtensionAssumption DEF InstallFile, WriteFails
<1>2. CASE InstallFile("metadata") /\ pc' = "script"
  BY <1>2, <1>1 DEF InstallFile
<1>3. CASE InstallFile("script") /\ pc' = IF changed' THEN "disable" ELSE "enable"
  <2>1. pc = "script" /\ UNCHANGED <<gnomeActive, enabled, loaded, bundled>>
    BY <1>3 DEF InstallFile
  <2>2. ASSUME ~broken' PROVE files' = bundled'
    <3>1. files' \in [Files -> 0..MaxVersions] /\ bundled' \in [Files -> 1..MaxVersions]
      BY PlacementTyped
    <3>2. files'["script"] = bundled'["script"] /\ files'["metadata"] = files["metadata"] /\ ~broken
      BY <1>1, <1>3, <2>2
    <3>3. files["metadata"] = bundled["metadata"] /\ bundled' = bundled
      BY <2>1, <3>2
    <3> QED
      BY <3>1, <3>2, <3>3
  <2>3. changed' => pc' = "disable"
    BY <1>3
  <2>4. ~changed' => pc' = "enable"
    BY <1>3
  <2> QED
    BY <1>1, <1>3, <2>1, <2>2, <2>3, <2>4
<1>4. CASE InstallFails
  BY <1>4 DEF InstallFails
<1>5. CASE CallDisable
  BY <1>5 DEF CallDisable, TurnOff
<1>6. CASE CallEnable
  <2>1. /\ pc = "enable" /\ pc' = "loop" /\ ~gnomeActive
        /\ UNCHANGED <<bundled, files, changed>>
        /\ broken => broken'
    BY <1>6 DEF CallEnable
  <2>2. TurnOn \/ UNCHANGED <<loaded, enabled>>
    BY <1>6 DEF CallEnable
  <2>3. enabled' /\ ~broken => loaded' = files
    BY <2>1, <2>2 DEF TurnOn
  <2> QED
    BY <2>1, <2>3
<1> QED
  BY <1>2, <1>3, <1>4, <1>5, <1>6 DEF StartExtension, InstallExtension

LEMMA InstallStep == ASSUME TypeOK, InstallInv, [Next]_vars PROVE InstallInv'
<1> USE DEF InstallInv, TypeOK, ExtensionTypeOK, constant, click, placement, shell, history,
            installation
<1>1. CASE ClickIcon \/ LoseFocus \/ Tick \/ OnActiveChanged \/ OnClosing
  BY <1>1 DEF ClickIcon, LoseFocus, Tick, OnActiveChanged, OnClosing
<1>2. CASE OnActivated \/ OnShowTriggered
  BY <1>2 DEF OnActivated, OnShowTriggered, Hide, ShowPopup, Show
<1>3. CASE PlaceNextPopup \/ RequestTimesOut \/ PlaceNextPopupLate \/ MapWindow
  BY <1>3 DEF PlaceNextPopup, RequestTimesOut, PlaceNextPopupLate, MapWindow, Show
<1>4. CASE DisableExtension \/ EnableExtension \/ StartSession
  <2>1. CASE DisableExtension
    BY <2>1 DEF DisableExtension, TurnOff
  <2>2. CASE EnableExtension
    BY <2>2 DEF EnableExtension, TurnOn
  <2>3. CASE StartSession
    BY <2>3 DEF StartSession
  <2> QED
    BY <1>4, <2>1, <2>2, <2>3
<1>5. CASE Launch
  BY <1>5 DEF Launch, StartScript
<1>6. CASE StartPlacement
  BY <1>6, PlacementInstalls DEF StartPlacement
<1>7. CASE Quit \/ Crash
  BY <1>7 DEF Quit, Crash, EndProcess, CutOff, Files
<1>8. CASE UNCHANGED vars
  BY <1>8 DEF vars
<1> QED
  BY <1>1, <1>2, <1>3, <1>4, <1>5, <1>6, <1>7, <1>8 DEF Next

\* An answered request is with the shell until the popup is mapped.
LEMMA AnswerStep == ASSUME TypeOK, InstallInv, AnswerInv, [Next]_vars PROVE AnswerInv'
<1> USE DEF InstallInv, AnswerInv, TypeOK, ExtensionTypeOK, constant, click, placement, shell,
            history
<1>1. CASE ClickIcon \/ LoseFocus \/ Tick \/ OnActiveChanged \/ OnClosing \/ Launch
  BY <1>1 DEF ClickIcon, LoseFocus, Tick, OnActiveChanged, OnClosing, Launch
<1>2. CASE OnActivated \/ OnShowTriggered
  BY <1>2 DEF OnActivated, OnShowTriggered, Hide, ShowPopup, Show
<1>3. CASE PlaceNextPopup \/ RequestTimesOut \/ PlaceNextPopupLate \/ MapWindow
  BY <1>3 DEF PlaceNextPopup, RequestTimesOut, PlaceNextPopupLate, MapWindow, Show
<1>4. CASE DisableExtension \/ EnableExtension \/ StartSession
  BY <1>4 DEF DisableExtension, EnableExtension, StartSession
<1>5. CASE StartPlacement
  BY <1>5 DEF StartPlacement, StartExtension, InstallExtension, InstallFails, CallDisable,
              CallEnable, InstallFile, Files
<1>6. CASE Quit \/ Crash
  BY <1>6 DEF Quit, Crash, EndProcess
<1>7. CASE UNCHANGED vars
  BY <1>7 DEF vars
<1> QED
  BY <1>1, <1>2, <1>3, <1>4, <1>5, <1>6, <1>7 DEF Next

-----------------------------------------------------------------------------
(* The KWin script.                                                        *)

\* What Show may do to the compositor's windows.
LEMMA ShowsPopup == (ShowPopup \/ \E asked \in BOOLEAN : Show(asked))
                        => mapping' \in {mapping, "popup"}
  BY DEF ShowPopup, Show

LEMMA ScriptStep == ASSUME TypeOK, InstallInv, ScriptInv, [Next]_vars PROVE ScriptInv'
<1> USE DEF InstallInv, ScriptInv, TypeOK, ExtensionTypeOK, constant, click, placement, shell,
            history
<1>1. CASE ClickIcon \/ LoseFocus \/ Tick \/ OnActiveChanged \/ OnClosing
  BY <1>1 DEF ClickIcon, LoseFocus, Tick, OnActiveChanged, OnClosing, Hide
<1>2. CASE OnActivated \/ OnShowTriggered
  <2>1. /\ UNCHANGED <<desktop, tray, gnomeActive, kwinActive, script, enabled, left>>
        /\ pc = "loop" /\ pc' \in {"loop", "asking"}
        /\ pc' = "asking" => gnomeActive
    BY <1>2 DEF OnActivated, OnShowTriggered, ShowPopup
  <2>2. mapping' \in {mapping, "popup", "none"}
    BY <1>2, ShowsPopup DEF OnActivated, OnShowTriggered, Hide
  <2> QED
    BY <2>1, <2>2
<1>3. CASE PlaceNextPopup \/ RequestTimesOut \/ PlaceNextPopupLate \/ MapWindow
  BY <1>3 DEF PlaceNextPopup, RequestTimesOut, PlaceNextPopupLate, MapWindow, Show
<1>4. CASE DisableExtension \/ EnableExtension \/ StartSession
  <2>1. CASE DisableExtension
    BY <2>1 DEF DisableExtension, TurnOff
  <2>2. CASE EnableExtension
    BY <2>2 DEF EnableExtension, TurnOn
  <2>3. CASE StartSession
    BY <2>3 DEF StartSession
  <2> QED
    BY <1>4, <2>1, <2>2, <2>3
<1>5. CASE Launch
  BY <1>5 DEF Launch, StartScript
<1>6. CASE StartPlacement
  BY <1>6 DEF StartPlacement, StartExtension, InstallExtension, InstallFile, InstallFails,
              CallDisable, CallEnable, TurnOff
<1>7. CASE Quit \/ Crash
  BY <1>7 DEF Quit, Crash, EndProcess
<1>8. CASE UNCHANGED vars
  BY <1>8 DEF vars
<1> QED
  BY <1>1, <1>2, <1>3, <1>4, <1>5, <1>6, <1>7, <1>8 DEF Next

\* The window of a process without a tray moves for no script.
LEMMA MovedStep == ASSUME TypeOK, ScriptInv, ScriptMovesOnlyPopups, [Next]_vars
                   PROVE  ScriptMovesOnlyPopups'
<1> USE DEF ScriptMovesOnlyPopups, constant, shell, history
<1>1. CASE MapWindow
  BY <1>1 DEF MapWindow, ScriptInv, Windows
<1>2. CASE Quit \/ Crash
  BY <1>2 DEF Quit, Crash, EndProcess, TypeOK
<1>3. CASE ClickIcon \/ LoseFocus \/ Tick \/ OnActiveChanged \/ OnClosing
  BY <1>3 DEF ClickIcon, LoseFocus, Tick, OnActiveChanged, OnClosing
<1>4. CASE OnActivated \/ OnShowTriggered \/ PlaceNextPopup \/ RequestTimesOut
  BY <1>4 DEF OnActivated, OnShowTriggered, PlaceNextPopup, RequestTimesOut
<1>5. CASE PlaceNextPopupLate \/ DisableExtension \/ EnableExtension \/ StartSession
  BY <1>5 DEF PlaceNextPopupLate, DisableExtension, EnableExtension, StartSession
<1>6. CASE Launch \/ StartPlacement \/ UNCHANGED vars
  BY <1>6 DEF Launch, StartPlacement, vars
<1> QED
  BY <1>1, <1>2, <1>3, <1>4, <1>5, <1>6 DEF Next

-----------------------------------------------------------------------------
(* The click.                                                              *)

\* What a click is made on.
LEMMA ClickIconPress ==
    ClickIcon => /\ press' = "onPopup" => visible
                 /\ press' = "onNothing" => ~visible /\ pc = "loop" /\ Idle
<1> SUFFICES ASSUME ClickIcon
             PROVE  /\ press' = "onPopup" => visible
                    /\ press' = "onNothing" => ~visible /\ pc = "loop" /\ Idle
  OBVIOUS
<1>1. CASE visible
  <2>1. press' = "onPopup"
    BY <1>1, Zenon DEF ClickIcon
  <2> QED
    BY <1>1, <2>1
<1>2. CASE ~visible /\ pc = "loop" /\ Idle
  <2>1. press' = "onNothing"
    BY <1>2, Zenon DEF ClickIcon
  <2> QED
    BY <1>2, <2>1
<1>3. CASE ~visible /\ ~(pc = "loop" /\ Idle)
  <2>1. press' = "onEither"
    BY <1>3, Zenon DEF ClickIcon
  <2> QED
    BY <2>1
<1> QED
  BY <1>1, <1>2, <1>3

LEMMA ClickStep == ASSUME TypeOK, InstallInv, ClickInv, [Next]_vars PROVE ClickInv'
<1> USE Bounds DEF InstallInv, ClickInv, TypeOK, Idle, constant, click, placement, shell, history
<1>1. CASE ClickIcon
  BY <1>1, ClickIconPress DEF ClickIcon
<1>2. CASE LoseFocus
  BY <1>2 DEF LoseFocus
<1>3. CASE Tick
  BY <1>3 DEF Tick, Waiting
<1>4. CASE OnActiveChanged
  BY <1>4 DEF OnActiveChanged, Hide
<1>5. CASE OnActivated
  BY <1>5 DEF OnActivated, Hide, ShowPopup, Show
<1>6. CASE OnShowTriggered \/ OnClosing
  BY <1>6 DEF OnShowTriggered, OnClosing, Hide, ShowPopup, Show, Overtake
<1>7. CASE PlaceNextPopup \/ RequestTimesOut
  BY <1>7 DEF PlaceNextPopup, RequestTimesOut, Show
<1>8. CASE PlaceNextPopupLate \/ MapWindow
  BY <1>8 DEF PlaceNextPopupLate, MapWindow
<1>9. CASE DisableExtension \/ EnableExtension \/ StartSession
  <2>1. UNCHANGED <<pc, tray, visible, click>>
    BY <1>9 DEF DisableExtension, EnableExtension, StartSession
  <2> QED
    BY <2>1
<1>10. CASE Launch
  BY <1>10 DEF Launch, StartScript
<1>11. CASE StartPlacement
  BY <1>11 DEF StartPlacement, StartExtension, InstallExtension, InstallFile, InstallFails,
               CallDisable, CallEnable, Files
<1>12. CASE Quit \/ Crash
  BY <1>12 DEF Quit, Crash, EndProcess
<1>13. CASE UNCHANGED vars
  BY <1>13 DEF vars
<1> QED
  BY <1>1, <1>2, <1>3, <1>4, <1>5, <1>6, <1>7, <1>8, <1>9, <1>10, <1>11, <1>12, <1>13 DEF Next

-----------------------------------------------------------------------------
LEMMA InitPopup == Init => PopupInv
<1> SUFFICES ASSUME Init PROVE PopupInv
  OBVIOUS
<1> USE DEF Init, ExtensionInit
<1>1. ExtensionTypeOK
  <2>1. 1 \in 1..MaxVersions /\ 0 \in 0..MaxVersions
    BY ExtensionAssumption
  <2>2. bundled \in [Files -> 1..MaxVersions] /\ Absent \in [Files -> 0..MaxVersions]
    BY <2>1 DEF Absent
  <2> QED
    BY <2>2 DEF ExtensionTypeOK
<1>2. TypeOK
  BY <1>1, Bounds DEF TypeOK, Windows
<1>3. InstallInv /\ AnswerInv
  BY DEF InstallInv, AnswerInv
<1>4. ScriptInv /\ ScriptMovesOnlyPopups
  BY DEF ScriptInv, ScriptMovesOnlyPopups
<1>5. ClickInv
  BY DEF ClickInv
<1> QED
  BY <1>2, <1>3, <1>4, <1>5 DEF PopupInv

LEMMA PopupInvariant == Spec => []PopupInv
<1>1. PopupInv /\ [Next]_vars => PopupInv'
  BY TypeStep, InstallStep, ScriptStep, ClickStep, AnswerStep, MovedStep DEF PopupInv
<1> QED
  BY <1>1, InitPopup, PTL DEF Spec

\* Every variable keeps its type, and a process without a tray is never asked to
\* place a popup.
THEOREM PopupTypes == Spec => []TypeOK
<1>1. PopupInv => TypeOK
  BY DEF PopupInv
<1> QED
  BY <1>1, PopupInvariant, PTL

\* An extension the program counts on is the one it has brought (installGnomeExtension).
THEOREM ExtensionCurrent == Spec => []ExtensionIsCurrent
<1>1. PopupInv => ExtensionIsCurrent
  BY DEF PopupInv, InstallInv, ExtensionIsCurrent, Files
<1> QED
  BY <1>1, PopupInvariant, PTL

\* KWin's script moves no normal window while no process has left one behind.
THEOREM ScriptMovesPopups == Spec => []ScriptMovesOnlyPopups
<1>1. PopupInv => ScriptMovesOnlyPopups
  BY DEF PopupInv
<1> QED
  BY <1>1, PopupInvariant, PTL

\* The popup of a request that was answered is placed (requestPlacement).
THEOREM AnsweredIsPlaced == Spec => PlacedWhenAnswered
<1>1. ASSUME PopupInv, [Next]_vars
      PROVE  [MapWindow /\ mapping = "popup" /\ answered => moved' = "popup"]_vars
  BY <1>1 DEF PopupInv, AnswerInv, TypeOK, ExtensionTypeOK, MapWindow
<1> QED
  BY <1>1, PopupInvariant, PTL DEF Spec, PlacedWhenAnswered

\* A click on the icon closes the popup it was made on, whichever of the click and
\* the loss of focus comes first, and opens one where none was (onActivated).
THEOREM ClickIsToggle == Spec => ClickToggles
<1>1. ASSUME PopupInv, [Next]_vars
      PROVE  [OnActivated => /\ press = "onPopup" => ~visible' /\ pc' = "loop"
                             /\ press = "onNothing" => visible' \/ pc' = "asking"]_vars
  <2> SUFFICES ASSUME OnActivated
               PROVE  /\ press = "onPopup" => ~visible' /\ pc' = "loop"
                      /\ press = "onNothing" => visible' \/ pc' = "asking"
    OBVIOUS
  <2>1. ASSUME press = "onPopup" PROVE ~visible' /\ pc' = "loop"
    <3>1. visible \/ ~Idle
      BY <1>1, <2>1, Bounds DEF PopupInv, TypeOK, ClickInv, Idle
    <3> QED
      BY <3>1 DEF OnActivated, Hide
  <2>2. ASSUME press = "onNothing" PROVE visible' \/ pc' = "asking"
    BY <1>1, <2>2 DEF PopupInv, ClickInv, OnActivated, ShowPopup, Show
  <2> QED
    BY <2>1, <2>2
<1> QED
  BY <1>1, PopupInvariant, PTL DEF Spec, ClickToggles
=============================================================================
