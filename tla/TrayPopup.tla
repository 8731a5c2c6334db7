----------------------------- MODULE TrayPopup -----------------------------
(***************************************************************************)
(* The popup of the tray icon (qml/Main.qml): a click on the icon shows or *)
(* hides it, and it hides when it loses the focus, which the same click may*)
(* cause. Under Wayland the compositor places it: a GNOME Shell extension  *)
(* when PopupPlacement asks it to, a KWin script on its own. A process that*)
(* finds no tray shows a normal window of the same title instead.          *)
(*                                                                         *)
(* The click and the loss of focus reach the program on channels of their  *)
(* own, as do the program's D-Bus call and its window the compositor.      *)
(***************************************************************************)
EXTENDS PlacementExtension

CONSTANTS Guard,      \* the 300 ms of onActivated
          MaxDelay,   \* how long an event waits for the event loop
          MaxEnds     \* bound: ends of the process

\* A click has to come through within the guard of the focus it has taken.
ASSUME PopupAssumption == /\ {Guard, MaxDelay, MaxEnds} \subseteq Nat
                          /\ MaxDelay <= Guard

VARIABLES desktop,     \* "gnome" or "kde", under Wayland
          tray,        \* trayAvailable
          visible,     \* the window's visible
          sinceHide,   \* Date.now() - lastFocusHideMs, up to Guard + 1
          focused,     \* the desktop gives the window the focus
          focusEvent,  \* activeChanged is on its way
          press,       \* a click on the icon on its way, and what it was made on
          age,         \* how long the older of the two has waited for the loop
          kwinActive,  \* m_kwinActive
          script,      \* KWin has the placement script
          late,        \* a PlaceNextPopup nobody waits for any more is on its way
          mapping,     \* the window the compositor is about to map
          moved,       \* what the compositor moved last
          answered,    \* the request for the window in mapping holds (history)
          left,        \* a process ended without unloading its script (history)
          ends

click == <<sinceHide, focused, focusEvent, press, age>>
placement == <<gnomeActive, kwinActive>>
shell == <<script, enabled, pending, moved>>
history == <<answered, left, ends>>
constant == <<desktop, installation>>
vars == <<constant, pc, tray, visible, click, placement, shell, late, mapping, history>>

Windows == {"none", "popup", "window"}

Init == /\ desktop \in {"gnome", "kde"}
        /\ ExtensionInit
        /\ tray = FALSE
        /\ visible = FALSE
        /\ sinceHide = Guard + 1
        /\ focused = FALSE
        /\ focusEvent = FALSE
        /\ press = "none"
        /\ age = 0
        /\ kwinActive = FALSE
        /\ script = FALSE
        /\ late = FALSE
        /\ mapping = "none"
        /\ moved = "none"
        /\ answered = FALSE
        /\ left = FALSE
        /\ ends = 0

(***************************************************************************)
(* The user and the time                                                   *)
(***************************************************************************)
\* No popup has just gone.
Idle == sinceHide > Guard

\* A click on the icon; most desktops take the popup's focus for it.
ClickIcon ==
    /\ pc \in {"loop", "asking"} /\ tray /\ press = "none"
    /\ press' = CASE visible                            -> "onPopup"
                  [] ~visible /\ pc = "loop" /\ Idle -> "onNothing"
                  [] OTHER                              -> "onEither"
    /\ \/ focused /\ focused' = FALSE /\ focusEvent' = TRUE
       \/ UNCHANGED <<focused, focusEvent>>
    /\ UNCHANGED <<constant, pc, tray, visible, sinceHide, age, placement, shell, late, mapping,
                   history>>

\* The user turns to another window.
LoseFocus ==
    /\ focused
    /\ focused' = FALSE
    /\ focusEvent' = TRUE
    /\ UNCHANGED <<constant, pc, tray, visible, sinceHide, press, age, placement, shell, late,
                   mapping, history>>

Waiting == focusEvent \/ press # "none"

\* Time passes; the event loop leaves nothing waiting longer than MaxDelay.
Tick ==
    /\ Waiting \/ ~Idle
    /\ pc = "loop" /\ Waiting => age < MaxDelay
    /\ age' = IF pc = "loop" /\ Waiting THEN age + 1 ELSE age
    /\ sinceHide' = IF Idle THEN sinceHide ELSE sinceHide + 1
    /\ UNCHANGED <<constant, pc, tray, visible, focused, focusEvent, press, placement, shell,
                   late, mapping, history>>

(***************************************************************************)
(* Main.qml                                                                *)
(***************************************************************************)
Hide == /\ visible' = FALSE
        /\ focused' = FALSE
        /\ focusEvent' = FALSE
        /\ mapping' = "none"

\* show(), raise() and requestActivate() at the end of showPopup; the desktop need
\* not give it the focus.
Show(asked) == /\ visible' = TRUE
               /\ focused' \in BOOLEAN
               /\ focusEvent' = FALSE
               /\ mapping' = IF visible THEN mapping ELSE "popup"
               /\ answered' = asked

\* Mutant: the window is shown before the extension is asked to place it.
ShowThenAsk ==
    IF gnomeActive
    THEN /\ pc' = "asking"
         /\ Show(TRUE)
    ELSE /\ Show(FALSE)
         /\ UNCHANGED pc
\* Mutant: the extension is asked under KDE too.
AskWhereverActive ==
    IF gnomeActive \/ kwinActive
    THEN /\ pc' = "asking"
         /\ UNCHANGED <<visible, focused, focusEvent, mapping, answered>>
    ELSE /\ Show(FALSE)
         /\ UNCHANGED pc
\* showPopup, up to requestPlacement if the extension is active.
ShowPopup ==
    IF gnomeActive
    THEN /\ pc' = "asking"
         /\ UNCHANGED <<visible, focused, focusEvent, mapping, answered>>
    ELSE /\ Show(FALSE)
         /\ UNCHANGED pc

\* Mutant: the time of the loss of focus is not kept.
OnActiveChangedUntimed ==
    /\ pc = "loop" /\ focusEvent
    /\ IF tray /\ visible
       THEN Hide /\ UNCHANGED sinceHide
       ELSE focusEvent' = FALSE /\ UNCHANGED <<visible, focused, mapping, sinceHide>>
    /\ age' = 0
    /\ UNCHANGED <<constant, pc, tray, press, placement, shell, late, history>>
OnActiveChanged ==
    /\ pc = "loop" /\ focusEvent
    /\ IF tray /\ visible
       THEN Hide /\ sinceHide' = 0
       ELSE focusEvent' = FALSE /\ UNCHANGED <<visible, focused, mapping, sinceHide>>
    /\ age' = 0
    /\ UNCHANGED <<constant, pc, tray, press, placement, shell, late, history>>

\* onActivated for a Trigger.
OnActivated ==
    /\ pc = "loop" /\ press # "none"
    /\ press' = "none"
    /\ age' = 0
    /\ \/ visible /\ Hide /\ UNCHANGED <<pc, answered>>
       \/ ~visible /\ Idle /\ ShowPopup
       \/ ~visible /\ ~Idle
          /\ UNCHANGED <<pc, visible, focused, focusEvent, mapping, answered>>
    /\ UNCHANGED <<constant, tray, sinceHide, placement, shell, late, left, ends>>

\* A click on its way may now close what it was to open, or open what it was to close.
Overtake == press' = IF press = "none" THEN "none" ELSE "onEither"

\* The menu's Show, of a popup that may be visible already.
OnShowTriggered ==
    /\ pc = "loop" /\ tray
    /\ ShowPopup
    /\ Overtake
    /\ UNCHANGED <<constant, tray, sinceHide, age, placement, shell, late, left, ends>>

\* Esc or a request to close hides the popup; it closes the normal window, which
\* nothing shows again, while the process goes on.
OnClosing ==
    /\ pc = "loop" /\ visible
    /\ Hide
    /\ Overtake
    /\ UNCHANGED <<constant, pc, tray, sinceHide, age, placement, shell, late, history>>

(***************************************************************************)
(* requestPlacement                                                        *)
(***************************************************************************)
\* The shell handles the call and answers: with an error if the extension is not
\* enabled, and after it has mapped what the window showed before.
PlaceNextPopup ==
    /\ pc = "asking" /\ mapping = "none"
    /\ pending' = enabled
    /\ Show(enabled)
    /\ pc' = "loop"
    /\ UNCHANGED <<constant, tray, sinceHide, press, age, placement, script, enabled, moved, late,
                   left, ends>>

\* 500 ms without an answer: the shell still has the call.
RequestTimesOut ==
    /\ Faults /\ pc = "asking"
    /\ late' = TRUE
    /\ Show(FALSE)
    /\ pc' = "loop"
    /\ UNCHANGED <<constant, tray, sinceHide, press, age, placement, shell, left, ends>>

PlaceNextPopupLate ==
    /\ late
    /\ late' = FALSE
    /\ pending' = (pending \/ enabled)
    /\ UNCHANGED <<constant, pc, tray, visible, click, placement, script, enabled, moved, mapping,
                   history>>

(***************************************************************************)
(* The compositor                                                          *)
(***************************************************************************)
\* #onMap, and windowAdded in the KWin script: neither tells the popup from the
\* normal window.
MapWindow ==
    /\ mapping # "none"
    /\ mapping' = "none"
    /\ answered' = FALSE
    /\ IF (enabled /\ pending) \/ script
       THEN moved' = mapping /\ pending' = FALSE
       ELSE UNCHANGED <<moved, pending>>
    /\ UNCHANGED <<constant, pc, tray, visible, click, placement, script, enabled, late, left,
                   ends>>

\* disable() and enable(), as the shell locks and unlocks the screen.
DisableExtension ==
    /\ enabled
    /\ TurnOff
    /\ answered' = FALSE
    /\ UNCHANGED <<constant, pc, tray, visible, click, placement, script, moved, late, mapping,
                   left, ends>>

EnableExtension ==
    /\ desktop = "gnome" /\ ~enabled /\ loaded # Absent
    /\ TurnOn
    /\ UNCHANGED <<desktop, bundled, files, changed, broken, pc, tray, visible, click, placement,
                   script, pending, moved, late, mapping, history>>

\* External: a new session, and a shell that looks for its extensions.
StartSession ==
    /\ desktop = "gnome" /\ pc = "down"
    /\ loaded' = files
    /\ enabled' \in {FALSE, Complete(files)}
    /\ pending' = FALSE
    /\ late' = FALSE
    /\ UNCHANGED <<desktop, bundled, files, changed, broken, pc, tray, visible, click, placement,
                   script, moved, mapping, history>>

(***************************************************************************)
(* The process                                                             *)
(***************************************************************************)
\* PopupPlacement::start under KDE.
StartScript ==
    /\ pc' = "loop"
    /\ \/ kwinActive' = TRUE /\ script' = TRUE
       \/ Faults /\ kwinActive' = FALSE /\ UNCHANGED script

Launch ==
    /\ pc = "down"
    /\ Update
    /\ changed' = FALSE
    /\ tray' \in BOOLEAN
    /\ visible' = ~tray'
    /\ focused' = ~tray'
    /\ mapping' = IF tray' THEN "none" ELSE "window"
    /\ \/ tray' /\ desktop = "gnome" /\ pc' = "metadata" /\ UNCHANGED <<kwinActive, script>>
       \/ tray' /\ desktop = "kde" /\ StartScript
       \/ ~tray' /\ pc' = "loop" /\ UNCHANGED <<kwinActive, script>>
    /\ UNCHANGED <<desktop, files, loaded, broken, gnomeActive, enabled, sinceHide, focusEvent,
                   press, age, pending, moved, late, history>>

\* PopupPlacement::start under GNOME.
StartPlacement ==
    /\ StartExtension
    /\ UNCHANGED <<desktop, tray, visible, click, kwinActive, script, moved, late, mapping,
                   history>>

\* All the process had goes with it, its window too.
EndProcess == /\ ends < MaxEnds
              /\ ends' = ends + 1
              /\ pc' = "down"
              /\ tray' = FALSE
              /\ visible' = FALSE
              /\ sinceHide' = Guard + 1
              /\ focused' = FALSE
              /\ focusEvent' = FALSE
              /\ press' = "none"
              /\ age' = 0
              /\ gnomeActive' = FALSE
              /\ kwinActive' = FALSE
              /\ mapping' = "none"
              /\ answered' = FALSE
              /\ UNCHANGED <<desktop, bundled, loaded, changed, enabled, pending, moved, late>>

\* Mutant: stop() is not called as the program quits.
QuitLoaded == /\ pc = "loop" /\ tray
              /\ EndProcess
              /\ UNCHANGED <<script, left, files, broken>>
\* The menu's Quit; stop() unloads the script that start() has loaded.
Quit == /\ pc = "loop" /\ tray
        /\ EndProcess
        /\ \/ script' = (script /\ ~kwinActive) /\ UNCHANGED left
           \/ Faults /\ UNCHANGED script /\ left' = (left \/ script)
        /\ UNCHANGED <<files, broken>>

Crash == /\ pc # "down"
         /\ EndProcess
         /\ CutOff
         /\ UNCHANGED script
         /\ left' = (left \/ script)

Next == \/ ClickIcon
        \/ LoseFocus
        \/ Tick
        \/ OnActiveChanged
        \/ OnActivated
        \/ OnShowTriggered
        \/ OnClosing
        \/ PlaceNextPopup
        \/ RequestTimesOut
        \/ PlaceNextPopupLate
        \/ MapWindow
        \/ DisableExtension
        \/ EnableExtension
        \/ StartSession
        \/ Launch
        \/ StartPlacement
        \/ Quit
        \/ Crash

Spec == Init /\ [][Next]_vars

(***************************************************************************)
(* Properties                                                              *)
(***************************************************************************)
\* The type invariant: a process without a tray is never asked to place a popup.
TypeOK ==
    /\ ExtensionTypeOK
    /\ desktop \in {"gnome", "kde"}
    /\ {tray, visible, focused, focusEvent, kwinActive, script, late, answered, left}
           \subseteq BOOLEAN
    /\ sinceHide \in 0..Guard + 1
    /\ press \in {"none", "onPopup", "onNothing", "onEither"}
    /\ age \in 0..MaxDelay
    /\ {mapping, moved} \subseteq Windows
    /\ ends \in 0..MaxEnds
    /\ pc = "asking" => tray /\ gnomeActive

\* A click on the icon of a popup that is there closes it, although the loss of
\* focus that the click causes may have hidden it before the click comes through;
\* a click where no popup has just gone opens one. A click is what the icon reports
\* as activated for a Trigger; where a desktop opens the menu instead nothing happens.
ClickToggles ==
    [][OnActivated => /\ press = "onPopup" => ~visible' /\ pc' = "loop"
                      /\ press = "onNothing" => visible' \/ pc' = "asking"]_vars

\* A popup the extension has agreed to place is placed: as the call is answered
\* before the window is shown, no popup is mapped before the shell knows of it.
PlacedWhenAnswered ==
    [][MapWindow /\ mapping = "popup" /\ answered => moved' = "popup"]_vars

\* Under KDE the script is there only with the tray icon: it moves the normal window
\* of no later process, unless one before has ended without unloading it.
ScriptMovesOnlyPopups == desktop = "kde" /\ ~left => moved # "window"
=============================================================================
