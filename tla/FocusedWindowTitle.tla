------------------------- MODULE FocusedWindowTitle -------------------------
(***************************************************************************)
(* The focused window's title (Utilities::focusedWindowTitle), and what    *)
(* main() does at its start so that the desktop tells it. Under KDE Plasma *)
(* KDEFocusedWindowTitle and KWinScript load a script into KWin            *)
(* (resource/kwin/focused-window-title.js) that calls the program back over*)
(* D-Bus; KWin outlives the program, and so does its script a crash. Under *)
(* GNOME a shell extension answers, once it is installed, which the shell  *)
(* asks the user about, and enabled. Elsewhere the system is asked         *)
(* directly. KWin, GNOME Shell, the bus and the systems are external.      *)
(***************************************************************************)
EXTENDS Naturals, Sequences

CONSTANTS Desktops,   \* of "gnome", "kde", "cinnamon", "windows", "macos", "other"
          Windows,
          NoWindow,
          Captions,
          Faults,     \* whether calls may fail, KWin restart, and extensions be disabled
          MaxCalls    \* bound: calls of the script on their way

ASSUME TitleAssumption == /\ Desktops \subseteq {"gnome", "kde", "cinnamon", "windows", "macos", "other"}
                          /\ NoWindow \notin Windows
                          /\ Captions # {}
                          /\ Faults \in BOOLEAN
                          /\ MaxCalls \in Nat

VARIABLES active,      \* KWin's active window
          caption,     \* the windows' titles
          script,      \* KWin's copy of the script
          orphaned,    \* the script this process heard has been taken away, and no other
                       \* has begun (history)
          calls,       \* calls of setActiveWindowTitle on their way to the program
          registered,  \* the program owns the D-Bus service
          pc,          \* where the program is
          started,     \* m_started
          title,       \* m_activeWindowTitle, and the window it was read from
          failed,      \* a call has failed or KWin restarted; under GNOME: a call of
                       \* this process has failed, or its extension been changed (history)
          desktop,     \* XDG_CURRENT_DESKTOP, or the system built for
          extension,   \* the shell's extension focused-window-dbus
          dialog       \* the shell's question to the user outlived the call it answers

kwin == <<active, caption, script, orphaned>>
program == <<registered, pc, started, title>>
kdeVars == <<kwin, calls, program, failed>>
gnome == <<desktop, extension, dialog>>
vars == <<kdeVars, gnome>>

NoTitle == [window |-> NoWindow, text |-> ""]
Titles == [window : Windows, text : Captions] \cup {NoTitle}

TitleOf(w) == IF w = NoWindow THEN NoTitle ELSE [window |-> w, text |-> caption[w]]

Init == /\ active \in Windows \cup {NoWindow}
        /\ caption \in [Windows -> Captions]
        /\ script = "absent"
        /\ orphaned = FALSE
        /\ calls = <<>>
        /\ registered = FALSE
        /\ pc = "down"
        /\ started = FALSE
        /\ title = NoTitle
        /\ failed = FALSE
        /\ desktop \in Desktops
        /\ extension \in {"absent", "disabled", "enabled"}
        /\ extension # "absent" => desktop = "gnome"
        /\ dialog = FALSE

Fails == Faults /\ failed' = TRUE
Succeeds == UNCHANGED failed

(***************************************************************************)
(* focused-window-title.js, run by KWin                                    *)
(***************************************************************************)
\* reportActiveWindowTitle: without an owner of the service the call is lost.
ReportActiveWindowTitle(w) ==
    calls' = IF registered THEN Append(calls, TitleOf(w)) ELSE calls

Room == Len(calls) < MaxCalls

\* Mutant: the title is only reported as the script starts.
ActivateUnreported(w) ==
    /\ w # active /\ Room
    /\ active' = w
    /\ UNCHANGED <<caption, script, orphaned, calls, program, failed>>
\* A window becomes active, or none does: workspace.windowActivated.
Activate(w) ==
    /\ w # active /\ Room
    /\ active' = w
    /\ IF script = "running" THEN ReportActiveWindowTitle(w) ELSE UNCHANGED calls
    /\ UNCHANGED <<caption, script, orphaned, program, failed>>

\* A window changes its title; the script is not connected to that.
ChangeCaption(w) ==
    /\ \E text \in Captions \ {caption[w]} : caption' = [caption EXCEPT ![w] = text]
    /\ UNCHANGED <<active, script, orphaned, calls, program, failed>>

\* KWin reads and runs the script some time after run() has returned.
BeginScript ==
    /\ script = "starting" /\ Room
    /\ script' = "running"
    /\ orphaned' = FALSE
    /\ ReportActiveWindowTitle(active)
    /\ UNCHANGED <<active, caption, program, failed>>

\* A script that this process heard goes.
ScriptGoes == /\ script' = "absent"
              /\ orphaned' = (orphaned \/ (registered /\ script = "running"))

\* External: KWin restarts and has no scripts; nothing in the program notices.
RestartKWin ==
    /\ desktop = "kde" /\ Fails
    /\ ScriptGoes
    /\ UNCHANGED <<active, caption, calls, program>>

(***************************************************************************)
(* KDEFocusedWindowTitle::start()                                          *)
(***************************************************************************)
\* Mutant: it is started on every desktop.
RegisterOnAnyDesktop ==
    /\ pc = "down"
    /\ \/ Succeeds /\ registered' = TRUE /\ pc' = "unload"
       \/ Fails /\ pc' = "loop" /\ UNCHANGED registered
    /\ UNCHANGED <<kwin, calls, started, title>>
RegisterService ==
    /\ desktop = "kde" /\ pc = "down"
    /\ \/ Succeeds /\ registered' = TRUE /\ pc' = "unload"
       \/ Fails /\ pc' = "loop" /\ UNCHANGED registered
    /\ UNCHANGED <<kwin, calls, started, title>>

LoadFails == /\ pc' = "loop"
             /\ UNCHANGED <<script, started>>

\* Mutant: a script that is loaded already is left in its place.
UnloadNothing ==
    /\ pc = "unload"
    /\ pc' = IF script = "absent" THEN "load" ELSE "loop"
    /\ started' = (script # "absent")
    /\ UNCHANGED <<kwin, calls, registered, title, failed>>
\* KWinScript::load, as far as the copy that is loaded already.
UnloadEarlierCopy ==
    /\ pc = "unload"
    /\ \/ Succeeds /\ pc' = "load" /\ ScriptGoes /\ UNCHANGED started
       \/ Fails /\ pc' = "load" /\ UNCHANGED <<script, orphaned, started>>
       \/ Fails /\ LoadFails /\ UNCHANGED orphaned
    /\ UNCHANGED <<active, caption, calls, registered, title>>

\* KWin refuses to load a script under a name it has a script for; a call whose
\* answer is lost may have loaded it.
LoadScript ==
    /\ pc = "load"
    /\ \/ Succeeds /\ script = "absent" /\ script' = "loaded" /\ pc' = "run" /\ UNCHANGED started
       \/ Succeeds /\ script # "absent" /\ LoadFails
       \/ Fails /\ LoadFails
       \/ Fails /\ script = "absent" /\ script' = "loaded" /\ pc' = "loop" /\ UNCHANGED started
    /\ UNCHANGED <<active, caption, orphaned, calls, registered, title>>

\* load() does not look at the answer to run().
RunScript ==
    /\ pc = "run"
    /\ \/ Succeeds /\ script' = IF script = "loaded" THEN "starting" ELSE script
       \/ Fails /\ UNCHANGED script
    /\ started' = TRUE
    /\ pc' = "loop"
    /\ UNCHANGED <<active, caption, orphaned, calls, registered, title>>

(***************************************************************************)
(* main() under GNOME: the extension is there, or is installed; it is      *)
(* enabled, or enabled now. No failure is looked at.                       *)
(***************************************************************************)
IsGNOMEFocusedWindowDBusInstalled ==
    /\ desktop = "gnome" /\ pc = "down"
    /\ \/ failed' = FALSE /\ pc' = IF extension = "absent" THEN "install" ELSE "enabled?"
       \/ Fails /\ pc' = "install"

IsGNOMEFocusedWindowDBusEnabled ==
    /\ pc = "enabled?"
    /\ \/ Succeeds /\ pc' = IF extension = "enabled" THEN "loop" ELSE "enable"
       \/ Fails /\ pc' = "enable"

\* External: the user accepts the shell's dialog or declines.
UserAnswers == \/ extension' \in {"disabled", "enabled"}
               \/ UNCHANGED extension

\* The call lasts as long as the dialog, unless it fails or times out before.
InstallGNOMEFocusedWindowDBus ==
    /\ pc = "install"
    /\ pc' = "enable"
    /\ \/ Succeeds /\ UserAnswers /\ UNCHANGED dialog
       \/ Fails /\ UNCHANGED extension /\ dialog' \in {dialog, TRUE}

\* Mutant: only an extension that had been there is enabled.
EnableUnlessInstalled ==
    /\ pc = "enable"
    /\ pc' = "loop"
    /\ Succeeds /\ UNCHANGED extension
EnableGNOMEFocusedWindowDBus ==
    /\ pc = "enable"
    /\ pc' = "loop"
    /\ \/ Succeeds /\ extension' = IF extension = "absent" THEN "absent" ELSE "enabled"
       \/ Fails /\ UNCHANGED extension

StartGNOME == \/ IsGNOMEFocusedWindowDBusInstalled /\ UNCHANGED <<extension, dialog>>
              \/ IsGNOMEFocusedWindowDBusEnabled /\ UNCHANGED <<extension, dialog>>
              \/ InstallGNOMEFocusedWindowDBus
              \/ EnableGNOMEFocusedWindowDBus /\ UNCHANGED dialog

\* External: the user answers a dialog nobody waits for any more, or changes the
\* extension.
AnswerDialog == dialog /\ dialog' = FALSE /\ UserAnswers /\ Fails /\ UNCHANGED pc
ChangeExtension == /\ desktop = "gnome" /\ Fails
                   /\ extension' \in {"absent", "disabled", "enabled"} \ {extension}
                   /\ UNCHANGED <<pc, dialog>>

\* main() elsewhere.
StartElsewhere == /\ desktop \notin {"gnome", "kde"} /\ pc = "down"
                  /\ pc' = "loop"
                  /\ UNCHANGED <<extension, dialog, failed>>

OtherDesktopNext == /\ StartGNOME \/ AnswerDialog \/ ChangeExtension \/ StartElsewhere
                    /\ UNCHANGED <<desktop, kwin, calls, registered, started, title>>

(***************************************************************************)
(* Utilities::focusedWindowTitle: what it may return now                   *)
(***************************************************************************)
\* A failed call, a refused permission: the title is empty.
Unanswered == IF Faults THEN {NoTitle} ELSE {}

AskExtension == IF extension = "enabled" THEN {TitleOf(active)} \cup Unanswered ELSE {NoTitle}
AskCinnamon == {TitleOf(active)} \cup Unanswered
ForegroundWindowText == {TitleOf(active)}                 \* Windows
FocusedWindowAttribute == {TitleOf(active)} \cup Unanswered    \* macOS

FocusedWindowTitles == CASE desktop = "kde"      -> {title}
                         [] desktop = "gnome"    -> AskExtension
                         [] desktop = "cinnamon" -> AskCinnamon
                         [] desktop = "windows"  -> ForegroundWindowText
                         [] desktop = "macos"    -> FocusedWindowAttribute
                         [] desktop = "other"    -> {NoTitle}

(***************************************************************************)
(* The event loop and the end of the process                               *)
(***************************************************************************)
SetActiveWindowTitle ==
    /\ pc = "loop" /\ calls # <<>>
    /\ title' = Head(calls)
    /\ calls' = Tail(calls)
    /\ UNCHANGED <<kwin, registered, pc, started, failed>>

\* The bus takes the name back and drops the calls; all else goes with the process.
EndProcess == /\ calls' = <<>>
              /\ registered' = FALSE
              /\ pc' = "down"
              /\ started' = FALSE
              /\ title' = NoTitle
              /\ orphaned' = FALSE
              /\ UNCHANGED <<active, caption>>

\* aboutToQuit: stop() unloads the script if start() succeeded.
Quit ==
    /\ pc = "loop"
    /\ \/ Succeeds /\ script' = IF started THEN "absent" ELSE script
       \/ Fails /\ started /\ UNCHANGED script
    /\ EndProcess

Crash == pc # "down" /\ UNCHANGED <<script, failed>> /\ EndProcess

KDENext ==
        \/ \E w \in Windows \cup {NoWindow} : Activate(w)
        \/ \E w \in Windows : ChangeCaption(w)
        \/ BeginScript
        \/ RestartKWin
        \/ RegisterService
        \/ UnloadEarlierCopy
        \/ LoadScript
        \/ RunScript
        \/ SetActiveWindowTitle
        \/ Quit
        \/ Crash

Next == \/ KDENext /\ UNCHANGED gnome
        \/ OtherDesktopNext

Spec == Init /\ [][Next]_vars

(***************************************************************************)
(* Properties                                                              *)
(***************************************************************************)
\* The type invariant: only a running process has the service.
TypeOK == /\ active \in Windows \cup {NoWindow}
          /\ caption \in [Windows -> Captions]
          /\ script \in {"absent", "loaded", "starting", "running"}
          /\ calls \in Seq(Titles)
          /\ Len(calls) <= MaxCalls
          /\ registered \in BOOLEAN
          /\ orphaned \in BOOLEAN
          /\ registered => pc # "down"
          /\ pc \in {"down", "unload", "load", "run", "enabled?", "install", "enable", "loop"}
          /\ started \in BOOLEAN
          /\ title \in Titles
          /\ failed \in BOOLEAN
          /\ desktop \in Desktops
          /\ extension \in {"absent", "disabled", "enabled"}
          /\ dialog \in BOOLEAN
          /\ desktop # "kde" => script = "absent" /\ ~registered
          /\ desktop # "gnome" => extension = "absent" /\ ~dialog

\* main() is through, and the desktop has a way to tell the title: the script runs
\* and its calls are in, or the user has let the extension be installed.
Settled == /\ pc = "loop"
           /\ desktop = "kde" => script = "running" /\ calls = <<>>
           /\ desktop = "gnome" => extension # "absent"
           /\ desktop # "other"

\* As long as every call succeeds, a started program has the title of the active
\* window: no crash, no script left by an earlier process and no activation between
\* unloading that one and running the new one leaves it with another window's title
\* or none, and no earlier refusal or disabling leaves it without the extension.
KnowsActiveWindow ==
    Settled /\ (desktop = "kde" => started) /\ ~failed
        => \E t \in FocusedWindowTitles : t.window = active

\* Through every other failure the title a sample would carry is never another
\* window's: where start() gave up, a script left by an earlier process still tells
\* the truth, and where there is none to tell there is no title. The program keeps
\* the last title for good in one case only: the script it heard is gone, by a
\* restart of KWin or by a start() that unloaded it and then failed to load or to run
\* its own.
NeverAnotherWindow ==
    pc = "loop" /\ (desktop = "kde" => calls = <<>> /\ script # "starting" /\ ~orphaned)
        => \A t \in FocusedWindowTitles : t.window \in {active, NoWindow}
=============================================================================
