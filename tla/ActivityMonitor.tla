-------------------------- MODULE ActivityMonitor --------------------------
(***************************************************************************)
(* ActivityMonitor (core/activity/activitymonitor.cpp and _mac.mm): it     *)
(* listens for input through GNOME's idle monitor, KDE's KIdleTime, the    *)
(* input devices themselves (InputDevices.tla), Windows hooks or a macOS   *)
(* event tap. Both idle monitors are one-shot: the program must ask again  *)
(* after each activity. Mutter, KIdleTime and the hooks are external;      *)
(* their signals reach the program through its event loop.                 *)
(***************************************************************************)
EXTENDS InputDevices

CONSTANTS Faults,       \* whether Mutter's D-Bus calls may fail
          ShellRestarts,\* whether the shell may come back as a new process
          WatchIds,     \* bound: the ids Mutter gives, one again only once it is forgotten
          MaxRearms     \* bound: with so many calls queued the event loop makes one
                        \* before it sees the next input

ASSUME MonitorAssumption == /\ Faults \in BOOLEAN
                            /\ ShellRestarts \in BOOLEAN
                            /\ WatchIds \subseteq Nat \ {0}
                            /\ MaxRearms \in Nat

VARIABLES desktop,               \* what start() finds to listen to
          usingGnomeIdleMonitor, \* m_usingGnomeIdleMonitor
          usingKdeIdleMonitor,   \* m_usingKdeIdleMonitor
          gnomeWatchId,          \* m_gnomeWatchId
          watches,               \* the user-active watches Mutter holds
          fired,                 \* watches whose WatchFired is on its way
          catching,              \* KIdleTime catches the next resume event
          rearms,                \* queued calls of armKdeResumeWatch
          hooks,                 \* the hooks, or the tap, the system holds
          muted,                 \* the system has disabled the tap, and says so
          failed,                \* a call to the system has failed (history)
          restarted              \* the shell has restarted (history)

gnome == <<gnomeWatchId, watches, fired>>
kde == <<catching, rearms>>
using == <<usingGnomeIdleMonitor, usingKdeIdleMonitor>>
hooking == <<hooks, muted>>
history == <<failed, restarted>>
monitorVars == <<deviceVars, desktop, using, gnome, kde, hooking, history>>

Desktops == {"gnome", "kde", "other", "windows", "macos"}

MonitorInit == /\ DevicesInit
               /\ desktop \in Desktops
               /\ usingGnomeIdleMonitor = FALSE
               /\ usingKdeIdleMonitor = FALSE
               /\ gnomeWatchId = 0
               /\ watches = {}
               /\ fired = {}
               /\ catching = FALSE
               /\ rearms = 0
               /\ hooks = {}
               /\ muted = FALSE
               /\ failed = FALSE
               /\ restarted = FALSE

\* A call to the system fails.
Fails == Faults /\ failed' = TRUE

(***************************************************************************)
(* GNOME                                                                   *)
(***************************************************************************)
\* A shell that has restarted may give an id again that is still on its way.
FreshIds == WatchIds \ (watches \cup (IF restarted THEN {} ELSE fired \cup {gnomeWatchId}))

\* armGnomeUserActiveWatch: a call that failed may or may not have left a watch.
ArmGnomeUserActiveWatch ==
    \E id \in FreshIds :
        \/ gnomeWatchId' = id /\ watches' = watches \cup {id} /\ UNCHANGED failed
        \/ Fails /\ gnomeWatchId' = 0 /\ watches' \in {watches, watches \cup {id}}

StartGnomeIdleMonitor ==
    /\ ~running /\ step = "loop" /\ desktop = "gnome"
    /\ ArmGnomeUserActiveWatch
    /\ usingGnomeIdleMonitor' = TRUE
    /\ running' = TRUE
    /\ UNCHANGED <<kernel, ready, receiving, queue, step, listed, opening, devices,
                   desktop, usingKdeIdleMonitor, fired, kde, hooking, restarted>>

\* stopGnomeIdleMonitor does not look at the answer to RemoveWatch.
StopGnomeIdleMonitor ==
    /\ running /\ usingGnomeIdleMonitor
    /\ \/ watches' = watches \ {gnomeWatchId} /\ UNCHANGED failed
       \/ Fails /\ UNCHANGED watches
    /\ gnomeWatchId' = 0
    /\ usingGnomeIdleMonitor' = FALSE
    /\ running' = FALSE
    /\ UNCHANGED <<kernel, ready, receiving, queue, step, listed, opening, devices,
                   desktop, usingKdeIdleMonitor, fired, kde, hooking, restarted>>

\* Mutter fires every watch at the next input and forgets it; a program that has
\* disconnected from WatchFired does not hear of it.
GnomeInput ==
    /\ watches # {}
    /\ watches' = {}
    /\ fired' = IF usingGnomeIdleMonitor THEN fired \cup watches ELSE fired
    /\ UNCHANGED <<deviceVars, desktop, using, gnomeWatchId, kde, hooking, history>>

\* Mutant: the id of the watch is not looked at.
HandleAnyWatchFired(id) ==
    /\ id \in fired
    /\ fired' = fired \ {id}
    /\ ArmGnomeUserActiveWatch
    /\ UNCHANGED <<deviceVars, desktop, using, kde, hooking, restarted>>
\* handleGnomeIdleWatchFired: a watch of before a stop is ignored; the present one
\* is activity, and is asked for again.
HandleGnomeIdleWatchFired(id) ==
    /\ id \in fired
    /\ fired' = fired \ {id}
    /\ IF id = gnomeWatchId
       THEN ArmGnomeUserActiveWatch
       ELSE UNCHANGED <<gnomeWatchId, watches, failed>>
    /\ UNCHANGED <<deviceVars, desktop, using, kde, hooking, restarted>>

\* External: a shell that restarts has no watches.
RestartShell ==
    /\ ShellRestarts /\ desktop = "gnome"
    /\ watches' = {}
    /\ restarted' = TRUE
    /\ UNCHANGED <<deviceVars, desktop, using, gnomeWatchId, fired, kde, hooking, failed>>

(***************************************************************************)
(* KDE                                                                     *)
(***************************************************************************)
StartKdeIdleMonitor ==
    /\ ~running /\ step = "loop" /\ desktop = "kde"
    /\ catching' = TRUE
    /\ usingKdeIdleMonitor' = TRUE
    /\ running' = TRUE
    /\ UNCHANGED <<kernel, ready, receiving, queue, step, listed, opening, devices,
                   desktop, usingGnomeIdleMonitor, gnome, rearms, hooking, history>>

StopKdeIdleMonitor ==
    /\ running /\ usingKdeIdleMonitor
    /\ catching' = FALSE
    /\ usingKdeIdleMonitor' = FALSE
    /\ running' = FALSE
    /\ UNCHANGED <<kernel, ready, receiving, queue, step, listed, opening, devices,
                   desktop, usingGnomeIdleMonitor, gnome, rearms, hooking, history>>

\* Mutant: the slot asks for the next event itself, and KIdleTime then stops.
ResumeAndRearm ==
    /\ catching
    /\ catching' = FALSE
    /\ UNCHANGED <<deviceVars, desktop, using, gnome, rearms, hooking, history>>
\* KIdleTime emits resumingFromIdle, the slot queues the re-arming, and only then
\* KIdleTime stops catching.
HandleKdeResumingFromIdle ==
    /\ catching
    /\ rearms < MaxRearms
    /\ catching' = FALSE
    /\ rearms' = rearms + 1
    /\ UNCHANGED <<deviceVars, desktop, using, gnome, hooking, history>>

\* Mutant: the queued call does not ask whether the monitor is still in use.
RearmAlways ==
    /\ rearms > 0
    /\ rearms' = rearms - 1
    /\ catching' = TRUE
    /\ UNCHANGED <<deviceVars, desktop, using, gnome, hooking, history>>
\* The queued call of armKdeResumeWatch.
Rearm ==
    /\ rearms > 0
    /\ rearms' = rearms - 1
    /\ catching' = (catching \/ usingKdeIdleMonitor)
    /\ UNCHANGED <<deviceVars, desktop, using, gnome, hooking, history>>

(***************************************************************************)
(* The input devices, where there is no idle monitor                       *)
(***************************************************************************)
StartInputDevices ==
    /\ desktop = "other"
    /\ EnableMonitor
    /\ UNCHANGED <<desktop, using, gnome, kde, hooking, history>>

StopInputDevices ==
    /\ desktop = "other"
    /\ StopDevices
    /\ UNCHANGED <<desktop, using, gnome, kde, hooking, history>>

\* Elsewhere nobody hears of a device that comes or goes.
DeviceStep ==
    /\ desktop = "other"
    /\ Hotplug \/ WatchDevices
    /\ UNCHANGED <<desktop, using, gnome, kde, hooking, history>>

(***************************************************************************)
(* Windows and macOS                                                       *)
(***************************************************************************)
Begin(system) == ~running /\ step = "loop" /\ desktop = system /\ running' = TRUE
End(system) == running /\ desktop = system /\ running' = FALSE

UnchangedByHooks ==
    UNCHANGED <<kernel, ready, receiving, queue, step, listed, opening, devices,
                desktop, using, gnome, kde, restarted>>

\* SetWindowsHookEx twice; start() does not look at what it returns.
StartWindowsHooks ==
    /\ Begin("windows")
    /\ \/ hooks' = {"keyboard", "mouse"} /\ UNCHANGED failed
       \/ Fails /\ hooks' \in {{}, {"keyboard"}, {"mouse"}}
    /\ UNCHANGED muted
    /\ UnchangedByHooks

StopWindowsHooks ==
    /\ End("windows")
    /\ hooks' = {}
    /\ UNCHANGED <<muted, failed>>
    /\ UnchangedByHooks

\* Without the user's permission there is no tap, and the monitor does not run.
StartEventTap ==
    /\ Begin("macos")
    /\ hooks' = {"tap"}
    /\ UNCHANGED <<muted, failed>>
    /\ UnchangedByHooks

StopEventTap ==
    /\ End("macos")
    /\ hooks' = {}
    /\ muted' = FALSE
    /\ UNCHANGED failed
    /\ UnchangedByHooks

\* External: a tap whose callback was too slow is disabled.
DisableEventTap ==
    /\ hooks = {"tap"} /\ ~muted
    /\ muted' = TRUE
    /\ UNCHANGED <<deviceVars, desktop, using, gnome, kde, hooks, history>>

\* The callback is told so, and enables the tap again.
EventTapCallback ==
    /\ muted
    /\ muted' = FALSE
    /\ UNCHANGED <<deviceVars, desktop, using, gnome, kde, hooks, history>>

MonitorNext == \/ StartGnomeIdleMonitor
               \/ StopGnomeIdleMonitor
               \/ GnomeInput
               \/ \E id \in fired : HandleGnomeIdleWatchFired(id)
               \/ RestartShell
               \/ StartKdeIdleMonitor
               \/ StopKdeIdleMonitor
               \/ HandleKdeResumingFromIdle
               \/ Rearm
               \/ StartInputDevices
               \/ StopInputDevices
               \/ DeviceStep
               \/ StartWindowsHooks
               \/ StopWindowsHooks
               \/ StartEventTap
               \/ StopEventTap
               \/ DisableEventTap
               \/ EventTapCallback

MonitorSpec == MonitorInit /\ [][MonitorNext]_monitorVars

(***************************************************************************)
(* Properties                                                              *)
(***************************************************************************)
\* The type invariant.
MonitorTypeOK ==
    /\ DevicesTypeOK
    /\ desktop \in Desktops
    /\ usingGnomeIdleMonitor \in BOOLEAN
    /\ usingKdeIdleMonitor \in BOOLEAN
    /\ gnomeWatchId \in WatchIds \cup {0}
    /\ watches \cup fired \subseteq WatchIds
    /\ catching \in BOOLEAN
    /\ rearms \in 0..MaxRearms
    /\ hooks \subseteq {"keyboard", "mouse", "tap"}
    /\ {muted, failed, restarted} \subseteq BOOLEAN

\* A monitor that runs never goes deaf: through any number of activities, stops
\* and starts the watch it counts on is with Mutter or has fired on its way to the
\* slot that asks again, and KIdleTime is catching or about to be told to. Exempt
\* is a watch Mutter refused, which the program knows of, and one that went with
\* the shell.
KeepsListening ==
    /\ usingGnomeIdleMonitor /\ gnomeWatchId # 0 /\ ~restarted
           => gnomeWatchId \in watches \cup fired
    /\ usingKdeIdleMonitor => catching \/ rearms > 0
    /\ running /\ desktop \in {"windows", "macos"} /\ ~failed => hooks # {}

\* Where Mutter answers it holds at most the one watch the program remembers:
\* no order of stops, starts and late WatchFired signals leaves a second watch
\* behind, which would double at every input.
AtMostOneWatch == ~failed /\ ~restarted => watches \subseteq {gnomeWatchId}

\* After stop() nothing goes on listening, although calls queued before it run
\* after it: no catching by KIdleTime, no udev monitor, no hook, no tap. (In the
\* program only the destructor calls stop(); the class allows a later start().)
ReleasesWhenStopped ==
    ~running /\ step = "loop" => ~catching /\ ~receiving /\ hooks = {} /\ ~muted
=============================================================================
