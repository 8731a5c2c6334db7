# WorkTime in TLA+

WorkTime is a Qt program that lives in the system tray. Every minute, while the
user has pushed *Start* and is at the computer, it sends the title of the focused
window to a server; what cannot be sent is kept in a SQLite table and
sent later by a worker thread. This directory models the parts of it that keep
state and run against something concurrent: another thread, the desktop's
services over D-Bus, the keyring, the compositor, udev, or the next process after
a crash. TLC checks the models on small instances; TLAPS proves every invariant and
every action property of the passing runs for every value of the constants.

Paths below are relative to `src/src/` of the repository unless they begin with
`src/`. `PROJECT.json` maps each definition to the lines it stands for.

## 1. Inventory

| Component | State | Operations | Interacts with |
|---|---|---|---|
| `NotSentSender` (core/network) | stop flag, mutex and wait condition, server URL, row in hand | `run`, `wake`, `stop`, `setServerUrl` | its own thread; the tables; signals to the main thread |
| `SendingService` (core/network) | timer and interval, replies under way, URL | `start`, `stop`, `sendNow`, `handleReplyFinished`, `setServerUrl`, destructor | owns the worker; tables; signals to the controller |
| `SQLiteConnection` (core/storage) | a connection per user; tables `sent`, `not_sent` | add, take oldest, count, sum | other connections through SQLite's file locks |
| `MainController` (qml/controller) | user status, three timers, error and rejection flags, cached statistics, time of the last notice | slots for clicks, activity, idleness, answers, edits, clock | the service, the settings, `ActivityMonitor`, QML |
| `Settings` (core/settings) | settings file, cached password | load, sanitize, migrate, get and set | `CredentialStore`, `Utilities::autostart`; read from the worker thread too |
| `CredentialStore` (core/settings) | a mutex | read, write, prompt | Secret Service, keychain, Windows vault |
| `ActivityMonitor` (core/activity) | running flag, watch ids, open devices, hooks | `start`, `stop`, signal handlers | Mutter, KIdleTime, udev, Windows hooks, macOS event tap |
| `KWinScript`, `KDEFocusedWindowTitle` (core) | started flag, last title | `load`, `unload`, `start`, `stop`, `setActiveWindowTitle` | KWin's scripts, over D-Bus |
| Tray popup (qml/Main.qml) | visible, time of the last hide | icon, menu, focus, close | the desktop, `PopupPlacement` |
| `PopupPlacement`, GNOME extension, KWin script | active flags; extension files; `#pending` | `start`, `stop`, `requestPlacement`; `enable`, `disable`, `PlaceNextPopup`, map | GNOME Shell, KWin |
| Popup geometry | none | `positionPopup`, `popupPosition`, choice of the screen | - |
| `Utilities` (core) | none of its own: the system's auto start entries, GNOME's extension, clock synchronisation | `focusedWindowTitle`, `autostart`, `isClockSyncEnabled`, `showNotification`, the extension's calls | main(), `Settings`, the service; the desktop and its portal |
| `BetterStackLogger` (core/logging) | a thread-local guard | message handler, `send` | a nested event loop inside any slot that logs |
| `OneInstanceGuarantor`, `AppQuitter`, `TrayMenuOpener`, request builder | none worth a state machine | calls into the system | - |

What is hard here:

- **Two threads on one queue.** The worker sleeps on a condition variable; the
  main thread wakes it, stops it and joins it while it blocks the event loop.
- **Event-loop interleavings.** Replies, timers, clicks and queued signals of the
  worker are handled one at a time but in any order, and `stop()` blocks between.
- **Nested event loops.** A keyring prompt and a critical log message run an event
  loop in the middle of a function.
- **One-shot subscriptions.** Mutter's and KIdleTime's idle watches fire once; a
  forgotten or doubled request makes the program deaf or deafening.
- **State that outlives the process.** Tables, settings file, keyring, auto start
  entries, extension files, scripts in KWin: each may be left half-way by a crash.
- **Two records of one decision.** The password is in two stores and auto start in a
  setting and in the system; the second is written by calls that may fail, be
  refused by the user, or be answered later.
- **A clock that may be wrong.** The notice that the wall clock is not synchronised
  is throttled by that clock.
- **Two channels to one peer.** D-Bus calls and Wayland requests are not ordered
  against each other, nor are a click and the loss of focus it causes.

## 2. Modules

### The queue: `Outbox`, `NotSentSender`, `SendingService`

`Outbox` is the contract, without threads: a captured sample is under way, waits
in a first-in first-out queue, or is finally sent or dropped. `NotSentSender`
has one action per step of `run()` between two accesses to state the other thread
can reach: `OpenDatabase`, `ReadServerUrl`, `TakeRow`, `WaitForWake`, the resend,
`RecordOutcome`, `WaitRetryInterval`. Checking the stop flag and starting to wait
are one action, as the code does both under `m_wakeMutex`. `workerPc` is the place
in `run()`, `row` the local variable; notifying a condition nobody waits on does
nothing (`WakeAll`). `SendingService` adds the main thread: slots are actions
enabled at `mainPc = "loop"`, and a slot that touches worker state last is split
(`"wake"`, `"joining"`, `"quitting"`). Samples are numbers in capture order. The
server is external: a POST may reach it and its answer be lost. With `DbFaults`
every database call may throw. `Crash` and `Quit`/`Exit` end the process.

### The controller: `MainController`

Extends `SendingService`: each action of the service is composed with the slots
connected to the signals it emits, so that `AppNext` is the whole handler. Signals
of the worker thread are queued (`signals`) and delivered by `DeliverSignal`.
`startButtonPushed` lives in the settings file and survives a crash only once it
is written. Icons and texts are functions of this state and left out, and so is the
byte count, which the same query function reads next to the count.

The statistics are about the last 24 hours. `old` are the samples older than that by
the wall clock, which goes on, or is set, at any time (`WallClock`); `StatsRead` counts
the rows of `sent` that are not in it. Nothing signals that a row has grown old, so the
count on display also goes stale between two queries, which is what
`m_sentStatsRefreshTimer` is for (`RefreshTimeout`). `oldAtRead` is `old` at the last query that
succeeded: `SentCountIsCurrent` is about the rows that were young then.

With `Logging` the build has `BetterStackLogger`: a database call that fails on the
main thread logs a critical message, and `send` runs an event loop until the message
is out. `suspended` names the slot that stands still meanwhile (`Suspensions`); every
other slot may run, and `ResumeSlot` is the rest of the suspended one. The guard
`sending` lets a second failure inside that loop pass without a loop of its own, so
one variable is enough. What a slot does before the call has happened and what it
does after it has not: a sample that could not be recorded has left `inFlight`, but
the worker is not yet woken (`ReplyFailedAndLost`, `"replyFailed"`).

### The store: `SqliteConnection`

Statement by statement, for three connections (service, worker, controller). A take is
its transaction with every exit of its own: `Fail` leads from each of its statements to
`Rollback`, whose result the code ignores, and `Return` closes the query that is
still open. `inTransaction` says whether the connection's BEGIN has met its COMMIT or
ROLLBACK: the return of a call releases a lock only where it has. The external part
is SQLite's rollback-journal locking: SHARED, RESERVED, PENDING,
EXCLUSIVE, a busy handler that waits, and the case where it does not wait (a
transaction that has read and wants to write). `BusyTimeout` and `StatementFails`
are the two ways into the exceptions.

### The password: `Credentials`

`pc` follows the main thread through the constructor of `Settings` (`sanitize`,
`loadPassword`), the migration of a plaintext password, and `setPassword`. The
keyring, its prompt and the answer are external. The settings file and its
copy in memory are two variables (`savedLegacy`, `legacy`), as QSettings writes later. The stores of
macOS and Windows are the transitions that need no prompt. `ReadCached` is the
worker's read for a request body.

### Auto start: `Settings`

Extends `Credentials`, as one settings file and one event loop serve both: writing
the file (`SyncAllSettings`) saves the password's removal and the setting together.
`entries` is what the system would start: the desktop files of the
autostart folder, the registry value, or the state of the app service, chosen by
`platform`. On Linux the portal gets a request (`requests`) and answers later, in
any order, perhaps with a refusal. `started` says that main() has compared setting
and entries (`CompareAutostart`); the slots of the window come after that.
`disturbed` is a history variable, set by whatever the code cannot know of.

### Activity: `InputDevices`, `ActivityMonitor`

`InputDevices` has kernel, udevd and program as three actors around `/dev/input`:
nodes appear, vanish and change the device behind them between any two steps of
the scan. An `open()` fails because the device has gone or udevd has not set its
permissions yet, which a later event repairs, or for good (`OpenFaults`, `FailToOpen`): the
user is not in the `input` group, or no descriptor is left. Nothing opens such a
device again until it is announced again; `refused` remembers it.
`ActivityMonitor` extends it with the other ways of listening, chosen by `desktop`, and
with stop and start in any order.

### What is sampled: `FocusedWindowTitle`, `Sampling`

`FocusedWindowTitle` has, for each `desktop`, what main() prepares and what
`Utilities::focusedWindowTitle` may return (`FocusedWindowTitles`). Under KDE:
`KWinScript::load` call by call, KWin's list of scripts, and the script's own calls on
their way back to the program. `orphaned` says that the script this process heard is gone and
none has taken its place: unloaded before a failed `loadScript` or `run`, or lost with a
restart of KWin. Under GNOME: the calls that look for the extension,
install it, with the shell's question to the user, and enable it.

`Sampling` adds the wall clock and the part of the service and controller that deals
with it: `sendNow` refuses while synchronisation is off and tries again at the
short interval, and `notifyClockSyncDisabled` is throttled. Elapsed time is in
ticks of a retry interval (`due`, `sinceNotice`); `shift` is what the wall clock has
been set by, so the code's `now - m_lastClockSyncNotificationMs` is
`sinceNotice + shift`. The controller's other state has no part in this and is not
repeated.

### The popup: `PopupGeometry`, `PlacementExtension`, `TrayPopup`

`PopupGeometry` is arithmetic: `positionPopup`, `popupPosition` and the choice of
the screen as operators, and a state machine that places a popup and hides it.
`placer` says by whom: the window itself and the GNOME extension take the work area of
one screen, the KWin script asks for `KWin.WorkArea`, which is `WholeArea` whatever screen it
names. That this is the area of all screens together, less the panels at its edges, is an
assumption about KWin.
Lengths are whole pixels and positions half pixels, so halves stay integers;
the rounding of the result is left out. `PlacementExtension` installs the GNOME
extension file by file and has the shell load it. `TrayPopup` extends it with the
window, the icon, the focus, the request and the compositor. Time is counted in
ticks while it matters (`sinceHide` up to the guard, `age` of a waiting event).

## 3. Runs

| Run | Instance | What it shows |
|---|---|---|
| `sending_service` | 2 samples, 1 URL, 1 restart, database errors | type, one place per sample, nothing recorded as sent that was not accepted, `stop()` never missed and always returning, quiet when stopped, the backlog retried, and refinement of `Outbox` |
| `main_controller` | 1 sample, 1 URL, 1 restart, database errors, messages, 2 queued signals, rows growing older than 24 hours | send timer and inactivity timer in step with button and presence, error and rejection, the count of the last 24 hours, and that an idle user is not tracked, also where slots run inside the logger's loop |
| `sqlite_connection` | 3 connections, 2 rows, 1 crash, failing statements | a take is atomic, no way out of it leaves a transaction or a lock behind, and no call waits for ever |
| `settings` | 3 platforms, 2 unanswered requests, 2 passwords, 2 edits, 2 restarts, all troubles | setting and system agree on auto start; the plaintext password is never lost, the newest password is in use, the migration replaces nothing |
| `activity_monitor` | 2 nodes, 4 devices, 3 watch ids, failures, refused devices, shell restarts | keeps listening, one watch, lets go when stopped, watches what is there and was not refused, no leaked descriptor |
| `sampling` | 6 desktops, 2 windows, 2 captions, 2 calls on their way, failures; a minute of 2 retry intervals, a clock set by 1 either way | knows the active window; never tells another one, also after failed calls and restarts of KWin, unless the script that told it is gone; a user whose samples are refused has been told |
| `popup_geometry` | 2 screens, 20 sizes, icons and pointers at all edges, three placers | inside the area it is placed in, which is the work area of one screen but for the KWin script; clear of the icon |
| `tray_popup` | guard and delay of 2 ticks, 2 ends, 2 versions of each file | a click toggles, an answered request is honoured, the script moves popups only, the extension is current |

Many invariants are conditional, with the condition in a history variable
(`troubles`, `failed`, `disturbed`, `unheard`, `restarted`, `broken`, `left`, `dropped`,
`refused`, `orphaned`, `oldAtRead`) in place of a run
without the fault: one run then has the fault and the property in it, and the
condition says which fault the code does not survive.

Why the bounds are enough: the interesting cases need two of a kind (two rows to
be overtaken, two passwords to be confused, two nodes to be swapped) and one
fault or restart between two steps. Every bound is a constant or a guard with a
comment. Ids, versions and counters are compared or counted, never computed with.
`main_controller` has liveness and a nested loop, hence one sample only; a second
sample matters to the queue and is in `sending_service`. Its invariants alone also
hold with two samples and one queued signal (16 million states). In `sampling` a
minute of two ticks is the shortest in which an attempt can fall both inside and at
the end of the throttle; `UserIsTold` is proved for every length.
The runs that allow a bounded number of ends of the process go on in the last
process for ever; only `TrayPopup` may stop: without a tray and with its window
closed the program has nothing left to do (`CHECK_DEADLOCK FALSE` there).

Two properties are to be read with what they are about. `ExtensionIsCurrent` rests on the
comment at `popupplacement.cpp:128`, that GNOME Shell reads an extension's files again when it
is disabled and enabled. `ClickToggles` speaks of a click that the icon reports as a
`Trigger`; where a desktop opens the menu instead (`Main.qml:146` says so of Linux) no such
click comes.
In `activity_monitor` the program may stop and start the monitor at will; as shipped only the
destructor stops it.

### Where the code does not do what it says

| Run | Claim | What happens |
|---|---|---|
| `drains_while_active` | `sendingservice.hpp:113`: "Drains `not_sent` in the background while active" | `m_stopRequested` is never cleared; after one stop and start the thread returns at its first check, after one row at most; the rest is not drained until the next launch |
| `missed_wake` | `sendingservice.hpp:97`: the worker "picks up the newly queued entry without delay" | a wake between the take that finds nothing and the wait reaches nobody, and `run()` does not look again before it waits |
| `dismissed_migration` | `settings.hpp:128`: "if the write fails - keeps it in m_settings" | a dismissed prompt counts as a success, and the only copy of the password is removed |
| `prompt_reentry` | `credentialstore.cpp:99`: blocks "until the prompt completes" | the window is alive while the prompt is up; a second edit waits for the mutex its own thread holds |

Met while modelling, in the models as behaviour, and without a run of their own:

- A row whose outcome cannot be recorded is gone, as it left `not_sent` before the resend,
  and so is the row in hand when the process ends (`notsentsender.cpp:134`, `:119`; both
  end in `dropped`).
- A take that throws looks like an empty table, and the worker goes to its untimed
  wait over a filled one (`notsentsender.cpp:103`; `TakeNothing`).
- The controller starts the service before it connects the slot that shows a
  failure, so a first send skipped for the clock is not shown (`maincontroller.cpp:109`).
- A failed read of the credential store looks like an empty store, and the
  migration may then overwrite a newer password (`settings.cpp:157`).
- The cached password is read on the worker thread and assigned on the main thread
  without a lock (`settings.cpp:69`, `:80`).
- When GNOME Shell restarts Mutter's watch goes with it and nothing asks for
  another (`activitymonitor.cpp:114`).
- A device that `open()` refuses is logged and skipped, and not tried again before it is
  announced again or the monitor starts anew (`activitymonitor.cpp:280`): with all of
  them refused the user is never seen to be active.
- A title outlives its script: when KWin restarts, or `loadScript` or `run` fails after the
  old script was unloaded, the last title told goes into every later sample
  (`kwinscript.cpp:44`, `:50`; `orphaned`).
- The KWin script asks for `KWin.WorkArea` (`src/resource/kwin/popup-placement.js:23`),
  so with several screens the popup may lie across two of them, or on a panel where they
  meet, though `popupplacement.hpp:14` says "inside the work area of that screen".
- A window that changes its title while it stays active is not reported
  (`src/resource/kwin/focused-window-title.js:11`), and `KWinScript::load` reports a script as
  running whatever the answer to `run` was (`kwinscript.cpp:48`).
- A `PlaceNextPopup` that times out may still be handled later, and its mark then
  moves a later window; a crash leaves the KWin script loaded for a later process
  without a tray (`popupplacement.cpp:165`, `:143`).
- A start that is cut off between writing the extension and disabling it leaves
  the shell with the old code: the next start finds nothing changed (`popupplacement.cpp:130`).
- `m_hasSendError` is set by the rest of a slot whose failure an answer handled inside
  the logger's loop has meanwhile made good, so the red icon may outlast a success
  until the next answer; an answer handled inside the constructor's message reaches
  none of the slots that are connected after it (`maincontroller.cpp:124`; `ShowOutcome`, `ResumeSlot`).
- A notification that the desktop fails to show counts as shown for the throttle
  (`maincontroller.cpp:56`), and a wall clock set back suppresses the next one by as much.
- A request to the portal that is refused, fails or is answered out of order leaves
  setting and system apart until the next launch compares them (`settings.cpp:98`).
- An extension GNOME's user declines to install is asked for again at each launch
  (`main.cpp:55`).
- Without a tray, closing the window leaves a process that nothing can show or
  quit, as `setQuitOnLastWindowClosed(false)` applies there too (`main.cpp:62`).

## 4. Fairness

- Worker thread and main thread: weak fairness of the worker's next step and of
  the main thread's pending call (`Fairness` in `SendingService`). The operating
  system schedules both; nothing holds `m_wakeMutex` across a wait.
- Replies: some reply under way finishes, as `QNetworkAccessManager` reports a
  failure or a transfer timeout otherwise.
- The controller: strong fairness of the inactivity timer and of queued signals.
  Both are enabled only in the event loop, which blocking stops leave again and
  again; Qt delivers a posted event and an expired timer at a later turn. Strong
  fairness of `ResumeSlot` for the same reason: the logger's transfer timeout gives a
  message up after five seconds. No fairness of clicks, activity or the end of the process.
- SQLite: weak fairness of a connection that is in a call (`Proceed`); the busy
  handler's time limit is what ends a wait.
- `prompt_reentry` assumes that the user answers prompts and that the program goes
  on then, the most favourable assumption for the claim it refutes.

The other modules state safety only and need no fairness.

## 5. Proofs

Each theorem holds for all values of the constants that satisfy the `ASSUME` of
the module. Most of these only type the constants. The others: connections and
device nodes are finitely many (`StoreAssumption`, `InputsAssumption`), which the code's
three connections and a directory are; desktops and platforms are those the
code tells apart; a minute is at least one retry interval (`SamplingAssumption`); a
waiting event is handled within the 300 ms guard (`MaxDelay <= Guard` in
`PopupAssumption`), which is what the guard counts on; the controller can stop the
service and has a URL (`ControllerAssumption`).

Hardly any of the properties is inductive. Per module, what had to be added, and why:

- `SendingServiceProofs`. `TypeCorrect` carries `RowMatchesPc` (a row is in hand
  exactly at the steps that use it), which `TypeOK` alone would not preserve.
  `SamplesAccountedFor`: every step is first shown to be one of six moves of the
  books (`StepMovesBooks`: capture, take, resend, record, end of the process, or none),
  and the moves to preserve the invariant (`MoveKeepsPlaces`), with two lemmas on
  appending to and taking from a duplicate-free sequence. `Refinement` uses the same
  moves: each is a step of `Outbox` or a stutter under `live <- inFlight \cup InHand`.
  `NothingLost` (nothing is dropped without a database error or the end of the
  process) needs that restarts never decrease. `StopIsNotMissed` and
  `StoppedIsQuiet` are proved by one induction over both.
- `MainControllerProofs`. `TrackingInv` strengthens the timer properties by
  what holds while `stop()` blocks: the timer is off already, though the
  status that caused it is set. The steps of service and worker are dismissed by
  one lemma per effect; that a message interrupts a slot only where none is being
  sent (`SuspendedAt`) is what keeps `ActiveIsWatched` inside the logger's loop.
  `ReminderIsRight` (the reminder runs exactly while the button is not pushed) is
  proved with them. `RejectionIsAnError` is inductive once each slot's effect on the two
  marks is known (`SendMarks`, `StatusMarks`, `RefreshMarks`). `SamplesAccountedForInApp` takes the
  service's moves over: `StepsOfService` shows each step of the controller to be one of
  the service but for three: the constructor, a reply whose sample is lost while a message
  is sent, and the `wake()` that comes after it. `CountIsCurrent` goes over everything
  that writes the table: a slot queries it or notes that it could not, the worker leaves
  a signal (`WorkerSignals`). The count is that of `sent \ oldAtRead`, so that the wall
  clock alone disturbs nothing. It needs the books to know that a sample that could not be
  recorded was not among the dropped before, as that is how the slots tell the failure.
- `SqliteConnectionProofs`. The properties are about rows, but the locks make them true.
  `TransactionFits` says at which statements a transaction is open, on the way out through
  a rollback too; `NoLockLeftBehind` follows from it at the end of every path.
  `LocksMatch` says which lock each statement holds, and that one connection at most
  writes; so a row that was picked is still the oldest at its commit (`PickedIsOldest`,
  `AloneAtCommit`). `RowsInOrder`: ids grow along `taken` and then along the table.
  `QueueIsAtomic` is read off a step from there. The bound on ids in `TypeOK` needs a
  count of the inserts under way (`RoomForInserts`).
- `SettingsProofs`. For the password, `LegacyInv` adds that the copy in memory is the
  copy in the file or none, and that as long as the user has changed nothing all
  copies anywhere are of the one password and one is given up only once the store
  has another (`OnePassword`). `NewestInv` and `MigrationInv` say of every step of
  loading and saving what may still be in the file when the store has something: in
  particular that file and store never hold two different passwords, so an old copy
  is never met next to a newer one (the file is written at the first turn of the event
  loop, before an edit). For auto start, `AutostartAgrees` says nothing while
  requests are under way, so
  `AutostartInv` adds that the last of them asks for what the setting says, and that
  a process that starts undisturbed has none of an earlier one before it. Lemmas on sequences say what
  answering the first request leaves (`RemoveHead`) and the last one is (`AppendLast`).
  `PasswordRefinement`: every step of `Settings` is one of `Credentials` or leaves it
  unchanged, so the three theorems about the password hold of the whole
  (`LegacySafeInSettings`, `NewestLoadedInSettings`, `MigrationSafeInSettings`). `Compared` gives
  the bound on the requests in `SettingsTypeOK`.
- `ActivityMonitorProofs`. The largest. Of every event on its way it says that it is
  true of the node now or that a later one contradicts it (`Truthful`); devices are
  announced in the order they were plugged in (`AddsInOrder`); udev's database is as far
  behind as its events (`ReadyInv`). `NodeInv` says of each node what the program's view
  may be while it has not looked, is opening, or has an event to come; once it has none,
  `WatchesWhatIsThere` is left. Both speak of the inputs that are not `refused`, and a device is behind one
  node at most (`OneNode`), so that a refusal says nothing of another node. `WatchedCount` ties `openFds` to it. For Mutter, that a
  watch is with it or has fired but not both (`WatchInv`); for the desktops with
  hooks, that hooks are there only while running (`HookInv`); and that no other desktop's
  resources are touched (`DeviceSide`, `UsingInv`).
- `SamplingProofs`. `NoticeInv` leaves room in `ToldWithinAMinute` for the ticks until
  the next attempt (`InTime`), and knows that the clock is behind by no more than
  it has been (`NotFurther`). For the title, `KDEInv` is about the last title KWin has
  told, whether it has arrived or not (`LastTold`): a script that runs has told the
  active window or, if an earlier process left it, perhaps nothing yet; where none
  runs none has been told, unless it is `orphaned`; and before
  each call of `load` it says what KWin has. `GnomeInv`: after an undisturbed start the
  extension is enabled or absent.
- `TrayPopupProofs`. `InstallInv` says at each step of an installation what is on the
  disk and in the shell; `ScriptInv` that the KWin script is there only with a tray;
  `AnswerInv` that an answered request has its mark. `ClickInv` says of a press on its
  way what has become of the popup it was aimed at, and that it is younger than the
  guard: `TypeOK` is not inductive without it. `ClickIsToggle` and `AnsweredIsPlaced` follow for
  each step.
- `PopupGeometryProofs`. Linear arithmetic on the two clamps (`KeptBounds`,
  `KeptClear`), for any area, lifted to every placement by window, extension and script.

Only model-checked: liveness (`StopReturns`, `BacklogIsRetried`, `CallsReturn`,
`IdleUserIsNotTracked`), as fairness and ENABLED are out of the prover's reach. The
four claims of section 3 that the code does not keep are refuted by TLC.

## 6. Not modelled

- Critical messages other than those of the main thread's database calls. Those of
  the start-up come before most slots are connected; on the worker's thread the
  nested loop only delays the worker; `KDEFocusedWindowTitle` and
  the udev calls log last. `armGnomeUserActiveWatch` clears its watch id after its message
  (`activitymonitor.cpp:108`), so a stop or a start inside that loop is not covered. The
  text of a message (`betterstacklogentrybuilder.cpp`) is string code.
- `OneInstanceGuarantor` (one call of QLockFile), `extractResourceToDisk` and what the
  Windows notification cleans up (`utilities.cpp`), the form encoding and the title truncation
  (pure string code), the user name, icons and QML bindings. `deletePassword` has no caller.
- A settings file that cannot be written: QSettings keeps the values and nothing
  looks at its status.
- That the refresh timer in the end brings the count up to date: checked with fairness
  it makes the run too long. What is checked is that nothing but age makes the count wrong.
- `deleteEntriesOlderThan24HoursFromSentTable` and `takeOldestEntryFromSentTable`, which have no
  caller; with them the growth of the `sent` table, which nothing prunes, and the narrowing of row
  ids to `int` (`sqliteconnection.cpp:242`), beyond any table's size.
- udev events lost to a full netlink buffer: the code has no reaction to check.

## 7. Plan

1. *Done.* Queue and worker, controller, store, password, activity, title, popup;
   theorems for queue, controller, password and geometry.
2. *Done.* The controller under the logger's nested loop; auto start with the portal,
   crashes and the next launch; titles on all desktops; the clock and its notice;
   theorems for auto start and the notice.
3. *Done.* Theorems for the invariants and action properties of every run: store,
   activity, titles, tray popup, the migration, and the controller's marks and count.
   Then the 24 hours of the statistics, the rollbacks of a take, devices that `open()`
   refuses, titles that outlive their script, and the area of the KWin script, each in
   the model and in its proofs.
4. *Left to prove.* The service's other theorems under the controller, as
   `SamplesAccountedForInApp` does it for the books: `SentWasReceived`,
   `NeverAsleepOnceStopped`, `QuietWhenStopped` and the refinement of `Outbox`. And the
   safety that the liveness properties rest on: that a connection waiting for a lock
   never waits for one that waits for it, and that a timer or a signal is there whenever
   the controller shows a user as active.
