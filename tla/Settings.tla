------------------------------ MODULE Settings ------------------------------
(***************************************************************************)
(* Whether the program starts with the session: the setting autoStartup    *)
(* (core/settings/settings.cpp) and its counterpart in the system          *)
(* (Utilities::autostart), which are changed together, saved at different  *)
(* times, and compared once in main(). The setting shares its file and its *)
(* event loop with the password of Credentials.tla. The system's entries,  *)
(* the portal that writes them on Linux and the user are external.         *)
(***************************************************************************)
EXTENDS Credentials, Sequences, SequencesExt

CONSTANTS Platforms,     \* of "linux", "windows", "macos": the systems to build for
          MaxRequests    \* bound: requests the portal has not answered

ASSUME SettingsAssumption == /\ Platforms \subseteq {"linux", "windows", "macos"}
                             /\ MaxRequests \in Nat \ {0}

VARIABLES platform,
          autoStartup,        \* m_settings.value("autoStartup")
          savedAutoStartup,   \* the same in the settings file
          entries,            \* what the system starts: "own" the program's entry;
                              \* "pending" one the user has yet to approve (macOS);
                              \* "foreign" another one for this program (Linux) or
                              \* the one of another copy of it (Windows)
          requests,           \* RequestBackground calls the portal has not answered
          started,            \* main() has compared the two
          disturbed           \* since then a call has failed, a request been refused or
                              \* overtaken, or the user changed the entries (history)

autostartVars == <<platform, autoStartup, savedAutoStartup, entries, requests, started, disturbed>>
allVars == <<vars, autostartVars>>

EntrySets == [linux   |-> SUBSET {"own", "foreign"},
              windows |-> {{}, {"own"}, {"foreign"}},    \* one registry value
              macos   |-> {{}, {"own"}, {"pending"}}]    \* SMAppService.status

SettingsInit == /\ Init
                /\ platform \in Platforms
                /\ autoStartup \in BOOLEAN
                /\ savedAutoStartup = autoStartup
                /\ entries \in EntrySets[platform]
                /\ requests = <<>>
                /\ started = FALSE
                /\ disturbed = FALSE

(***************************************************************************)
(* Utilities                                                               *)
(***************************************************************************)
IsAutostartEnabled == CASE platform = "linux"   -> entries # {}
                        [] platform = "windows" -> "own" \in entries
                        [] platform = "macos"   -> entries # {}

\* The portal writes or removes the program's entry, no other.
RequestBackground(autostart) ==
    \/ /\ Len(requests) < MaxRequests
       /\ requests' = Append(requests, autostart)
       /\ UNCHANGED <<entries, disturbed>>
    \/ disturbed' = TRUE /\ UNCHANGED <<entries, requests>>

\* Mutant: the value has the name of the copy it starts, so that two have one each.
SetOwnRegistryValue(autostart) ==
    /\ entries' = IF autostart THEN entries \cup {"own"} ELSE entries \ {"own"}
    /\ UNCHANGED <<requests, disturbed>>
SetRegistryValue(autostart) ==
    /\ entries' = IF autostart THEN {"own"} ELSE {}
    /\ UNCHANGED <<requests, disturbed>>

RegisterAppService(autostart) ==
    /\ \/ entries' \in (IF autostart THEN {{"own"}, {"pending"}} ELSE {{}}) /\ UNCHANGED disturbed
       \/ disturbed' = TRUE /\ UNCHANGED entries
    /\ UNCHANGED requests

\* A failed call is logged and forgotten.
Autostart(autostart) ==
    CASE platform = "linux"   -> RequestBackground(autostart)
      [] platform = "windows" -> SetRegistryValue(autostart)
      [] platform = "macos"   -> RegisterAppService(autostart)

(***************************************************************************)
(* main() and Settings                                                     *)
(***************************************************************************)
\* Mutant: the system is told of a change only.
StartUncompared ==
    /\ pc = "loop" /\ ~started
    /\ started' = TRUE
    /\ UNCHANGED <<entries, requests, disturbed>>
    /\ UNCHANGED <<platform, autoStartup, savedAutoStartup>>
\* main(), once Settings is constructed. An earlier process's request may still
\* be under way.
CompareAutostart ==
    /\ pc = "loop" /\ ~started
    /\ started' = TRUE
    /\ IF IsAutostartEnabled # autoStartup
       THEN Autostart(autoStartup)
       ELSE UNCHANGED <<entries, requests, disturbed>>
    /\ UNCHANGED <<platform, autoStartup, savedAutoStartup>>

AllSaved == ~Unsaved /\ autoStartup = savedAutoStartup

SetAutoStartup ==
    /\ pc = "loop" /\ started /\ AllSaved
    /\ autoStartup' = ~autoStartup
    /\ Autostart(autoStartup')
    /\ UNCHANGED <<platform, savedAutoStartup, started>>

\* One file has both.
SyncAllSettings ==
    /\ pc = "loop" /\ started /\ ~AllSaved
    /\ IF Unsaved THEN WriteFile ELSE UNCHANGED vars
    /\ savedAutoStartup' = autoStartup
    /\ UNCHANGED <<platform, autoStartup, entries, requests, started, disturbed>>

\* The constructor; sanitize resets what was read of a malformed file.
LaunchSettings ==
    /\ Launch
    /\ autoStartup' = (autoStartup /\ ~malformed)
    /\ disturbed' = (requests # <<>>)
    /\ UNCHANGED <<platform, savedAutoStartup, entries, requests, started>>

EndSettings(saved) ==
    /\ autoStartup' = saved
    /\ savedAutoStartup' = saved
    /\ started' = FALSE
    /\ UNCHANGED <<platform, entries, requests, disturbed>>

QuitSettings == started /\ Quit /\ EndSettings(autoStartup)
CrashSettings == Crash /\ EndSettings(savedAutoStartup)

(***************************************************************************)
(* The surroundings                                                        *)
(***************************************************************************)
\* The portal answers a request, in any order; it may refuse, or the user may.
PortalAnswers ==
    \E i \in DOMAIN requests :
        /\ \/ /\ entries' = IF requests[i] THEN entries \cup {"own"} ELSE entries \ {"own"}
              /\ disturbed' = (disturbed \/ i # 1)
           \/ disturbed' = TRUE /\ UNCHANGED entries
        /\ requests' = RemoveAt(requests, i)
        /\ UNCHANGED <<platform, autoStartup, savedAutoStartup, started>>

\* The user adds or removes entries, approves one, or moves the program.
ChangeEntries ==
    /\ entries' \in EntrySets[platform] \ {entries}
    /\ disturbed' = (disturbed \/ pc # "down")
    /\ UNCHANGED <<platform, autoStartup, savedAutoStartup, requests, started>>

\* Steps of Credentials.tla that do not write the file; those of the event loop
\* and of the worker only after main() has compared.
PasswordStep == \/ ReadPassword
                \/ AnswerPrompt
                \/ PromptReturns
                \/ FinishLoad
                \/ Migrate
                \/ FinishMigration
                \/ AllSaved /\ started /\ \E password \in Strings : SetPassword(password)
                \/ SetPasswordAgain
                \/ AssignCached
                \/ started /\ ReadCached
                \/ LockKeyring

SettingsNext == \/ LaunchSettings
                \/ CompareAutostart /\ UNCHANGED vars
                \/ SetAutoStartup /\ UNCHANGED vars
                \/ SyncAllSettings
                \/ QuitSettings
                \/ CrashSettings
                \/ PortalAnswers /\ UNCHANGED vars
                \/ ChangeEntries /\ UNCHANGED vars
                \/ PasswordStep /\ UNCHANGED autostartVars

SettingsSpec == SettingsInit /\ [][SettingsNext]_allVars

(***************************************************************************)
(* Properties                                                              *)
(***************************************************************************)
\* The type invariant: a saved file is the one in memory until the event loop runs,
\* unless it was malformed.
SettingsTypeOK == /\ TypeOK
                  /\ platform \in Platforms
                  /\ {autoStartup, savedAutoStartup, started, disturbed} \subseteq BOOLEAN
                  /\ entries \in EntrySets[platform]
                  /\ requests \in Seq(BOOLEAN)
                  /\ Len(requests) <= MaxRequests
                  /\ platform # "linux" => requests = <<>>
                  /\ ~started /\ ~malformed => autoStartup = savedAutoStartup
                  /\ started => pc \in {"loop", "savePrompt", "assign", "stuck"}

\* The system starts the program with the session as the setting says, though the
\* two are changed by different calls and a crash may keep one change and lose the
\* other: as long as, in this process, no call failed, no request was refused or
\* overtaken, and nobody else changed the entries. Entries of others may stay.
AutostartAgrees ==
    started /\ requests = <<>> /\ ~disturbed
        => IF autoStartup THEN IsAutostartEnabled
                          ELSE entries \cap {"own", "pending"} = {}
=============================================================================
