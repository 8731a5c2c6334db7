------------------------- MODULE PlacementExtension -------------------------
(***************************************************************************)
(* How PopupPlacement (qml/controller/popupplacement.cpp) brings the GNOME *)
(* Shell extension that places the popup: it copies the bundled files over *)
(* those of an earlier version, and has the shell load them. The shell     *)
(* learns of a new extension when a session starts, and reads the files of *)
(* one it knows when it enables it.                                        *)
(***************************************************************************)
EXTENDS Naturals

CONSTANTS Faults,       \* whether writing files and calling the shell may fail
          MaxVersions   \* bound: versions of a bundled file

ASSUME ExtensionAssumption == Faults \in BOOLEAN /\ MaxVersions \in Nat \ {0}

VARIABLES pc,          \* "down", the file to copy, "disable", "enable", or after start()
          bundled,     \* the version of each file in the program
          files,       \* and in the extensions directory, 0 for none or half of one
          loaded,      \* and in the shell, 0 likewise
          changed,     \* the changed of installGnomeExtension
          gnomeActive, \* m_gnomeActive
          enabled,     \* the extension is enabled
          pending,     \* its #pending
          broken       \* an installation went wrong or was cut off (history)

installation == <<bundled, files, loaded, changed, broken>>
extensionVars == <<installation, pc, gnomeActive, enabled, pending>>

Files == {"metadata", "script"}
Absent == [f \in Files |-> 0]
Complete(version) == \A f \in Files : version[f] # 0

ExtensionInit == /\ pc = "down"
                 /\ bundled = [f \in Files |-> 1]
                 /\ files = Absent
                 /\ loaded = Absent
                 /\ changed = FALSE
                 /\ gnomeActive = FALSE
                 /\ enabled = FALSE
                 /\ pending = FALSE
                 /\ broken = FALSE

\* The program may have been updated, any of its files with it.
Update == bundled' \in {b \in [Files -> 1..MaxVersions] :
                            \A f \in Files : b[f] \in {bundled[f], bundled[f] + 1}}

\* writeIfChanged for a file that differs: it may not open, or take half the content.
WriteFails(f) == /\ Faults /\ files[f] # bundled[f]
                 /\ broken' = TRUE
                 /\ \/ UNCHANGED <<files, changed>>
                    \/ files' = [files EXCEPT ![f] = 0] /\ changed' = TRUE

\* Mutant: what the file before has found is forgotten.
InstallFileAlone(f) ==
    /\ pc = f
    /\ \/ /\ files' = [files EXCEPT ![f] = bundled[f]]
          /\ changed' = (files[f] # bundled[f])
          /\ UNCHANGED broken
       \/ WriteFails(f)
    /\ UNCHANGED <<bundled, loaded, gnomeActive, enabled, pending>>
\* One round of installGnomeExtension.
InstallFile(f) ==
    /\ pc = f
    /\ \/ /\ files' = [files EXCEPT ![f] = bundled[f]]
          /\ changed' = (changed \/ files[f] # bundled[f])
          /\ UNCHANGED broken
       \/ WriteFails(f)
    /\ UNCHANGED <<bundled, loaded, gnomeActive, enabled, pending>>

InstallExtension ==
    \/ InstallFile("metadata") /\ pc' = "script"
    \/ InstallFile("script") /\ pc' = IF changed' THEN "disable" ELSE "enable"

\* The directory cannot be made.
InstallFails == /\ Faults /\ pc = "metadata"
                /\ pc' = "enable"
                /\ broken' = TRUE
                /\ UNCHANGED <<bundled, files, loaded, changed, gnomeActive, enabled, pending>>

TurnOff == enabled' = FALSE /\ pending' = FALSE
TurnOn == /\ loaded' = IF enabled THEN loaded ELSE files
          /\ enabled' = Complete(loaded')

\* start() does not look at the answer to DisableExtension.
CallDisable ==
    /\ pc = "disable"
    /\ pc' = "enable"
    /\ \/ TurnOff /\ UNCHANGED broken
       \/ Faults /\ broken' = TRUE /\ UNCHANGED <<enabled, pending>>
    /\ UNCHANGED <<bundled, files, loaded, changed, gnomeActive>>

\* The shell refuses to enable an extension it does not know.
CallEnable ==
    /\ pc = "enable"
    /\ pc' = "loop"
    /\ \/ loaded # Absent /\ TurnOn /\ gnomeActive' = TRUE /\ UNCHANGED broken
       \/ loaded = Absent /\ gnomeActive' = FALSE /\ UNCHANGED <<loaded, enabled, broken>>
       \/ /\ Faults /\ gnomeActive' = FALSE /\ broken' = TRUE
          /\ TurnOn \/ UNCHANGED <<loaded, enabled>>
    /\ UNCHANGED <<bundled, files, changed, pending>>

StartExtension == InstallExtension \/ InstallFails \/ CallDisable \/ CallEnable

\* The process is killed in start(), perhaps in the middle of a file.
CutOff == IF pc \in Files \cup {"disable", "enable"}
          THEN /\ broken' = TRUE
               /\ files' \in {files} \cup {[files EXCEPT ![f] = 0] : f \in Files \cap {pc}}
          ELSE UNCHANGED <<broken, files>>

(***************************************************************************)
(* Properties                                                              *)
(***************************************************************************)
\* The part of TrayPopup's type invariant about the extension.
ExtensionTypeOK ==
    /\ pc \in Files \cup {"down", "disable", "enable", "loop", "asking"}
    /\ bundled \in [Files -> 1..MaxVersions]
    /\ {files, loaded} \subseteq [Files -> 0..MaxVersions]
    /\ {changed, gnomeActive, enabled, pending, broken} \subseteq BOOLEAN
    /\ enabled => Complete(loaded)
    /\ pending => enabled

\* An extension the program counts on runs the files this version brought, also
\* after an update of any of them, as long as no installation failed or was cut off. That the shell
\* reads the files again when the extension is disabled and enabled is what the
\* comment at popupplacement.cpp:128 says of it, and an assumption here.
ExtensionIsCurrent == gnomeActive /\ enabled /\ ~broken => loaded = bundled
=============================================================================
