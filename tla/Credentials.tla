---------------------------- MODULE Credentials ----------------------------
(***************************************************************************)
(* The account password: the copy Settings caches                          *)
(* (core/settings/settings.cpp), its home in the Linux Secret Service      *)
(* (core/settings/credentialstore.cpp), and the plaintext copy an older    *)
(* version left in the settings file. The service and the keyring's prompt *)
(* are external. While a prompt is up, waitForPrompt runs an event loop of *)
(* its own under credentialStoreMutex, so the window stays alive; and the  *)
(* worker thread reads the cached copy for the body of each request.       *)
(***************************************************************************)
EXTENDS Naturals

CONSTANTS Passwords,
          NoPassword,     \* the empty string: none stored, or none entered
          Troubles,       \* what may go wrong, of "failure" (a call to the service
                          \* fails), "dismissal" (the user dismisses a prompt) and
                          \* "malformed" (the settings file is)
          MaxEdits,       \* bound: changes of the password
          MaxRestarts     \* bound: ends of the process

ASSUME CredentialsAssumption == /\ NoPassword \notin Passwords
                                /\ Troubles \subseteq {"failure", "dismissal", "malformed"}
                                /\ MaxEdits \in Nat
                                /\ MaxRestarts \in Nat

VARIABLES legacy,         \* m_settings.value("password")
          savedLegacy,    \* the same in the settings file
          malformed,      \* the settings file has lines that are no settings
          item,           \* the password the Secret Service holds
          locked,         \* the keyring is locked
          prompt,         \* the keyring's prompt
          cached,         \* m_cachedPassword
          pc,             \* where the main thread is
          target,         \* the argument of the writePassword under way
          newest,         \* the password the user means (history)
          troubles,       \* what has gone wrong so far (history)
          workerReading,  \* the worker is copying m_cachedPassword
          edits, restarts

store == <<item, locked, prompt>>
file == <<savedLegacy, malformed>>
settings == <<legacy, file, cached>>
vars == <<store, settings, pc, target, newest, troubles, workerReading, edits, restarts>>

Strings == Passwords \cup {NoPassword}
Prompting == {"unlocking", "migratePrompt", "savePrompt"}
Serving == {"loop", "savePrompt", "assign", "stuck"}    \* the window is up
MainPcs == Prompting \cup Serving
           \cup {"down", "read", "loaded", "migrate", "migrated", "notMigrated"}

Init == /\ legacy \in Strings
        /\ savedLegacy = legacy
        /\ malformed \in BOOLEAN /\ (malformed => "malformed" \in Troubles)
        /\ item = NoPassword
        /\ locked \in BOOLEAN
        /\ prompt = "none"
        /\ cached = NoPassword
        /\ pc = "down"
        /\ target = NoPassword
        /\ newest = legacy
        /\ troubles = {}
        /\ workerReading = FALSE
        /\ edits = 0
        /\ restarts = 0

(***************************************************************************)
(* CredentialStore                                                         *)
(***************************************************************************)
\* A call to the service, the keychain or the credential vault fails.
CallFails == "failure" \in Troubles /\ troubles' = troubles \cup {"failure"}
CallAnswers == troubles' = troubles

\* A read without a prompt, all there is on macOS and on Windows: a failed call
\* and an absent item both give an empty string.
ReadAtOnce == /\ \/ CallAnswers /\ cached' = item
                 \/ CallFails /\ cached' = NoPassword
              /\ pc' = "loaded"

\* readPassword: a locked item is unlocked, with a prompt or without.
ReadPassword ==
    /\ pc = "read"
    /\ \/ /\ ReadAtOnce
          /\ locked' = (locked /\ cached' = NoPassword)
          /\ UNCHANGED <<item, prompt>>
       \/ /\ item # NoPassword /\ locked
          /\ prompt' = "open"
          /\ pc' = "unlocking"
          /\ CallAnswers
          /\ UNCHANGED <<item, locked, cached>>
    /\ UNCHANGED <<legacy, file, target, newest, workerReading, edits, restarts>>

\* A write without a prompt, all there is on macOS and on Windows.
WriteAtOnce(password, success, failure) ==
    /\ \/ CallAnswers /\ item' = password /\ pc' = success
       \/ CallFails /\ pc' = failure /\ UNCHANGED item
    /\ UNCHANGED <<locked, prompt>>

\* writePassword: CreateItem with replace; a locked keyring opens a prompt.
WritePassword(password, success, failure, prompting) ==
    /\ target' = password
    /\ \/ ~locked /\ WriteAtOnce(password, success, failure)
       \/ locked /\ CallFails /\ pc' = failure /\ UNCHANGED store
       \/ locked /\ CallAnswers /\ prompt' = "open" /\ pc' = prompting /\ UNCHANGED <<item, locked>>

\* External: the user answers the prompt, and the service does what was asked.
AnswerPrompt ==
    /\ prompt = "open"
    /\ \/ /\ prompt' = "accepted"
          /\ locked' = FALSE
          /\ item' = IF pc = "unlocking" THEN item ELSE target
          /\ newest' = IF pc = "unlocking" THEN newest ELSE target
          /\ UNCHANGED troubles
       \/ /\ "dismissal" \in Troubles
          /\ prompt' = "dismissed"
          /\ troubles' = troubles \cup {"dismissal"}
          /\ UNCHANGED <<locked, item, newest>>
    /\ UNCHANGED <<settings, pc, target, workerReading, edits, restarts>>

\* The search after an unlock.
SearchAgain == \/ CallAnswers /\ cached' = IF locked THEN NoPassword ELSE item
               \/ CallFails /\ cached' = NoPassword

\* The caller goes on when waitForPrompt has returned.
Continue == \/ pc = "unlocking" /\ pc' = "loaded" /\ SearchAgain
            \/ pc = "migratePrompt" /\ pc' = "migrated" /\ CallAnswers /\ UNCHANGED cached
            \/ pc = "savePrompt" /\ pc' = "assign" /\ CallAnswers /\ UNCHANGED cached

\* Mutant: the search is not repeated once the keyring is unlocked.
PromptReturnsUnread ==
    /\ prompt \in {"accepted", "dismissed"} /\ pc \in Prompting
    /\ prompt' = "none"
    /\ IF pc = "unlocking"
       THEN pc' = "loaded" /\ cached' = NoPassword /\ CallAnswers
       ELSE Continue
    /\ UNCHANGED <<item, locked, legacy, file, target, newest, workerReading, edits, restarts>>
\* Mutant: an earlier prompt is taken for the next one.
PromptReturnsTwice ==
    /\ prompt \in {"accepted", "dismissed"} /\ pc \in Prompting
    /\ Continue
    /\ UNCHANGED <<store, legacy, file, target, newest, workerReading, edits, restarts>>
\* waitForPrompt returns, however the prompt was answered: findItem searches
\* again, and writePassword reports success.
PromptReturns ==
    /\ prompt \in {"accepted", "dismissed"} /\ pc \in Prompting
    /\ prompt' = "none"
    /\ Continue
    /\ UNCHANGED <<item, locked, legacy, file, target, newest, workerReading, edits, restarts>>

(***************************************************************************)
(* Settings                                                                *)
(***************************************************************************)
\* The constructor, up to loadPassword: sanitize clears what was read of a
\* malformed file, and removes every key it does not know but "password".
Launch ==
    /\ pc = "down"
    /\ pc' = "read"
    /\ IF malformed
       THEN legacy' = NoPassword /\ troubles' = troubles \cup {"malformed"}
       ELSE UNCHANGED <<legacy, troubles>>
    /\ UNCHANGED <<store, file, cached, target, newest, workerReading, edits, restarts>>

\* loadPassword, once readPassword has returned.
FinishLoad ==
    /\ pc = "loaded"
    /\ IF legacy = NoPassword \/ cached # NoPassword
       THEN legacy' = NoPassword /\ pc' = "loop"
       ELSE pc' = "migrate" /\ UNCHANGED legacy
    /\ UNCHANGED <<store, file, cached, target, newest, troubles, workerReading, edits, restarts>>

Migrate ==
    /\ pc = "migrate"
    /\ WritePassword(legacy, "migrated", "notMigrated", "migratePrompt")
    /\ UNCHANGED <<settings, newest, workerReading, edits, restarts>>

\* Mutant: the plaintext copy goes whether or not the write succeeded.
FinishMigrationBlindly ==
    /\ pc \in {"migrated", "notMigrated"}
    /\ cached' = legacy
    /\ legacy' = NoPassword
    /\ pc' = "loop"
    /\ UNCHANGED <<store, file, target, newest, troubles, workerReading, edits, restarts>>
\* Mutant: the plaintext copy stays once the store has the password.
FinishMigrationKeeping ==
    /\ pc \in {"migrated", "notMigrated"}
    /\ cached' = legacy
    /\ pc' = "loop"
    /\ UNCHANGED <<store, legacy, file, target, newest, troubles, workerReading, edits, restarts>>
FinishMigration ==
    /\ pc \in {"migrated", "notMigrated"}
    /\ cached' = legacy
    /\ legacy' = IF pc = "migrated" THEN NoPassword ELSE legacy
    /\ pc' = "loop"
    /\ UNCHANGED <<store, file, target, newest, troubles, workerReading, edits, restarts>>

Unsaved == savedLegacy # legacy \/ malformed

WriteFile ==
    /\ savedLegacy' = legacy
    /\ malformed' = FALSE
    /\ UNCHANGED <<store, legacy, cached, pc, target, newest, troubles, workerReading, edits,
                   restarts>>

\* QSettings writes the file from the event it has posted, before any input.
SyncSettings == pc = "loop" /\ Unsaved /\ WriteFile

\* setPassword, up to the assignment of m_cachedPassword.
SetPassword(password) ==
    /\ pc = "loop" /\ ~Unsaved
    /\ edits < MaxEdits
    /\ password # cached
    /\ edits' = edits + 1
    /\ WritePassword(password, "assign", "assign", "savePrompt")
    /\ newest' = IF prompt' = "open" THEN newest ELSE password
    /\ UNCHANGED <<settings, workerReading, restarts>>

\* The window calls setPassword from the prompt's event loop: the same password
\* or another, it is not the cached one, and writePassword waits for a mutex
\* its own thread holds.
SetPasswordAgain ==
    /\ pc = "savePrompt" /\ prompt = "open"
    /\ edits < MaxEdits
    /\ edits' = edits + 1
    /\ pc' = "stuck"
    /\ UNCHANGED <<store, settings, target, newest, troubles, workerReading, restarts>>

AssignCached ==
    /\ pc = "assign"
    /\ cached' = target
    /\ newest' = target
    /\ pc' = "loop"
    /\ UNCHANGED <<store, legacy, file, target, troubles, workerReading, edits, restarts>>

(***************************************************************************)
(* Settings::password, on the worker thread (buildShootRequestBody)        *)
(***************************************************************************)
ReadCached ==
    /\ pc \in Serving
    /\ workerReading' = ~workerReading
    /\ UNCHANGED <<store, settings, pc, target, newest, troubles, edits, restarts>>

(***************************************************************************)
(* The surroundings                                                        *)
(***************************************************************************)
LockKeyring ==
    /\ prompt = "none" /\ ~locked
    /\ locked' = TRUE
    /\ UNCHANGED <<item, prompt, settings, pc, target, newest, troubles, workerReading, edits,
                   restarts>>

\* The process ends: cleanly from its event loop, or killed anywhere.
EndProcess(saved, bad) ==
    /\ pc # "down" /\ restarts < MaxRestarts
    /\ restarts' = restarts + 1
    /\ legacy' = saved
    /\ savedLegacy' = saved
    /\ malformed' = bad
    /\ pc' = "down"
    /\ prompt' = "none"
    /\ cached' = NoPassword
    /\ target' = NoPassword
    /\ workerReading' = FALSE
    /\ UNCHANGED <<item, locked, newest, troubles, edits>>
Quit == pc = "loop" /\ EndProcess(legacy, FALSE)
Crash == EndProcess(savedLegacy, malformed)

Next == \/ Launch
        \/ ReadPassword
        \/ AnswerPrompt
        \/ PromptReturns
        \/ FinishLoad
        \/ Migrate
        \/ FinishMigration
        \/ SyncSettings
        \/ \E password \in Strings : SetPassword(password)
        \/ SetPasswordAgain
        \/ AssignCached
        \/ ReadCached
        \/ LockKeyring
        \/ Quit
        \/ Crash

Spec == Init /\ [][Next]_vars

\* The user answers a prompt sooner or later, and the main thread goes on.
FairSpec == Spec /\ WF_vars(AnswerPrompt) /\ WF_vars(PromptReturns)

(***************************************************************************)
(* Properties                                                              *)
(***************************************************************************)
\* The type invariant: a prompt belongs to a call that waits for it.
TypeOK == /\ {legacy, savedLegacy, item, cached, target, newest} \subseteq Strings
          /\ locked \in BOOLEAN
          /\ malformed \in BOOLEAN /\ (malformed => "malformed" \in Troubles)
          /\ troubles \subseteq Troubles
          /\ prompt \in {"none", "open", "accepted", "dismissed"}
          /\ pc \in MainPcs
          /\ workerReading \in BOOLEAN
          /\ edits \in 0..MaxEdits
          /\ restarts \in 0..MaxRestarts
          /\ prompt # "none" <=> pc \in Prompting \cup {"stuck"}

\* A password an older version left in the settings file is never lost on its way
\* to the credential store: through failed writes, locked keyrings and crashes
\* between two steps it stays in the file or the store until the user changes it.
\* A dismissed prompt and a malformed file are excluded.
LegacyNeverLost ==
    troubles \subseteq {"failure"} /\ edits = 0 /\ newest # NoPassword
        => newest \in {item, savedLegacy}

\* In the event loop the password in use is the one the user means: entered in
\* this process or an earlier one, migrated, or read from a locked keyring, as
\* long as nothing has gone wrong.
NewestIsLoaded == troubles = {} /\ pc = "loop" => cached = newest

\* The migration never replaces another password: where the service answers, an
\* old plaintext copy does not come back over a password entered since, however
\* prompts are answered and wherever the process ends.
MigrationReplacesNothing ==
    [][troubles \subseteq {"dismissal"} /\ item' # item /\ pc \in {"migrate", "migratePrompt"}
        => item = NoPassword]_vars

(***************************************************************************)
(* What the comments of the code promise and the code does not keep.       *)
(***************************************************************************)
\* "if the write fails - keeps it in m_settings" (loadPassword): the plaintext
\* password goes only when the credential store has one.
KeptWhenWriteFails == [][FinishMigration /\ legacy' # legacy => item # NoPassword]_vars

\* "Blocks (via a local event loop) until the prompt at promptPath completes"
\* (waitForPrompt): setPassword goes on once the user has answered.
SavePromptEnds == pc = "savePrompt" ~> pc \in {"assign", "down"}
=============================================================================
