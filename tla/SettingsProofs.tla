--------------------------- MODULE SettingsProofs ---------------------------
(***************************************************************************)
(* Proofs about Credentials.tla and Settings.tla, for every set of         *)
(* passwords and platforms, every bound and every choice of troubles.      *)
(*                                                                         *)
(* LegacyNeverLost is not inductive: it needs to know that before the first*)
(* edit there is only one password about, and that each step of            *)
(* loadPassword that gives up the plaintext copy comes after the store has *)
(* it, as long as no prompt has been dismissed and no malformed file read. *)
(* NewestIsLoaded and MigrationReplacesNothing need to know of every step  *)
(* what may still be in the file when the store has something.             *)
(*                                                                         *)
(* AutostartAgrees is strengthened by what it says while requests are under*)
(* way: the last one asks for what the setting says, so that the portal,   *)
(* answering in order, ends where the setting is. The password's side is a *)
(* refinement: every step is one of Credentials.tla or leaves the password *)
(* alone, so what is proved there holds here.                              *)
(***************************************************************************)
EXTENDS Settings, SequenceTheorems, TLAPS

-----------------------------------------------------------------------------
(* The password.                                                           *)

Migrating == {"migrate", "migratePrompt", "migrated", "notMigrated"}

\* The plaintext copy in memory goes first, the one in the file follows.
PlaintextOrder == legacy \in {savedLegacy, NoPassword}

\* Before the first edit every copy is a copy of the same password, and a copy
\* is given up only when the store has one.
OnePassword ==
    /\ pc \notin {"savePrompt", "assign", "stuck"}
    /\ {savedLegacy, item} \subseteq {newest, NoPassword}
    /\ legacy # savedLegacy => item = newest
    /\ newest # NoPassword => newest \in {item, savedLegacy}
    /\ pc \in Migrating => legacy # NoPassword
    /\ pc = "migratePrompt" => target = legacy
    /\ pc = "migrated" \/ (pc = "migratePrompt" /\ prompt = "accepted") => item = newest
    /\ pc = "loaded" /\ cached # NoPassword => item = newest

OnlyFailures == troubles \subseteq {"failure"}

LegacyInv == /\ TypeOK
             /\ OnlyFailures => prompt # "dismissed"
             /\ PlaintextOrder
             /\ OnlyFailures /\ edits = 0 => OnePassword

LEMMA InitLegacyInv == Init => LegacyInv
<1> SUFFICES ASSUME Init PROVE LegacyInv
    OBVIOUS
<1>1. TypeOK
  <2>1. {legacy, savedLegacy, item, cached, target, newest} \subseteq Strings
      BY DEF Init, Strings
  <2>2. edits \in 0..MaxEdits /\ restarts \in 0..MaxRestarts
      BY CredentialsAssumption DEF Init
  <2>3. pc \in MainPcs /\ (prompt # "none" <=> pc \in Prompting \cup {"stuck"})
      BY DEF Init, MainPcs, Prompting, Serving
  <2>4. /\ locked \in BOOLEAN /\ malformed \in BOOLEAN
        /\ malformed => "malformed" \in Troubles
        /\ troubles \subseteq Troubles
      BY DEF Init
  <2> QED
      BY <2>1, <2>2, <2>3, <2>4 DEF Init, TypeOK
<1>2. OnePassword /\ PlaintextOrder /\ prompt # "dismissed"
    BY DEF Init, OnePassword, PlaintextOrder, Strings, Migrating
<1> QED
    BY <1>1, <1>2 DEF LegacyInv

\* Type correctness is inductive by itself.
LEMMA NextTyped ==
    ASSUME TypeOK, [Next]_vars
    PROVE  TypeOK'
<1> USE CredentialsAssumption
        DEF TypeOK, Strings, MainPcs, Prompting, Serving, store, file, settings,
            CallFails, CallAnswers
<1>1. CASE Launch
  <2>1. troubles' \subseteq Troubles
      BY <1>1 DEF Launch
  <2>2. legacy' \in Strings
      BY <1>1 DEF Launch
  <2> QED
      BY <1>1, <2>1, <2>2 DEF Launch
<1>2. CASE ReadPassword
    BY <1>2 DEF ReadPassword, ReadAtOnce
<1>3. CASE AnswerPrompt
    BY <1>3 DEF AnswerPrompt
<1>4. CASE PromptReturns
    BY <1>4 DEF PromptReturns, Continue, SearchAgain
<1>5. CASE FinishLoad
    BY <1>5 DEF FinishLoad
<1>6. CASE Migrate
    BY <1>6 DEF Migrate, WritePassword, WriteAtOnce
<1>7. CASE FinishMigration
    BY <1>7 DEF FinishMigration
<1>8. CASE SyncSettings
    BY <1>8 DEF SyncSettings, WriteFile
<1>9. ASSUME NEW password \in Strings, SetPassword(password)
     PROVE  TypeOK'
  <2>1. edits' \in 0..MaxEdits
      BY <1>9 DEF SetPassword
  <2> QED
      BY <1>9, <2>1 DEF SetPassword, WritePassword, WriteAtOnce
<1>10. CASE SetPasswordAgain
    BY <1>10 DEF SetPasswordAgain
<1>11. CASE AssignCached
    BY <1>11 DEF AssignCached
<1>12. CASE ReadCached
    BY <1>12 DEF ReadCached
<1>13. CASE LockKeyring
    BY <1>13 DEF LockKeyring
<1>14. CASE Quit
  <2>1. restarts' \in 0..MaxRestarts
      BY <1>14 DEF Quit, EndProcess
  <2> QED
      BY <1>14, <2>1 DEF Quit, EndProcess
<1>15. CASE Crash
  <2>1. restarts' \in 0..MaxRestarts
      BY <1>15 DEF Crash, EndProcess
  <2> QED
      BY <1>15, <2>1 DEF Crash, EndProcess
<1>16. CASE UNCHANGED vars
    BY <1>16 DEF vars
<1> QED
    BY <1>1, <1>2, <1>3, <1>4, <1>5, <1>6, <1>7, <1>8, <1>9,
       <1>10, <1>11, <1>12, <1>13, <1>14, <1>15, <1>16 DEF Next

\* What has gone wrong stays gone wrong.
LEMMA TroublesStay ==
    ASSUME TypeOK, [Next]_vars
    PROVE  troubles \subseteq troubles'
<1> USE DEF settings, CallFails, CallAnswers
<1>1. CASE Launch
    BY <1>1 DEF Launch
<1>2. CASE ReadPassword
    BY <1>2 DEF ReadPassword, ReadAtOnce
<1>3. CASE AnswerPrompt
    BY <1>3 DEF AnswerPrompt
<1>4. CASE PromptReturns
    BY <1>4 DEF PromptReturns, Continue, SearchAgain
<1>5. CASE FinishLoad
    BY <1>5 DEF FinishLoad
<1>6. CASE Migrate
    BY <1>6 DEF Migrate, WritePassword, WriteAtOnce
<1>7. CASE FinishMigration
    BY <1>7 DEF FinishMigration
<1>8. CASE SyncSettings
    BY <1>8 DEF SyncSettings, WriteFile
<1>9. ASSUME NEW password \in Strings, SetPassword(password)
     PROVE  troubles \subseteq troubles'
    BY <1>9 DEF SetPassword, WritePassword, WriteAtOnce
<1>10. CASE SetPasswordAgain
    BY <1>10 DEF SetPasswordAgain
<1>11. CASE AssignCached
    BY <1>11 DEF AssignCached
<1>12. CASE ReadCached
    BY <1>12 DEF ReadCached
<1>13. CASE LockKeyring
    BY <1>13 DEF LockKeyring
<1>14. CASE Quit
    BY <1>14 DEF Quit, EndProcess
<1>15. CASE Crash
    BY <1>15 DEF Crash, EndProcess
<1>16. CASE UNCHANGED vars
    BY <1>16 DEF vars
<1> QED
    BY <1>1, <1>2, <1>3, <1>4, <1>5, <1>6, <1>7, <1>8, <1>9,
       <1>10, <1>11, <1>12, <1>13, <1>14, <1>15, <1>16 DEF Next

\* The plaintext copy in memory is cleared by loadPassword and read at a start.
LEMMA NextOrdered ==
    ASSUME TypeOK, PlaintextOrder, [Next]_vars
    PROVE  PlaintextOrder'
<1> USE DEF PlaintextOrder, file, settings
<1>1. CASE Launch
    BY <1>1 DEF Launch
<1>2. CASE ReadPassword
    BY <1>2 DEF ReadPassword, ReadAtOnce
<1>3. CASE AnswerPrompt
    BY <1>3 DEF AnswerPrompt
<1>4. CASE PromptReturns
    BY <1>4 DEF PromptReturns, Continue, SearchAgain
<1>5. CASE FinishLoad
    BY <1>5 DEF FinishLoad
<1>6. CASE Migrate
    BY <1>6 DEF Migrate, WritePassword, WriteAtOnce
<1>7. CASE FinishMigration
    BY <1>7 DEF FinishMigration
<1>8. CASE SyncSettings
    BY <1>8 DEF SyncSettings, WriteFile
<1>9. ASSUME NEW password \in Strings, SetPassword(password)
     PROVE  PlaintextOrder'
    BY <1>9 DEF SetPassword, WritePassword, WriteAtOnce
<1>10. CASE SetPasswordAgain
    BY <1>10 DEF SetPasswordAgain
<1>11. CASE AssignCached
    BY <1>11 DEF AssignCached
<1>12. CASE ReadCached
    BY <1>12 DEF ReadCached
<1>13. CASE LockKeyring
    BY <1>13 DEF LockKeyring
<1>14. CASE Quit
    BY <1>14 DEF Quit, EndProcess
<1>15. CASE Crash
    BY <1>15 DEF Crash, EndProcess
<1>16. CASE UNCHANGED vars
    BY <1>16 DEF vars
<1> QED
    BY <1>1, <1>2, <1>3, <1>4, <1>5, <1>6, <1>7, <1>8, <1>9,
       <1>10, <1>11, <1>12, <1>13, <1>14, <1>15, <1>16 DEF Next

\* One step per action: while there are only failures, the one password stays.
LEMMA NextOnePassword ==
    ASSUME LegacyInv, [Next]_vars, OnlyFailures, OnlyFailures', TypeOK'
    PROVE  prompt' # "dismissed" /\ (edits' = 0 => OnePassword')
<1> USE CredentialsAssumption
        DEF LegacyInv, TypeOK, PlaintextOrder, OnePassword, Strings, MainPcs,
            Prompting, Serving, Migrating, store, file, settings, CallAnswers
<1>1. CASE Launch
  <2>1. ~malformed
      BY <1>1 DEF Launch, OnlyFailures
  <2> QED
      BY <1>1, <2>1 DEF Launch
<1>2. CASE ReadPassword
    BY <1>2 DEF ReadPassword, ReadAtOnce
<1>3. CASE AnswerPrompt
  <2>1. prompt' = "accepted"
      BY <1>3 DEF AnswerPrompt, OnlyFailures
  <2>2. pc = "unlocking" => UNCHANGED <<item, newest>>
      BY <1>3, <2>1 DEF AnswerPrompt
  <2>3. pc # "unlocking" => item' = target /\ newest' = target
      BY <1>3, <2>1 DEF AnswerPrompt
  <2>4. UNCHANGED <<legacy, savedLegacy, cached, pc, target, edits>>
      BY <1>3 DEF AnswerPrompt
  <2> QED
      BY <2>1, <2>2, <2>3, <2>4
<1>4. CASE PromptReturns
    BY <1>4 DEF PromptReturns, Continue, SearchAgain
<1>5. CASE FinishLoad
    BY <1>5 DEF FinishLoad
<1>6. CASE Migrate
    BY <1>6 DEF Migrate, WritePassword, WriteAtOnce
<1>7. CASE FinishMigration
    BY <1>7 DEF FinishMigration
<1>8. CASE SyncSettings
    BY <1>8 DEF SyncSettings, WriteFile
<1>9. ASSUME NEW password \in Strings, SetPassword(password)
     PROVE  prompt' # "dismissed" /\ (edits' = 0 => OnePassword')
    BY <1>9 DEF SetPassword, WritePassword, WriteAtOnce
<1>10. CASE SetPasswordAgain
    BY <1>10 DEF SetPasswordAgain
<1>11. CASE AssignCached
    BY <1>11 DEF AssignCached
<1>12. CASE ReadCached
    BY <1>12 DEF ReadCached
<1>13. CASE LockKeyring
    BY <1>13 DEF LockKeyring
<1>14. CASE Quit
    BY <1>14 DEF Quit, EndProcess
<1>15. CASE Crash
    BY <1>15 DEF Crash, EndProcess
<1>16. CASE UNCHANGED vars
    BY <1>16 DEF vars
<1> QED
    BY <1>1, <1>2, <1>3, <1>4, <1>5, <1>6, <1>7, <1>8, <1>9,
       <1>10, <1>11, <1>12, <1>13, <1>14, <1>15, <1>16 DEF Next

LEMMA NextLegacyInv ==
    ASSUME LegacyInv, [Next]_vars
    PROVE  LegacyInv'
<1>1. TypeOK'
    BY NextTyped DEF LegacyInv
<1>2. PlaintextOrder'
    BY NextOrdered DEF LegacyInv
<1>3. OnlyFailures' => OnlyFailures
    BY TroublesStay DEF LegacyInv, OnlyFailures
<1>4. OnlyFailures' => prompt' # "dismissed" /\ (edits' = 0 => OnePassword')
    BY <1>1, <1>3, NextOnePassword
<1> QED
    BY <1>1, <1>2, <1>4 DEF LegacyInv

\* A password an older version left in the settings file is never lost on its
\* way to the credential store (Settings::loadPassword), for every set of
\* passwords, with failing service calls, locked keyrings and crashes anywhere,
\* as long as no prompt is dismissed and the file can be read.
THEOREM LegacySafe == Spec => []LegacyNeverLost
<1>1. Init => LegacyInv
    BY InitLegacyInv
<1>2. LegacyInv /\ [Next]_vars => LegacyInv'
    BY NextLegacyInv
<1>3. LegacyInv => LegacyNeverLost
    BY DEF LegacyInv, OnlyFailures, OnePassword, LegacyNeverLost
<1> QED
    BY <1>1, <1>2, <1>3, PTL DEF Spec

\* What the file may still have beside an item, while all that goes wrong is that
\* prompts are dismissed.
MigrationInv ==
    troubles \subseteq {"dismissal"} =>
        /\ pc # "down" => ~malformed
        /\ legacy = IF pc \in Serving THEN NoPassword ELSE savedLegacy
        /\ pc \in {"savePrompt", "assign", "stuck"} => savedLegacy = NoPassword
        /\ item \in {NoPassword, savedLegacy} \/ savedLegacy = NoPassword
        /\ pc # "notMigrated"
        /\ pc \in Migrating => legacy # NoPassword
        /\ pc = "migratePrompt" => target = legacy

\* And where what the user means is to be found, while nothing goes wrong.
NewestInv ==
    troubles = {} =>
        /\ newest = IF item # NoPassword THEN item ELSE savedLegacy
        /\ pc \in Serving /\ item = NoPassword => savedLegacy = NoPassword
        /\ pc = "unlocking" => item # NoPassword
        /\ pc = "loaded" => cached = item
        /\ pc = "migrate" => item = NoPassword
        /\ pc = "migrated" \/ (pc = "migratePrompt" /\ prompt = "accepted") => item = legacy
        /\ pc = "loop" => cached = newest
        /\ pc = "assign" \/ (pc = "savePrompt" /\ prompt = "accepted") => item = target
        /\ prompt # "dismissed"
        /\ prompt = "accepted" => ~locked

PasswordInv == LegacyInv /\ MigrationInv /\ NewestInv

LEMMA NextMigration ==
    ASSUME TypeOK, MigrationInv, [Next]_vars
    PROVE  MigrationInv'
<1> SUFFICES ASSUME troubles' \subseteq {"dismissal"}, troubles \subseteq {"dismissal"}
             PROVE  MigrationInv'
    BY TroublesStay DEF MigrationInv
<1> USE DEF TypeOK, MigrationInv, MainPcs, Prompting, Serving, Migrating, store, file, settings,
            CallFails, CallAnswers
<1>1. CASE Launch
    BY <1>1 DEF Launch
<1>2. CASE ReadPassword
    BY <1>2 DEF ReadPassword, ReadAtOnce
<1>3. CASE AnswerPrompt
    BY <1>3 DEF AnswerPrompt
<1>4. CASE PromptReturns
    BY <1>4 DEF PromptReturns, Continue, SearchAgain
<1>5. CASE FinishLoad
    BY <1>5 DEF FinishLoad
<1>6. CASE Migrate
    BY <1>6 DEF Migrate, WritePassword, WriteAtOnce
<1>7. CASE FinishMigration
    BY <1>7 DEF FinishMigration
<1>8. CASE SyncSettings
    BY <1>8 DEF SyncSettings, WriteFile
<1>9. ASSUME NEW password \in Strings, SetPassword(password)
     PROVE  MigrationInv'
    BY <1>9 DEF SetPassword, WritePassword, WriteAtOnce, Unsaved
<1>10. CASE SetPasswordAgain
    BY <1>10 DEF SetPasswordAgain
<1>11. CASE AssignCached
    BY <1>11 DEF AssignCached
<1>12. CASE ReadCached
    BY <1>12 DEF ReadCached
<1>13. CASE LockKeyring
    BY <1>13 DEF LockKeyring
<1>14. CASE Quit
    BY <1>14 DEF Quit, EndProcess
<1>15. CASE Crash
    BY <1>15 DEF Crash, EndProcess
<1>16. CASE UNCHANGED vars
    BY <1>16 DEF vars
<1> QED
    BY <1>1, <1>2, <1>3, <1>4, <1>5, <1>6, <1>7, <1>8, <1>9,
       <1>10, <1>11, <1>12, <1>13, <1>14, <1>15, <1>16 DEF Next

LEMMA NextNewest ==
    ASSUME TypeOK, MigrationInv, NewestInv, [Next]_vars
    PROVE  NewestInv'
<1> SUFFICES ASSUME troubles' = {}, troubles = {}
             PROVE  NewestInv'
    BY TroublesStay DEF NewestInv
<1> USE DEF TypeOK, MigrationInv, NewestInv, MainPcs, Prompting, Serving, Migrating, store, file,
            settings, CallFails, CallAnswers
<1>1. CASE Launch
    BY <1>1 DEF Launch
<1>2. CASE ReadPassword
    BY <1>2 DEF ReadPassword, ReadAtOnce
<1>3. CASE AnswerPrompt
    BY <1>3 DEF AnswerPrompt
<1>4. CASE PromptReturns
    BY <1>4 DEF PromptReturns, Continue, SearchAgain
<1>5. CASE FinishLoad
    BY <1>5 DEF FinishLoad
<1>6. CASE Migrate
    BY <1>6 DEF Migrate, WritePassword, WriteAtOnce
<1>7. CASE FinishMigration
    BY <1>7 DEF FinishMigration
<1>8. CASE SyncSettings
    BY <1>8 DEF SyncSettings, WriteFile
<1>9. ASSUME NEW password \in Strings, SetPassword(password)
     PROVE  NewestInv'
    BY <1>9 DEF SetPassword, WritePassword, WriteAtOnce, Unsaved
<1>10. CASE SetPasswordAgain
    BY <1>10 DEF SetPasswordAgain
<1>11. CASE AssignCached
    BY <1>11 DEF AssignCached
<1>12. CASE ReadCached
    BY <1>12 DEF ReadCached
<1>13. CASE LockKeyring
    BY <1>13 DEF LockKeyring
<1>14. CASE Quit
    BY <1>14 DEF Quit, EndProcess
<1>15. CASE Crash
    BY <1>15 DEF Crash, EndProcess
<1>16. CASE UNCHANGED vars
    BY <1>16 DEF vars
<1> QED
    BY <1>1, <1>2, <1>3, <1>4, <1>5, <1>6, <1>7, <1>8, <1>9,
       <1>10, <1>11, <1>12, <1>13, <1>14, <1>15, <1>16 DEF Next

LEMMA PasswordInvariant == Spec => []PasswordInv
<1>1. Init => PasswordInv
    BY InitLegacyInv DEF Init, PasswordInv, MigrationInv, NewestInv, Serving, Migrating
<1>2. PasswordInv /\ [Next]_vars => PasswordInv'
    BY NextLegacyInv, NextMigration, NextNewest DEF PasswordInv, LegacyInv
<1> QED
    BY <1>1, <1>2, PTL DEF Spec

\* The password in use is the one the user means (Settings::password), for every set
\* of passwords and any number of edits and ends of the process.
THEOREM NewestLoaded == Spec => []NewestIsLoaded
<1>1. PasswordInv => NewestIsLoaded
    BY DEF PasswordInv, NewestInv, NewestIsLoaded
<1> QED
    BY <1>1, PasswordInvariant, PTL

\* What a migration writes, with a prompt or without.
LEMMA MigrationWrites ==
    ASSUME TypeOK, [Next]_vars, item' # item, pc \in {"migrate", "migratePrompt"}
    PROVE  item' = IF pc = "migrate" THEN legacy ELSE target
<1>1. CASE Migrate
    BY <1>1 DEF Migrate, WritePassword, WriteAtOnce, store
<1>2. CASE AnswerPrompt
    BY <1>2 DEF AnswerPrompt, TypeOK, Prompting
<1>3. CASE Launch \/ ReadPassword \/ PromptReturns \/ FinishLoad \/ FinishMigration
    BY <1>3 DEF Launch, ReadPassword, PromptReturns, FinishLoad, FinishMigration, store
<1>4. CASE SyncSettings \/ SetPasswordAgain \/ AssignCached \/ ReadCached \/ LockKeyring
    BY <1>4 DEF SyncSettings, SetPasswordAgain, AssignCached, ReadCached, LockKeyring, store
<1>5. CASE (\E password \in Strings : SetPassword(password)) \/ Quit \/ Crash \/ UNCHANGED vars
    BY <1>5 DEF SetPassword, Quit, Crash, EndProcess, vars, store
<1> QED
    BY <1>1, <1>2, <1>3, <1>4, <1>5 DEF Next

\* No migration writes over another password (Settings::loadPassword).
THEOREM MigrationSafe == Spec => MigrationReplacesNothing
<1>1. ASSUME PasswordInv, [Next]_vars
      PROVE  [troubles \subseteq {"dismissal"} /\ item' # item /\ pc \in {"migrate", "migratePrompt"}
                  => item = NoPassword]_vars
  <2> SUFFICES ASSUME troubles \subseteq {"dismissal"}, item' # item,
                      pc \in {"migrate", "migratePrompt"}
               PROVE  item = NoPassword
      OBVIOUS
  <2>1. item \in {NoPassword, legacy} /\ (pc = "migratePrompt" => target = legacy)
      BY <1>1 DEF PasswordInv, MigrationInv, Migrating, Serving
  <2>2. item' = legacy
      BY <1>1, <2>1, MigrationWrites DEF PasswordInv, LegacyInv
  <2> QED
      BY <2>1, <2>2
<1> QED
    BY <1>1, PasswordInvariant, PTL DEF Spec, MigrationReplacesNothing

-----------------------------------------------------------------------------
(* The auto start.                                                         *)

Agrees == IF autoStartup THEN IsAutostartEnabled
                         ELSE entries \cap {"own", "pending"} = {}

AutostartTyped == /\ platform \in Platforms
                  /\ autoStartup \in BOOLEAN
                  /\ savedAutoStartup \in BOOLEAN
                  /\ entries \in EntrySets[platform]
                  /\ requests \in Seq(BOOLEAN)
                  /\ platform # "linux" => requests = <<>>
                  /\ started \in BOOLEAN
                  /\ disturbed \in BOOLEAN

\* Outside a process, and before main() has compared, nothing is asked of the entries.
BeforeStart == ~started /\ pc # "down" /\ ~disturbed => requests = <<>>

AfterStart == started /\ ~disturbed
                 => IF requests = <<>> THEN Agrees ELSE Last(requests) = autoStartup

AutostartInv == /\ AutostartTyped
                /\ started => pc # "down"
                /\ BeforeStart
                /\ AfterStart

-----------------------------------------------------------------------------
(* The queue of requests.                                                  *)

LEMMA RemoveTyped ==
    ASSUME NEW s \in Seq(BOOLEAN), NEW i \in DOMAIN s
    PROVE  RemoveAt(s, i) \in Seq(BOOLEAN)
  BY DEF RemoveAt

LEMMA OneOrMore == \A k \in Nat \ {0} : k = 1 \/ k > 1
  OBVIOUS

LEMMA RemoveHead ==
    ASSUME NEW s \in Seq(BOOLEAN), s # <<>>
    PROVE  IF Len(s) = 1 THEN RemoveAt(s, 1) = <<>>
                         ELSE RemoveAt(s, 1) # <<>> /\ Last(RemoveAt(s, 1)) = Last(s)
<1>0. Len(s) \in Nat \ {0}
  OBVIOUS
<1>1. SubSeq(s, 1, 1 - 1) = <<>>
  OBVIOUS
<1> DEFINE t == SubSeq(s, 2, Len(s))
<1>2. t \in Seq(BOOLEAN) /\ <<>> \o t = t
  OBVIOUS
<1>3. RemoveAt(s, 1) = t
  <2>1. RemoveAt(s, 1) = <<>> \o t
    BY <1>1 DEF RemoveAt
  <2> QED
    BY <1>2, <2>1
<1>4. Len(s) = 1 => t = <<>>
  OBVIOUS
<1>5. Len(s) > 1 => Len(t) = Len(s) - 1 /\ t[Len(s) - 1] = s[Len(s)]
  OBVIOUS
<1> HIDE DEF t
<1>6. CASE Len(s) = 1
  BY <1>3, <1>4, <1>6
<1>7. CASE Len(s) # 1
  <2>1. Len(s) > 1
    BY <1>0, <1>7, OneOrMore, Zenon
  <2>2. Len(t) = Len(s) - 1 /\ t[Len(s) - 1] = s[Len(s)]
    BY <1>5, <2>1
  <2>3. Len(t) # 0
    BY <1>0, <2>1, <2>2
  <2>4. t # <<>>
    BY <2>3
  <2>5. Last(t) = t[Len(t)] /\ Last(s) = s[Len(s)]
    BY DEF Last
  <2>6. Last(t) = Last(s)
    BY <2>2, <2>5
  <2> QED
    BY <1>3, <1>7, <2>4, <2>6
<1> QED
  BY <1>6, <1>7

LEMMA AppendLast ==
    ASSUME NEW s \in Seq(BOOLEAN), NEW x \in BOOLEAN
    PROVE  /\ Append(s, x) \in Seq(BOOLEAN)
           /\ Append(s, x) # <<>>
           /\ Last(Append(s, x)) = x
  BY DEF Last

-----------------------------------------------------------------------------
(* What the composed steps do.                                             *)

\* After a call that went through the system follows, at once or by a request.
LEMMA AutostartEffect ==
    ASSUME AutostartTyped, UNCHANGED platform, NEW wanted \in BOOLEAN, autoStartup' = wanted,
           Autostart(wanted)
    PROVE  /\ requests' \in Seq(BOOLEAN) /\ (platform # "linux" => requests' = <<>>)
           /\ entries' \in EntrySets[platform] /\ disturbed' \in BOOLEAN
           /\ ~disturbed' => /\ ~disturbed
                             /\ IF requests' = <<>> THEN Agrees'
                                                    ELSE Last(requests') = wanted
<1> USE DEF AutostartTyped
<1>1. CASE platform = "linux"
  <2>1. RequestBackground(wanted)
    BY <1>1 DEF Autostart
  <2> QED
    BY <1>1, <2>1, AppendLast DEF RequestBackground
<1>2. CASE platform = "windows"
  <2>1. SetRegistryValue(wanted)
    BY <1>2 DEF Autostart
  <2> QED
    BY <1>2, <2>1 DEF SetRegistryValue, EntrySets, Agrees, IsAutostartEnabled
<1>3. CASE platform = "macos"
  <2>1. RegisterAppService(wanted)
    BY <1>3 DEF Autostart
  <2> QED
    BY <1>3, <2>1 DEF RegisterAppService, EntrySets, Agrees, IsAutostartEnabled
<1> QED
  BY <1>1, <1>2, <1>3, SettingsAssumption

LEMMA PasswordEffect == ASSUME PasswordStep PROVE pc' = "down" <=> pc = "down"
<1>1. CASE ReadPassword
  BY <1>1 DEF ReadPassword, ReadAtOnce
<1>2. CASE AnswerPrompt \/ LockKeyring \/ ReadCached
  BY <1>2 DEF AnswerPrompt, LockKeyring, ReadCached
<1>3. CASE PromptReturns
  BY <1>3 DEF PromptReturns, Continue
<1>4. CASE FinishLoad \/ FinishMigration
  BY <1>4 DEF FinishLoad, FinishMigration
<1>5. CASE Migrate
  BY <1>5 DEF Migrate, WritePassword, WriteAtOnce
<1>6. ASSUME NEW password \in Strings, SetPassword(password) PROVE pc' = "down" <=> pc = "down"
  BY <1>6 DEF SetPassword, WritePassword, WriteAtOnce
<1>7. CASE SetPasswordAgain \/ AssignCached
  BY <1>7 DEF SetPasswordAgain, AssignCached
<1> QED
  BY <1>1, <1>2, <1>3, <1>4, <1>5, <1>6, <1>7 DEF PasswordStep

-----------------------------------------------------------------------------
LEMMA InitAutostart == SettingsInit => AutostartInv
<1> SUFFICES ASSUME SettingsInit PROVE AutostartInv
  OBVIOUS
<1>1. requests = <<>> /\ requests \in Seq(BOOLEAN) /\ started = FALSE /\ disturbed = FALSE
  BY DEF SettingsInit
<1>2. AutostartTyped
  BY <1>1 DEF SettingsInit, AutostartTyped
<1> QED
  BY <1>1, <1>2 DEF AutostartInv, BeforeStart, AfterStart

LEMMA NextAutostart ==
    ASSUME AutostartInv, [SettingsNext]_allVars
    PROVE  AutostartInv'
<1> USE DEF AutostartInv, AutostartTyped, BeforeStart, AfterStart
<1>1. CASE LaunchSettings
  BY <1>1 DEF LaunchSettings, Launch
<1>2. CASE CompareAutostart /\ UNCHANGED vars
  <2>1. /\ pc = "loop" /\ pc' = pc /\ ~started /\ started'
        /\ UNCHANGED <<platform, autoStartup, savedAutoStartup>>
    BY <1>2 DEF CompareAutostart, vars
  <2>2. CASE IsAutostartEnabled = autoStartup
    <3>1. Agrees
      <4>1. platform \in {"linux", "windows", "macos"}
        BY SettingsAssumption
      <4>2. CASE autoStartup
        BY <2>2, <4>2 DEF Agrees
      <4>3. CASE ~autoStartup
        <5>1. ~IsAutostartEnabled
          BY <2>2, <4>3
        <5>2. CASE platform = "linux"
          BY <4>3, <5>1, <5>2 DEF Agrees, IsAutostartEnabled
        <5>3. CASE platform = "windows"
          BY <4>3, <5>1, <5>3 DEF Agrees, IsAutostartEnabled, EntrySets
        <5>4. CASE platform = "macos"
          BY <4>3, <5>1, <5>4 DEF Agrees, IsAutostartEnabled
        <5> QED
          BY <4>1, <5>2, <5>3, <5>4
      <4> QED
        BY <4>2, <4>3
    <3>2. UNCHANGED <<entries, requests, disturbed>>
      BY <1>2, <2>2 DEF CompareAutostart
    <3>3. Agrees'
      BY <2>1, <3>1, <3>2 DEF Agrees, IsAutostartEnabled
    <3> QED
      BY <2>1, <3>2, <3>3
  <2>3. CASE IsAutostartEnabled # autoStartup
    <3>1. Autostart(autoStartup)
      BY <1>2, <2>3 DEF CompareAutostart
    <3> QED
      BY <2>1, <3>1, AutostartEffect
  <2> QED
    BY <2>2, <2>3
<1>3. CASE SetAutoStartup /\ UNCHANGED vars
  <2>1. /\ pc = "loop" /\ pc' = pc /\ started /\ autoStartup' = ~autoStartup
        /\ Autostart(autoStartup') /\ UNCHANGED <<platform, savedAutoStartup, started>>
    BY <1>3 DEF SetAutoStartup, vars
  <2> QED
    BY <2>1, AutostartEffect
<1>4. CASE SyncAllSettings
  <2>1. Agrees' <=> Agrees
    BY <1>4 DEF SyncAllSettings, Agrees, IsAutostartEnabled
  <2> QED
    BY <1>4, <2>1 DEF SyncAllSettings, WriteFile, vars
<1>5. CASE QuitSettings \/ CrashSettings
  BY <1>5 DEF QuitSettings, CrashSettings, Quit, Crash, EndProcess, EndSettings
<1>6. CASE PortalAnswers /\ UNCHANGED vars
  <2>1. PICK i \in DOMAIN requests :
          /\ \/ /\ entries' = IF requests[i] THEN entries \cup {"own"} ELSE entries \ {"own"}
                /\ disturbed' = (disturbed \/ i # 1)
             \/ disturbed' = TRUE /\ UNCHANGED entries
          /\ requests' = RemoveAt(requests, i)
          /\ UNCHANGED <<platform, autoStartup, savedAutoStartup, started>>
    BY <1>6 DEF PortalAnswers
  <2>2. platform = "linux" /\ requests # <<>> /\ pc' = pc
    BY <1>6, <2>1 DEF vars
  <2>3. entries' \in EntrySets[platform]
    BY <2>1, <2>2 DEF EntrySets
  <2>4. requests' \in Seq(BOOLEAN)
    BY <2>1, RemoveTyped
  <2>5. ASSUME ~disturbed', started
        PROVE  IF requests' = <<>> THEN Agrees' ELSE Last(requests') = autoStartup
    <3>1. /\ ~disturbed /\ i = 1 /\ requests' = RemoveAt(requests, 1)
          /\ Last(requests) = autoStartup
          /\ entries' = IF requests[1] THEN entries \cup {"own"} ELSE entries \ {"own"}
      BY <2>1, <2>2, <2>5
    <3>2. CASE Len(requests) = 1
      <4>1. requests[1] = autoStartup /\ requests' = <<>>
        <5>1. requests \in Seq(BOOLEAN) /\ requests # <<>>
          BY <2>2
        <5>2. RemoveAt(requests, 1) = <<>>
          BY <3>2, <5>1, RemoveHead
        <5> QED
          BY <3>1, <3>2, <5>2 DEF Last
      <4> QED
        BY <2>1, <2>2, <3>1, <4>1 DEF Agrees, IsAutostartEnabled, EntrySets
    <3>3. CASE Len(requests) # 1
      <4>1. requests \in Seq(BOOLEAN) /\ requests # <<>>
        BY <2>2
      <4> QED
        BY <3>1, <3>3, <4>1, RemoveHead
    <3> QED
      BY <3>2, <3>3
  <2> QED
    BY <2>1, <2>2, <2>3, <2>4, <2>5
<1>7. CASE ChangeEntries /\ UNCHANGED vars
  BY <1>7 DEF ChangeEntries, vars
<1>8. CASE PasswordStep /\ UNCHANGED autostartVars
  <2>1. Agrees' <=> Agrees
    BY <1>8 DEF autostartVars, Agrees, IsAutostartEnabled
  <2> QED
    BY <1>8, <2>1, PasswordEffect DEF autostartVars
<1>9. CASE UNCHANGED allVars
  <2>1. Agrees' <=> Agrees
    BY <1>9 DEF allVars, autostartVars, Agrees, IsAutostartEnabled
  <2> QED
    BY <1>9, <2>1 DEF allVars, autostartVars, vars
<1> QED
  BY <1>1, <1>2, <1>3, <1>4, <1>5, <1>6, <1>7, <1>8, <1>9 DEF SettingsNext

\* The system's entry follows the setting (Settings::setAutoStartup and main()), on
\* every platform and for any number of requests under way, unless a call failed or
\* somebody else interfered.
THEOREM AutostartFollows == SettingsSpec => []AutostartAgrees
<1>1. AutostartInv => AutostartAgrees
  BY DEF AutostartInv, AfterStart, AutostartAgrees, Agrees
<1> QED
  BY <1>1, InitAutostart, NextAutostart, PTL DEF SettingsSpec

-----------------------------------------------------------------------------
(* The two together.                                                       *)

\* With the auto start beside it, and the file written for both, the password still
\* takes no steps but those of Credentials.tla.
LEMMA PasswordSteps == [SettingsNext]_allVars => [Next]_vars
<1> SUFFICES ASSUME [SettingsNext]_allVars PROVE [Next]_vars
  OBVIOUS
<1>1. CASE SyncAllSettings
  <2>1. CASE Unsaved
    BY <1>1, <2>1 DEF SyncAllSettings, SyncSettings, Next
  <2>2. CASE ~Unsaved
    BY <1>1, <2>2 DEF SyncAllSettings
  <2> QED
    BY <2>1, <2>2
<1>2. CASE LaunchSettings \/ QuitSettings \/ CrashSettings
  BY <1>2 DEF LaunchSettings, QuitSettings, CrashSettings, Next
<1>3. CASE PasswordStep
  BY <1>3 DEF PasswordStep, Next
<1>4. CASE UNCHANGED vars \/ UNCHANGED allVars
  BY <1>4 DEF allVars
<1> QED
  BY <1>1, <1>2, <1>3, <1>4 DEF SettingsNext

LEMMA PasswordRefinement == SettingsSpec => Spec
<1>1. SettingsInit => Init
  BY DEF SettingsInit
<1> QED
  BY <1>1, PasswordSteps, PTL DEF SettingsSpec, Spec

\* The plaintext password is not lost in a program that also writes its auto start
\* to the same file (Settings::loadPassword).
THEOREM LegacySafeInSettings == SettingsSpec => []LegacyNeverLost
  BY PasswordRefinement, LegacySafe, PTL

\* Nor does that program use another password than the one the user means.
THEOREM NewestLoadedInSettings == SettingsSpec => []NewestIsLoaded
  BY PasswordRefinement, NewestLoaded, PTL

\* Nor does its migration write over one.
THEOREM MigrationSafeInSettings == SettingsSpec => MigrationReplacesNothing
  BY PasswordRefinement, MigrationSafe, PTL

\* What is saved, what is asked of the portal, and when main() has compared.
Compared == /\ Len(requests) <= MaxRequests
            /\ ~started /\ ~malformed => autoStartup = savedAutoStartup
            /\ started => pc \in Serving

LEMMA RemoveShortens ==
    ASSUME NEW s \in Seq(BOOLEAN), NEW i \in DOMAIN s
    PROVE  Len(RemoveAt(s, i)) = Len(s) - 1
<1>1. i \in 1..Len(s) /\ Len(s) \in Nat
  OBVIOUS
<1> DEFINE before == SubSeq(s, 1, i - 1)
           after == SubSeq(s, i + 1, Len(s))
<1>2. before \in Seq(BOOLEAN) /\ Len(before) = i - 1
  BY <1>1
<1>3. after \in Seq(BOOLEAN) /\ Len(after) = Len(s) - i
  BY <1>1
<1>4. RemoveAt(s, i) = before \o after
  BY DEF RemoveAt
<1> HIDE DEF before, after
<1>5. Len(before \o after) = Len(before) + Len(after)
  BY <1>2, <1>3, ConcatProperties
<1> QED
  BY <1>1, <1>2, <1>3, <1>4, <1>5

LEMMA AutostartAsks ==
    ASSUME NEW wanted \in BOOLEAN, platform \in Platforms, Autostart(wanted)
    PROVE  UNCHANGED requests \/ (requests' = Append(requests, wanted) /\ Len(requests) < MaxRequests)
<1>1. CASE platform = "linux"
  <2>1. RequestBackground(wanted)
    BY <1>1 DEF Autostart
  <2> QED
    BY <2>1 DEF RequestBackground
<1>2. CASE platform = "windows"
  <2>1. SetRegistryValue(wanted)
    BY <1>2 DEF Autostart
  <2> QED
    BY <2>1 DEF SetRegistryValue
<1>3. CASE platform = "macos"
  <2>1. RegisterAppService(wanted)
    BY <1>3 DEF Autostart
  <2> QED
    BY <2>1 DEF RegisterAppService
<1> QED
  BY <1>1, <1>2, <1>3, SettingsAssumption

\* Only the constructor, the event that writes the file and an end of the process
\* have to do with what a malformed file is.
LEMMA PasswordKeepsFile == ASSUME PasswordStep PROVE UNCHANGED malformed
<1> USE DEF settings, file
<1>1. CASE ReadPassword \/ FinishLoad \/ FinishMigration \/ Migrate
  BY <1>1 DEF ReadPassword, FinishLoad, FinishMigration, Migrate
<1>2. CASE AnswerPrompt \/ LockKeyring \/ ReadCached \/ PromptReturns
  BY <1>2 DEF AnswerPrompt, LockKeyring, ReadCached, PromptReturns
<1>3. ASSUME NEW password \in Strings, SetPassword(password) PROVE UNCHANGED malformed
  BY <1>3 DEF SetPassword
<1>4. CASE SetPasswordAgain \/ AssignCached
  BY <1>4 DEF SetPasswordAgain, AssignCached
<1> QED
  BY <1>1, <1>2, <1>3, <1>4 DEF PasswordStep

LEMMA PasswordServes == ASSUME PasswordStep, pc \in Serving PROVE pc' \in Serving
<1> USE DEF Serving
<1>1. CASE ReadPassword \/ FinishLoad \/ FinishMigration \/ Migrate
  BY <1>1 DEF ReadPassword, FinishLoad, FinishMigration, Migrate
<1>2. CASE AnswerPrompt \/ LockKeyring \/ ReadCached
  BY <1>2 DEF AnswerPrompt, LockKeyring, ReadCached
<1>3. CASE PromptReturns
  BY <1>3 DEF PromptReturns, Continue
<1>4. ASSUME NEW password \in Strings, SetPassword(password) PROVE pc' \in Serving
  BY <1>4 DEF SetPassword, WritePassword, WriteAtOnce
<1>5. CASE SetPasswordAgain \/ AssignCached
  BY <1>5 DEF SetPasswordAgain, AssignCached
<1> QED
  BY <1>1, <1>2, <1>3, <1>4, <1>5 DEF PasswordStep

LEMMA NextCompared == ASSUME AutostartInv, Compared, [SettingsNext]_allVars PROVE Compared'
<1> USE SettingsAssumption DEF AutostartInv, AutostartTyped, Compared
<1>1. CASE LaunchSettings
  BY <1>1 DEF LaunchSettings, Launch, Serving, file
<1>2. CASE (CompareAutostart \/ SetAutoStartup) /\ UNCHANGED vars
  <2>1. \/ UNCHANGED requests
        \/ \E wanted \in BOOLEAN : Autostart(wanted)
    BY <1>2 DEF CompareAutostart, SetAutoStartup
  <2>2. UNCHANGED requests \/ Len(requests') <= MaxRequests
    BY <2>1, AutostartAsks
  <2> QED
    BY <1>2, <2>2 DEF CompareAutostart, SetAutoStartup, vars, settings, file, Serving
<1>3. CASE SyncAllSettings
  BY <1>3 DEF SyncAllSettings, WriteFile, vars
<1>4. CASE QuitSettings \/ CrashSettings
  BY <1>4 DEF QuitSettings, CrashSettings, EndSettings
<1>5. CASE PortalAnswers /\ UNCHANGED vars
  BY <1>5, RemoveShortens DEF PortalAnswers, vars, settings, file
<1>6. CASE ChangeEntries /\ UNCHANGED vars
  BY <1>6 DEF ChangeEntries, vars, settings, file
<1>7. CASE PasswordStep /\ UNCHANGED autostartVars
  BY <1>7, PasswordKeepsFile, PasswordServes DEF autostartVars
<1>8. CASE UNCHANGED allVars
  BY <1>8 DEF allVars, autostartVars, vars, settings, file
<1> QED
  BY <1>1, <1>2, <1>3, <1>4, <1>5, <1>6, <1>7, <1>8 DEF SettingsNext

\* Every variable keeps its type, and a file that could be read holds the auto start
\* of the memory until main() has compared it with the system's.
THEOREM SettingsTypes == SettingsSpec => []SettingsTypeOK
<1> DEFINE Inv == TypeOK /\ AutostartInv /\ Compared
<1>1. SettingsInit => Inv
  <2> SUFFICES ASSUME SettingsInit PROVE Inv
    OBVIOUS
  <2>1. TypeOK
    BY InitLegacyInv DEF SettingsInit, LegacyInv
  <2>2. Compared
    BY SettingsAssumption DEF SettingsInit, Compared
  <2> QED
    BY <2>1, <2>2, InitAutostart
<1>2. Inv /\ [SettingsNext]_allVars => Inv'
  BY NextTyped, PasswordSteps, NextAutostart, NextCompared
<1>3. Inv => SettingsTypeOK
  BY DEF AutostartInv, AutostartTyped, Compared, Serving, SettingsTypeOK
<1> QED
  BY <1>1, <1>2, <1>3, PTL DEF SettingsSpec
=============================================================================
