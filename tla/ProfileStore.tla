----------------------------- MODULE ProfileStore -----------------------------
(***************************************************************************)
(* The profiles on disk and the AES key their secrets are encrypted with   *)
(* (ticonfmain.cpp, vpnprofile.cpp, vpnhelper.cpp), under the windows that *)
(* change them: the profile editor, the main window's copy and delete, the *)
(* question about a refused certificate, the settings.  The key is in      *)
(* main.conf, or in the keyring of the desktop, which may be locked at any *)
(* time.  Every call of the keyring runs a nested event loop: a save that  *)
(* waits for it is overtaken by whatever the user does meanwhile, even by  *)
(* the same save again.  A profile is one file; its password stands for    *)
(* the secrets in it.  Global profiles cannot be changed and are left out. *)
(***************************************************************************)
EXTENDS Integers, Sequences, FiniteSets

CONSTANTS
  Names,    \* names of profiles
  Secrets,  \* passwords
  Faults    \* of "lock" (the keyring can be locked), "crash" and "again" (Save
            \* is pressed again while the keyring is asked)

ASSUME StoreAssumption ==
  /\ "" \notin Names \union Secrets
  /\ Faults \subseteq {"lock", "crash", "again"}

VARIABLES
  file,     \* the file of a name: the name IN it and the password, or NoFile
  conf,     \* main.conf as the GUI sees it: password store used, key, IV
  disk,     \* main.conf on disk, which the VPN process reads
  ring,     \* key and IV in the keyring
  locked,   \* the keyring cannot be read or written
  editor,   \* the profile editor, or NoForm
  question, \* the question about a certificate, with the profile it loaded
  settings, \* the settings window, or NoWindow
  saves,    \* on_btnSave_clicked() of the settings waiting for the keyring,
            \* the inner one first
  saving,   \* saveVpnProfile() under way, or NoSave
  origin,   \* history: the key the user has had from the beginning
  want,     \* history: the password the user has stored for a name, or ""
  excuse,   \* history: why the password of a name may be gone, or ""
  moves     \* history: what went wrong while the settings moved the key

profileVars == <<file, editor, question, saving, want, excuse>>
keyVars     == <<conf, disk, ring, settings, saves, moves>>
vars == <<profileVars, keyVars, locked, origin>>

\* A half is the key or the IV; "none" is an empty string or no entry.
Halves == {"own", "default", "none"}
KeyPairs == [key: Halves, iv: Halves]
NoKey == [key |-> "none", iv |-> "none"]
Default == [key |-> "default", iv |-> "default"]
NoCipher == [plain |-> "", with |-> NoKey]
Ciphers == [plain: Secrets \union {""}, with: KeyPairs]
NoFile == [name |-> "", pass |-> NoCipher]
NoForm == [open |-> FALSE, of |-> "", pass |-> "", stripped |-> FALSE]
NoWindow == [open |-> FALSE, box |-> FALSE, text |-> NoKey, enabled |-> FALSE]
NoSave == [stage |-> "none", to |-> "", of |-> "", pass |-> "", stripped |-> FALSE,
           by |-> "none", with |-> NoKey]

Names0   == Names \union {""}
Secrets0 == Secrets \union {""}
Confs == [store: BOOLEAN, keys: KeyPairs]
Forms == [open: BOOLEAN, of: Names0, pass: Secrets0, stripped: BOOLEAN]

Usable(keys) == keys.key # "none" /\ keys.iv # "none"

\* What is about to be written is encrypted with a key that can be used.
StoreTypeOK ==
  /\ file \in [Names -> [name: Names0, pass: Ciphers]]
  /\ conf \in Confs
  /\ disk \in Confs
  /\ ring \in KeyPairs
  /\ locked \in BOOLEAN
  /\ editor \in Forms
  /\ question \in Forms
  /\ settings \in [open: BOOLEAN, box: BOOLEAN, text: KeyPairs, enabled: BOOLEAN]
  /\ saves \in Seq([at: {"writekey", "writeiv", "deletekey", "deleteiv"}, arg: Halves])
  /\ saving \in [stage: {"none", "keys", "write"}, to: Names0, of: Names0,
                 pass: Secrets0, stripped: BOOLEAN,
                 by: {"none", "editor", "copy", "question"}, with: KeyPairs]
  /\ saving.stage = "write" => Usable(saving.with)
  /\ origin \in KeyPairs
  /\ want \in [Names -> Secrets0]
  /\ excuse \in [Names -> {"", "stripped", "torn", "copied", "renamed"}]
  /\ moves \subseteq {"lock", "crash", "again"}

-----------------------------------------------------------------------------
(* Keys and secrets.                                                       *)

Available(c) == IF c.store THEN ~locked /\ Usable(ring) ELSE Usable(c.keys)

\* mainAesKeyIv(), for a caller that has asked whether they are available.
KeysOf(c) == IF c.store THEN ring ELSE c.keys

Encrypt(plain, keys) ==
  IF plain = "" THEN NoCipher ELSE [plain |-> plain, with |-> keys]

\* A wrong key is noticed by the padding, and gives an empty string.
Decrypt(cipher, keys) == IF cipher.with = keys THEN cipher.plain ELSE ""

\* readSecret(): the file is found by the name of the profile.
ReadSecret(n, c) ==
  IF Available(c) THEN Decrypt(file[n].pass, KeysOf(c)) ELSE ""

\* The names of the list, which come from inside the files.
Listed == {file[f].name : f \in Names} \ {""}

StoreInit ==
  \E stored \in [Names -> Secrets0] :
  \E present \in SUBSET Names :
    /\ \A n \in Names : n \notin present => stored[n] = ""
    /\ origin = [key |-> "own", iv |-> "own"]
    /\ file = [n \in Names |-> IF n \in present
                               THEN [name |-> n, pass |-> Encrypt(stored[n], origin)]
                               ELSE NoFile]
    /\ \/ conf = [store |-> FALSE, keys |-> origin] /\ ring = NoKey
       \/ conf = [store |-> TRUE, keys |-> NoKey] /\ ring = origin
    /\ disk = conf
    /\ locked = FALSE
    /\ editor = NoForm
    /\ question = NoForm
    /\ settings = NoWindow
    /\ saves = <<>>
    /\ saving = NoSave
    /\ want = stored
    /\ excuse = [n \in Names |-> ""]
    /\ moves = {}

-----------------------------------------------------------------------------
(* Profiles.                                                               *)

\* The event loop is free for the user: no question is open (it is modal for
\* the whole program) and no profile is being saved.
Idle == saving = NoSave /\ ~question.open

\* Editor and settings are modal for the main window only; the settings can
\* still be opened from the tray icon.
MainWindowFree == Idle /\ ~editor.open /\ ~settings.open

\* loadVpnProfile() of the editor.
EditVPN(n) ==
  /\ MainWindowFree
  /\ n \in Listed
  /\ LET pass == ReadSecret(n, conf) IN
     editor' = [open |-> TRUE, of |-> n, pass |-> pass,
                stripped |-> pass = "" /\ want[n] # ""]
  /\ UNCHANGED <<file, question, saving, want, excuse, keyVars, locked, origin>>

AddVPN ==
  /\ MainWindowFree
  /\ editor' = [NoForm EXCEPT !.open = TRUE]
  /\ UNCHANGED <<file, question, saving, want, excuse, keyVars, locked, origin>>

\* The user enters a password.
TypePassword(s) ==
  /\ Idle
  /\ editor.open
  /\ editor' = [editor EXCEPT !.pass = s, !.stripped = FALSE]
  /\ UNCHANGED <<file, question, saving, want, excuse, keyVars, locked, origin>>

CancelEditor ==
  /\ Idle
  /\ editor.open
  /\ editor' = NoForm
  /\ UNCHANGED <<file, question, saving, want, excuse, keyVars, locked, origin>>

Begin(to, of, pass, stripped, by) ==
  saving' = [stage |-> "keys", to |-> to, of |-> of, pass |-> pass,
             stripped |-> stripped, by |-> by, with |-> NoKey]

\* QFile::rename() refuses to overwrite.
Renamed(old, new) ==
  IF old # "" /\ old # new /\ file[old] # NoFile /\ file[new] = NoFile
  THEN [file EXCEPT ![new] = file[old], ![old] = NoFile]
  ELSE file

\* on_btnSave_clicked() of the editor up to saveVpnProfile(): the file of a
\* changed name is renamed, and nobody looks whether that worked.
SaveEditor(n) ==
  /\ Idle
  /\ editor.open
  /\ file' = Renamed(editor.of, n)
  /\ Begin(n, editor.of, editor.pass, editor.stripped, "editor")
  /\ UNCHANGED <<editor, question, want, excuse, keyVars, locked, origin>>

\* copyVpnProfile(): the profile is loaded without its secrets.
CopyVPN(n, cp) ==
  /\ MainWindowFree
  /\ n \in Listed
  /\ Begin(cp, n, "", FALSE, "copy")
  /\ UNCHANGED <<file, editor, question, want, excuse, keyVars, locked, origin>>

\* removeVpnProfileByName().
DeleteVPN(n) ==
  /\ MainWindowFree
  /\ n \in Listed
  /\ file[n] # NoFile
  /\ file' = [file EXCEPT ![n] = NoFile]
  /\ want' = [want EXCEPT ![n] = ""]
  /\ excuse' = [excuse EXCEPT ![n] = IF @ = "renamed" THEN @ ELSE ""]
  /\ UNCHANGED <<editor, question, saving, keyVars, locked, origin>>

\* onClientCertValidationFAiled() loads the profile with its secrets and asks.
AskAboutCertificate(n) ==
  /\ Idle
  /\ \E f \in Names :
       /\ file[f].name = n
       /\ LET pass == IF Available(conf) THEN Decrypt(file[f].pass, KeysOf(conf)) ELSE "" IN
          question' = [open |-> TRUE, of |-> n, pass |-> pass,
                       stripped |-> pass = "" /\ want[n] # ""]
  /\ UNCHANGED <<file, editor, saving, want, excuse, keyVars, locked, origin>>

AnswerNo ==
  /\ question.open
  /\ saving = NoSave
  /\ question' = NoForm
  /\ UNCHANGED <<file, editor, saving, want, excuse, keyVars, locked, origin>>

AnswerYes ==
  /\ question.open
  /\ saving = NoSave
  /\ Begin(question.of, question.of, question.pass, question.stripped, "question")
  /\ question' = NoForm
  /\ UNCHANGED <<file, editor, want, excuse, keyVars, locked, origin>>

\* The profile whose file has a new name and the old contents.
HalfRenamed == {file[saving.to].name} \ {"", saving.to}

\* Once a name has been in two files, it may stay so.
Mark(names, reason) ==
  [n \in Names |-> IF n \in names /\ excuse[n] # "renamed" THEN reason ELSE excuse[n]]

\* Mutant: the keys are asked for when the file is gone already.
FetchKeysLate ==
  /\ saving.stage = "keys"
  /\ file' = [file EXCEPT ![saving.to] = NoFile]
  /\ saving' = IF Available(conf)
               THEN [saving EXCEPT !.stage = "write", !.with = KeysOf(conf)] ELSE NoSave
  /\ excuse' = Mark(HalfRenamed, "renamed")
  /\ UNCHANGED <<editor, question, want, keyVars, locked, origin>>

\* Mutant: the keys are taken without asking whether they are available.
FetchKeysUnchecked ==
  /\ saving.stage = "keys"
  /\ saving' = [saving EXCEPT !.stage = "write", !.with = KeysOf(conf)]
  /\ file' = [file EXCEPT ![saving.to] = NoFile]
  /\ UNCHANGED <<excuse, editor, question, want, keyVars, locked, origin>>

\* saveVpnProfile() asks for the keys before it removes the file.  Without
\* them it returns false: the editor stays open.
FetchKeys ==
  /\ saving.stage = "keys"
  /\ IF Available(conf)
     THEN /\ saving' = [saving EXCEPT !.stage = "write", !.with = KeysOf(conf)]
          /\ file' = [file EXCEPT ![saving.to] = NoFile]
          /\ UNCHANGED excuse
     ELSE /\ saving' = NoSave
          /\ excuse' = Mark(HalfRenamed, "renamed")
          /\ UNCHANGED file
  /\ UNCHANGED <<editor, question, want, keyVars, locked, origin>>

\* The profile has left its old name, under which no file is left.
Moved == /\ saving.by = "editor"
         /\ saving.of \notin {"", saving.to}
         /\ file[saving.of] = NoFile

\* What the user has stored under the names now: a form that was loaded
\* without its password, and a copy onto itself, were not meant to change it.
Meant ==
  LET n == saving.to
      kept == saving.stripped \/ (saving.by = "copy" /\ saving.of = n)
  IN [m \in Names |->
        CASE m = n -> IF kept THEN want[saving.of] ELSE saving.pass
          [] m # n /\ Moved /\ m = saving.of -> ""
          [] OTHER -> want[m]]

Excuses ==
  [n \in Names |->
     CASE excuse[n] = "renamed" -> "renamed"
       [] excuse[n] # "renamed" /\ n = saving.to ->
            IF saving.stripped THEN "stripped"
            ELSE IF saving.by = "copy" /\ saving.of = n THEN "copied" ELSE ""
       [] excuse[n] # "renamed" /\ n # saving.to /\ Moved /\ n = saving.of -> ""
       [] OTHER -> excuse[n]]

\* Mutant: the contents keep the name the profile was loaded with.
WriteFileOldName ==
  /\ saving.stage = "write"
  /\ file' = [file EXCEPT ![saving.to] =
       [name |-> IF saving.of = "" THEN saving.to ELSE saving.of,
        pass |-> Encrypt(saving.pass, saving.with)]]
  /\ want' = Meant
  /\ excuse' = Excuses
  /\ saving' = NoSave
  /\ editor' = IF saving.by = "editor" THEN NoForm ELSE editor
  /\ UNCHANGED <<question, keyVars, locked, origin>>

\* The rest of saveVpnProfile(): the new file is written and renamed at once.
WriteFile ==
  /\ saving.stage = "write"
  /\ file' = [file EXCEPT ![saving.to] =
       [name |-> saving.to, pass |-> Encrypt(saving.pass, saving.with)]]
  /\ want' = Meant
  /\ excuse' = Excuses
  /\ saving' = NoSave
  /\ editor' = IF saving.by = "editor" THEN NoForm ELSE editor
  /\ UNCHANGED <<question, keyVars, locked, origin>>

-----------------------------------------------------------------------------
(* The settings.  The user does not edit the key itself.                   *)

\* The constructor of vpnSetting: a keyring that cannot be read locks the fields.
OpenSettings ==
  /\ Idle
  /\ ~settings.open
  /\ saves = <<>>
  /\ LET readable == ~locked /\ Usable(ring) IN
     settings' = [open |-> TRUE, box |-> conf.store,
                  text |-> IF ~conf.store THEN conf.keys ELSE IF readable THEN ring ELSE NoKey,
                  enabled |-> conf.store => readable]
  /\ UNCHANGED <<profileVars, conf, disk, ring, saves, moves, locked, origin>>

\* The box; it can only be set if a test entry can be written to the keyring.
ToggleStore ==
  /\ Idle
  /\ settings.open
  /\ settings.enabled
  /\ settings.box \/ ~locked
  /\ settings' = [settings EXCEPT !.box = ~@]
  /\ UNCHANGED <<profileVars, conf, disk, ring, saves, moves, locked, origin>>

CancelSettings ==
  /\ Idle
  /\ settings.open
  /\ saves = <<>>
  /\ settings' = NoWindow
  /\ UNCHANGED <<profileVars, conf, disk, ring, saves, moves, locked, origin>>

\* The last part of the save: main/aeskey and main/aesiv, sync(), close().
Conclude(text) ==
  /\ conf' = [conf EXCEPT !.keys = text]
  /\ disk' = conf'
  /\ settings' = [settings EXCEPT !.open = FALSE, !.text = text]

Waiting(at, arg) == [at |-> at, arg |-> arg]

\* Mutant: the fields are written whether or not they are enabled.
SaveSettingsAlways ==
  /\ Idle
  /\ settings.open
  /\ saves # <<>> => "again" \in Faults /\ Len(saves) = 1
  /\ moves' = IF saves # <<>> THEN moves \union {"again"} ELSE moves
  /\ conf' = [conf EXCEPT !.store = settings.box]
  /\ saves' = <<IF settings.box THEN Waiting("writekey", settings.text.key)
                ELSE Waiting("deletekey", "none")>> \o saves
  /\ UNCHANGED <<profileVars, disk, ring, settings, locked, origin>>

\* on_btnSave_clicked() up to its first call of the keyring, if it has one.
SaveSettings ==
  /\ Idle
  /\ settings.open
  /\ saves # <<>> => "again" \in Faults /\ Len(saves) = 1
  /\ moves' = IF saves # <<>> THEN moves \union {"again"} ELSE moves
  /\ IF settings.box /\ ~settings.enabled
     THEN /\ conf' = [store |-> TRUE, keys |-> NoKey]
          /\ disk' = conf'
          /\ settings' = [settings EXCEPT !.open = FALSE, !.text = NoKey]
          /\ UNCHANGED saves
     ELSE /\ conf' = [conf EXCEPT !.store = settings.box]
          /\ saves' = <<IF settings.box THEN Waiting("writekey", settings.text.key)
                        ELSE Waiting("deletekey", "none")>> \o saves
          /\ UNCHANGED <<disk, settings>>
  /\ UNCHANGED <<profileVars, ring, locked, origin>>

\* The keyring answers the innermost save.  Whether it did anything is not
\* looked at.  The text of the second field is taken when its turn comes.
KeyringAnswers ==
  /\ saves # <<>>
  /\ saving = NoSave
  /\ LET top == Head(saves)
         write == top.at \in {"writekey", "writeiv"}
     IN
     /\ moves' = IF locked /\ write THEN moves \union {"lock"} ELSE moves
     /\ ring' = IF locked THEN ring
                ELSE IF top.at \in {"writekey", "deletekey"}
                     THEN [ring EXCEPT !.key = top.arg] ELSE [ring EXCEPT !.iv = top.arg]
     /\ CASE top.at = "writekey" ->
               /\ saves' = <<Waiting("writeiv", settings.text.iv)>> \o Tail(saves)
               /\ UNCHANGED <<conf, disk, settings>>
          [] top.at = "deletekey" ->
               /\ saves' = <<Waiting("deleteiv", "none")>> \o Tail(saves)
               /\ UNCHANGED <<conf, disk, settings>>
          [] top.at = "writeiv" -> saves' = Tail(saves) /\ Conclude(NoKey)
          [] top.at = "deleteiv" -> saves' = Tail(saves) /\ Conclude(settings.text)
  /\ UNCHANGED <<profileVars, locked, origin>>

\* An event loop, the nested ones too, writes what setValue() left in memory.
FlushConf ==
  /\ saving.stage # "write"
  /\ disk # conf
  /\ disk' = conf
  /\ UNCHANGED <<profileVars, conf, ring, settings, saves, moves, locked, origin>>

-----------------------------------------------------------------------------
(* The keyring and the end of the program.                                 *)

LockKeyring ==
  /\ "lock" \in Faults
  /\ locked' = ~locked
  /\ UNCHANGED <<profileVars, keyVars, origin>>

\* migrateMainConf() at the next start.
Migrated(c) == IF ~c.store /\ ~Usable(c.keys) THEN [c EXCEPT !.keys = Default] ELSE c

\* The program ends, with what is on disk, and is started again.
Restart(c) ==
  /\ conf' = Migrated(c)
  /\ disk' = Migrated(c)
  /\ editor' = NoForm
  /\ question' = NoForm
  /\ settings' = NoWindow
  /\ saves' = <<>>
  /\ saving' = NoSave
  /\ UNCHANGED <<file, ring, want, locked, origin>>

Quit ==
  /\ MainWindowFree
  /\ saves = <<>>
  /\ Restart(conf)
  /\ UNCHANGED <<excuse, moves>>

Crash ==
  /\ "crash" \in Faults
  /\ Restart(disk)
  /\ moves' = IF saves # <<>> THEN moves \union {"crash"} ELSE moves
  /\ excuse' = CASE saving.stage = "none" -> excuse
                [] saving.stage = "keys" -> Mark(HalfRenamed, "renamed")
                [] saving.stage = "write" ->
                     Mark({saving.to} \union (IF Moved THEN {saving.of} ELSE {}), "torn")

Next ==
  \/ \E n \in Names : \/ EditVPN(n) \/ SaveEditor(n) \/ DeleteVPN(n)
                      \/ AskAboutCertificate(n)
                      \/ \E cp \in Names : CopyVPN(n, cp)
  \/ AddVPN \/ CancelEditor
  \/ \E s \in Secrets : TypePassword(s)
  \/ AnswerNo \/ AnswerYes
  \/ FetchKeys \/ WriteFile
  \/ OpenSettings \/ ToggleStore \/ CancelSettings \/ SaveSettings
  \/ KeyringAnswers \/ FlushConf
  \/ LockKeyring \/ Quit \/ Crash

Spec == StoreInit /\ [][Next]_vars

-----------------------------------------------------------------------------
(* Properties.                                                             *)

\* Whenever the key can be had, a VPN finds the password that was stored for
\* it, whatever else was edited, renamed, copied, moved or refused, unless
\* that profile was saved from a form loaded while the keyring was locked, was
\* copied onto itself, or was left half saved or half renamed, or the key
\* itself was lost on the way between main.conf and keyring.
SecretsKept ==
  \A n \in Names :
    /\ want[n] # "" /\ excuse[n] = ""
    /\ moves = {} /\ Available(conf)
    /\ n \notin {saving.to, saving.of}
    => ReadSecret(n, conf) = want[n]

\* Moving the key does not lose it, nor replace it by the default: as soon as
\* the settings are saved GUI and VPN processes find the same key again, unless
\* the keyring refused it, the program died or Save was pressed again meanwhile.
KeyKept ==
  moves = {} /\ saves = <<>> =>
    \A c \in {conf, disk} : KeysOf(c) = origin

\* A profile is found under its name: its file is called what it says inside,
\* unless a save was refused or died after it had renamed the file.
NamesAgree ==
  \A n \in Names :
    \/ file[n] = NoFile
    \/ file[n].name = n
    \/ excuse[file[n].name] = "renamed"
    \/ saving.stage = "keys" /\ saving.to = n

\* A locked keyring costs no stored password, readable or not, in the profiles
\* that were not copied onto themselves or left half renamed.
LockedKeyringKeepsSecrets ==
  \A n \in Names :
    /\ want[n] # "" /\ excuse[n] \notin {"copied", "renamed"}
    /\ n \notin {saving.to, saving.of}
    => file[n].pass # NoCipher
=============================================================================
