------------------------- MODULE ProfileStoreProofs -------------------------
(***************************************************************************)
(* Proofs about ProfileStore for any profiles, passwords and faults: the   *)
(* settings do not lose the key (KeyKept), a profile is found under its    *)
(* name (NamesAgree), and whenever the key can be had every VPN finds the  *)
(* password that was stored for it (SecretsKept).                          *)
(***************************************************************************)
EXTENDS ProfileStore, SequenceTheorems, TLAPS

-----------------------------------------------------------------------------
(* The inductive invariant.                                                *)

\* What a form, a question, a save and a file say belongs to a name.
FormInv ==
  /\ \A n \in Names : file[n] # NoFile => file[n].name \in Names
  /\ editor.stripped => editor.of \in Names
  /\ question.open \/ question.stripped => question.of \in Names
  /\ saving.stage = "none" => saving = NoSave
  /\ saving.stage # "none" => saving.to \in Names
  /\ saving.stripped \/ saving.by = "copy" => saving.of \in Names

\* Every copy of a half of the key is the user's half or is none.
OwnHalves(keys) == keys.key \in {"own", "none"} /\ keys.iv \in {"own", "none"}

\* One save of the settings: the key it carries is the user's, and it has
\* chosen a side; the half that was written is in the keyring.
SaveInv ==
  saves # <<>> =>
    /\ Len(saves) = 1
    /\ settings.open /\ settings.enabled /\ settings.text = origin
    /\ conf.store <=> saves[1].at \in {"writekey", "writeiv"}
    /\ saves[1].at \in {"writekey", "writeiv"} => saves[1].arg = "own"
    /\ saves[1].at \in {"deletekey", "deleteiv"} => saves[1].arg = "none"
    /\ saves[1].at = "writeiv" => ring.key = "own"

\* The key is where main.conf says, and so it is on disk; the settings show it
\* or cannot change anything.
KeyInv ==
  /\ origin = [key |-> "own", iv |-> "own"]
  /\ moves = {} =>
       /\ OwnHalves(ring) /\ OwnHalves(conf.keys) /\ OwnHalves(disk.keys)
       /\ saves = <<>> => KeysOf(conf) = origin /\ KeysOf(disk) = origin
       /\ settings.open =>
            \/ settings.enabled /\ settings.text = origin
            \/ ~settings.enabled /\ settings.box /\ conf.store /\ settings.text = NoKey
       /\ SaveInv

\* The file of a name is called so inside and holds the user's password,
\* encrypted with the user's key.
Good(n) == file[n] = [name |-> n, pass |-> Encrypt(want[n], origin)]

\* A password that nothing excuses is in a good file, unless its profile is
\* just being written, or has been renamed by the save that is under way.
SecretInv ==
  moves = {} =>
    /\ saving.stage = "write" => saving.with = origin
    /\ \A n \in Names : want[n] # "" /\ excuse[n] = "" =>
         \/ Good(n)
         \/ saving.stage = "write" /\ n = saving.to
         \/ /\ saving.by = "editor" /\ n = saving.of /\ n # saving.to
            /\ file[n] = NoFile
            /\ saving.stage = "keys" => file[saving.to].name = n

StoreInv ==
  /\ StoreTypeOK
  /\ FormInv
  /\ KeyInv
  /\ NamesAgree
  /\ SecretInv

-----------------------------------------------------------------------------
(* Who changes what.                                                       *)

\* The actions of the settings, and the writing of main.conf.
KeyAction == \/ OpenSettings \/ ToggleStore \/ CancelSettings \/ SaveSettings
             \/ KeyringAnswers \/ FlushConf

\* The actions of the profiles, up to the ones that save.
ProfileAction(n) ==
  \/ EditVPN(n) \/ SaveEditor(n) \/ DeleteVPN(n) \/ AskAboutCertificate(n)
  \/ \E cp \in Names : CopyVPN(n, cp)

FormAction == \/ AddVPN \/ CancelEditor \/ AnswerNo \/ AnswerYes
              \/ \E s \in Secrets : TypePassword(s)

LEMMA Steps ==
  ASSUME [Next]_vars
  PROVE  \/ \E n \in Names : ProfileAction(n)
         \/ FormAction \/ FetchKeys \/ WriteFile
         \/ KeyAction \/ LockKeyring \/ Quit \/ Crash
         \/ UNCHANGED vars
BY DEF Next, ProfileAction, FormAction, KeyAction

\* The settings leave the profiles alone, the profiles the key; what went
\* wrong stays so.
LEMMA Frames ==
  ASSUME [Next]_vars
  PROVE  /\ origin' = origin /\ moves \subseteq moves'
         /\ KeyAction => UNCHANGED <<profileVars, locked>>
         /\ (\E n \in Names : ProfileAction(n)) \/ FormAction \/ FetchKeys \/ WriteFile =>
              UNCHANGED <<keyVars, locked>>
         /\ LockKeyring => UNCHANGED <<profileVars, keyVars>>
<1>1. ASSUME KeyAction
      PROVE  UNCHANGED <<profileVars, locked, origin>> /\ moves \subseteq moves'
  <2>1. CASE OpenSettings \/ ToggleStore \/ CancelSettings \/ FlushConf
    BY <2>1 DEF OpenSettings, ToggleStore, CancelSettings, FlushConf
  <2>2. CASE SaveSettings
    BY <2>2 DEF SaveSettings
  <2>3. CASE KeyringAnswers
    BY <2>3 DEF KeyringAnswers
  <2> QED
    BY <1>1, <2>1, <2>2, <2>3 DEF KeyAction
<1>2. ASSUME NEW n \in Names, ProfileAction(n)
      PROVE  UNCHANGED <<keyVars, locked, origin>>
  BY <1>2 DEF ProfileAction, EditVPN, SaveEditor, DeleteVPN, AskAboutCertificate, CopyVPN
<1>3. ASSUME FormAction \/ FetchKeys \/ WriteFile
      PROVE  UNCHANGED <<keyVars, locked, origin>>
  BY <1>3 DEF FormAction, AddVPN, CancelEditor, AnswerNo, AnswerYes, TypePassword,
              FetchKeys, WriteFile
<1>4. ASSUME LockKeyring PROVE UNCHANGED <<profileVars, keyVars, origin>>
  BY <1>4 DEF LockKeyring
<1>5. ASSUME Quit \/ Crash PROVE origin' = origin /\ moves \subseteq moves'
  BY <1>5 DEF Quit, Crash, Restart
<1>6. ASSUME UNCHANGED vars PROVE origin' = origin /\ moves \subseteq moves'
  BY <1>6 DEF vars, keyVars
<1>7. keyVars' = keyVars => moves' = moves
  BY DEF keyVars
<1> QED
  BY Steps, <1>1, <1>2, <1>3, <1>4, <1>5, <1>6, <1>7

-----------------------------------------------------------------------------
(* The types.                                                              *)

LEMMA TypeFacts ==
  ASSUME StoreTypeOK
  PROVE  /\ file \in [Names -> [name: Names0, pass: Ciphers]]
         /\ conf \in Confs /\ disk \in Confs /\ ring \in KeyPairs
         /\ editor \in Forms /\ question \in Forms
         /\ want \in [Names -> Secrets0]
         /\ excuse \in [Names -> {"", "stripped", "torn", "copied", "renamed"}]
BY DEF StoreTypeOK

\* What is read, written and meant is of the right type.
LEMMA DataTypes ==
  ASSUME StoreTypeOK
  PROVE  /\ \A c \in Confs : KeysOf(c) \in KeyPairs
         /\ \A c \in Confs : Available(c) => Usable(KeysOf(c))
         /\ \A p \in Secrets0, k \in KeyPairs : Encrypt(p, k) \in Ciphers
         /\ \A c \in Ciphers, k \in KeyPairs : Decrypt(c, k) \in Secrets0
         /\ NoFile \in [name: Names0, pass: Ciphers]
         /\ NoForm \in Forms /\ NoKey \in KeyPairs /\ Default \in KeyPairs
         /\ NoKey.key \in Halves
<1>1. NoKey \in KeyPairs /\ Default \in KeyPairs /\ NoKey.key \in Halves
  BY DEF NoKey, Default, KeyPairs, Halves
<1>2. NoCipher \in Ciphers
  BY <1>1 DEF NoCipher, Ciphers
<1>3. NoFile \in [name: Names0, pass: Ciphers] /\ NoForm \in Forms
  BY <1>2 DEF NoFile, NoForm, Names0, Secrets0, Forms
<1>4. \A c \in Confs : KeysOf(c) \in KeyPairs /\ (Available(c) => Usable(KeysOf(c)))
  BY TypeFacts DEF Confs, KeysOf, Available
<1>5. \A p \in Secrets0, k \in KeyPairs : Encrypt(p, k) \in Ciphers
  BY <1>2 DEF Encrypt, Ciphers, Secrets0
<1>6. \A c \in Ciphers, k \in KeyPairs : Decrypt(c, k) \in Secrets0
  BY DEF Decrypt, Ciphers, Secrets0
<1> QED
  BY <1>1, <1>3, <1>4, <1>5, <1>6

\* The types of the settings window, of its saves and of a save of a profile.
Windows == [open: BOOLEAN, box: BOOLEAN, text: KeyPairs, enabled: BOOLEAN]
Waits == [at: {"writekey", "writeiv", "deletekey", "deleteiv"}, arg: Halves]
SaveTypes == [stage: {"none", "keys", "write"}, to: Names0, of: Names0,
              pass: Secrets0, stripped: BOOLEAN,
              by: {"none", "editor", "copy", "question"}, with: KeyPairs]
Reasons == {"", "stripped", "torn", "copied", "renamed"}

\* The types of what the settings and main.conf hold, and of the profiles.
KeyTypes ==
  /\ conf \in Confs /\ disk \in Confs /\ ring \in KeyPairs
  /\ settings \in Windows /\ saves \in Seq(Waits)
  /\ moves \subseteq {"lock", "crash", "again"}

ProfileTypes ==
  /\ file \in [Names -> [name: Names0, pass: Ciphers]]
  /\ editor \in Forms /\ question \in Forms
  /\ saving \in SaveTypes /\ (saving.stage = "write" => Usable(saving.with))
  /\ want \in [Names -> Secrets0] /\ excuse \in [Names -> Reasons]

LEMMA TypeParts ==
  StoreTypeOK <=> KeyTypes /\ ProfileTypes /\ locked \in BOOLEAN /\ origin \in KeyPairs
BY DEF StoreTypeOK, KeyTypes, ProfileTypes, Windows, Waits, SaveTypes, Reasons

LEMMA KeyActionTypes ==
  ASSUME StoreTypeOK, KeyAction
  PROVE  KeyTypes'
<1>0. /\ KeyTypes /\ conf \in Confs /\ disk \in Confs /\ ring \in KeyPairs
      /\ settings \in Windows /\ saves \in Seq(Waits)
      /\ moves \subseteq {"lock", "crash", "again"}
      /\ NoKey \in KeyPairs /\ NoKey.key \in Halves
  BY TypeParts, DataTypes DEF KeyTypes
<1>1. CASE OpenSettings
  <2>1. settings' \in Windows
    BY <1>0, <1>1 DEF OpenSettings, Windows, Confs
  <2> QED
    BY <1>0, <1>1, <2>1 DEF OpenSettings, KeyTypes
<1>2. CASE ToggleStore
  BY <1>0, <1>2 DEF ToggleStore, KeyTypes, Windows
<1>3. CASE CancelSettings
  <2>1. NoWindow \in Windows
    BY <1>0 DEF NoWindow, Windows
  <2> QED
    BY <1>0, <1>3, <2>1 DEF CancelSettings, KeyTypes
<1>4. CASE SaveSettings
  <2>1. moves' \subseteq {"lock", "crash", "again"} /\ ring' = ring
    BY <1>0, <1>4 DEF SaveSettings
  <2>2. CASE settings.box /\ ~settings.enabled
    <3>1. /\ conf' = [store |-> TRUE, keys |-> NoKey] /\ disk' = conf'
          /\ settings' = [settings EXCEPT !.open = FALSE, !.text = NoKey] /\ saves' = saves
      BY <1>4, <2>2 DEF SaveSettings
    <3>2. conf' \in Confs /\ disk' \in Confs /\ settings' \in Windows
      BY <1>0, <3>1 DEF Confs, Windows
    <3> QED
      BY <1>0, <2>1, <3>1, <3>2 DEF KeyTypes
  <2>3. CASE ~(settings.box /\ ~settings.enabled)
    <3> DEFINE w == IF settings.box THEN Waiting("writekey", settings.text.key)
                    ELSE Waiting("deletekey", "none")
    <3>1. /\ conf' = [conf EXCEPT !.store = settings.box]
          /\ saves' = <<w>> \o saves
          /\ UNCHANGED <<disk, settings>>
      BY <1>4, <2>3 DEF SaveSettings
    <3>2. w \in Waits
      BY <1>0 DEF Waits, Waiting, Windows, KeyPairs, Halves
    <3>3. saves' \in Seq(Waits)
      <4> HIDE DEF w
      <4>1. <<w>> \in Seq(Waits)
        BY <3>2
      <4> QED
        BY <1>0, <3>1, <4>1, ConcatProperties
    <3>4. conf' \in Confs
      BY <1>0, <3>1 DEF Confs, Windows
    <3> QED
      BY <1>0, <2>1, <3>1, <3>3, <3>4 DEF KeyTypes
  <2> QED
    BY <2>2, <2>3
<1>5. CASE KeyringAnswers
  <2> DEFINE top == Head(saves)
  <2>1. /\ top \in Waits /\ Tail(saves) \in Seq(Waits)
    BY <1>0, <1>5, HeadTailProperties DEF KeyringAnswers
  <2>2. moves' \subseteq {"lock", "crash", "again"}
    BY <1>0, <1>5 DEF KeyringAnswers
  <2>3. ring' \in KeyPairs
    <3>1. top.arg \in Halves
      BY <2>1 DEF Waits
    <3>2. \/ ring' = ring \/ ring' = [ring EXCEPT !.key = top.arg]
          \/ ring' = [ring EXCEPT !.iv = top.arg]
      BY <1>5 DEF KeyringAnswers
    <3> QED
      BY <1>0, <3>1, <3>2 DEF KeyPairs
  <2>4. ASSUME NEW w \in Waits, saves' = <<w>> \o Tail(saves) PROVE saves' \in Seq(Waits)
    <3>1. <<w>> \in Seq(Waits)
      OBVIOUS
    <3> QED
      BY <2>1, <2>4, <3>1, ConcatProperties
  <2>5. ASSUME NEW text \in KeyPairs, Conclude(text)
        PROVE  conf' \in Confs /\ disk' \in Confs /\ settings' \in Windows
    BY <1>0, <2>5 DEF Conclude, Confs, Windows
  <2>6. CASE top.at = "writekey"
    <3>1. /\ saves' = <<Waiting("writeiv", settings.text.iv)>> \o Tail(saves)
          /\ UNCHANGED <<conf, disk, settings>>
      BY <1>5, <2>6 DEF KeyringAnswers
    <3>2. Waiting("writeiv", settings.text.iv) \in Waits
      BY <1>0 DEF Waits, Waiting, Windows, KeyPairs
    <3> QED
      BY <1>0, <2>2, <2>3, <2>4, <3>1, <3>2 DEF KeyTypes
  <2>7. CASE top.at = "deletekey"
    <3>1. /\ saves' = <<Waiting("deleteiv", "none")>> \o Tail(saves)
          /\ UNCHANGED <<conf, disk, settings>>
      BY <1>5, <2>7 DEF KeyringAnswers
    <3>2. Waiting("deleteiv", "none") \in Waits
      BY DEF Waits, Waiting, Halves
    <3> QED
      BY <1>0, <2>2, <2>3, <2>4, <3>1, <3>2 DEF KeyTypes
  <2>8. CASE top.at = "writeiv"
    <3>1. saves' = Tail(saves) /\ Conclude(NoKey)
      BY <1>5, <2>8 DEF KeyringAnswers
    <3> QED
      BY <1>0, <2>1, <2>2, <2>3, <2>5, <3>1 DEF KeyTypes
  <2>9. CASE top.at = "deleteiv"
    <3>1. saves' = Tail(saves) /\ Conclude(settings.text)
      BY <1>5, <2>9 DEF KeyringAnswers
    <3>2. settings.text \in KeyPairs
      BY <1>0 DEF Windows
    <3> QED
      BY <1>0, <2>1, <2>2, <2>3, <2>5, <3>1, <3>2 DEF KeyTypes
  <2> QED
    BY <2>1, <2>6, <2>7, <2>8, <2>9 DEF Waits
<1>6. CASE FlushConf
  BY <1>0, <1>6 DEF FlushConf, KeyTypes
<1> QED
  BY <1>1, <1>2, <1>3, <1>4, <1>5, <1>6 DEF KeyAction

\* What begins a save.
LEMMA BeginType ==
  ASSUME StoreTypeOK, NEW to \in Names, NEW of \in Names0, NEW pass \in Secrets0,
         NEW stripped \in BOOLEAN, NEW by \in {"editor", "copy", "question"},
         Begin(to, of, pass, stripped, by)
  PROVE  saving' \in SaveTypes /\ saving'.stage = "keys"
BY DataTypes DEF Begin, SaveTypes, Names0

LEMMA ProfileActionTypes ==
  ASSUME StoreTypeOK, NEW n \in Names, ProfileAction(n)
  PROVE  ProfileTypes'
<1>0. /\ ProfileTypes
      /\ file \in [Names -> [name: Names0, pass: Ciphers]] /\ conf \in Confs
      /\ editor \in Forms /\ want \in [Names -> Secrets0] /\ excuse \in [Names -> Reasons]
      /\ NoFile \in [name: Names0, pass: Ciphers]
      /\ n \in Names0
  BY TypeParts, TypeFacts, DataTypes DEF ProfileTypes, Names0, Reasons
<1>1. \A f \in Names : IF Available(conf) THEN Decrypt(file[f].pass, KeysOf(conf)) \in Secrets0
                       ELSE "" \in Secrets0
  BY <1>0, DataTypes DEF Secrets0
<1>2. CASE EditVPN(n)
  <2>1. editor' \in Forms
    <3> DEFINE pass == ReadSecret(n, conf)
    <3>1. pass \in Secrets0
      BY <1>1 DEF ReadSecret
    <3>2. editor' = [open |-> TRUE, of |-> n, pass |-> pass,
                     stripped |-> pass = "" /\ want[n] # ""]
      BY <1>2 DEF EditVPN
    <3> HIDE DEF pass
    <3> QED
      BY <1>0, <3>1, <3>2 DEF Forms
  <2> QED
    BY <1>0, <1>2, <2>1 DEF EditVPN, ProfileTypes
<1>3. CASE SaveEditor(n)
  <2>1. saving' \in SaveTypes /\ saving'.stage = "keys"
    BY <1>0, <1>3, BeginType DEF SaveEditor, Forms
  <2>2. file' \in [Names -> [name: Names0, pass: Ciphers]]
    <3>1. CASE file' = file
      BY <1>0, <3>1
    <3>2. CASE file' # file
      <4>1. /\ editor.of \in Names
            /\ file' = [file EXCEPT ![n] = file[editor.of], ![editor.of] = NoFile]
        BY <1>0, <1>3, <3>2 DEF SaveEditor, Renamed, Forms, Names0
      <4> QED
        BY <1>0, <4>1
    <3> QED
      BY <3>1, <3>2
  <2> QED
    BY <1>0, <1>3, <2>1, <2>2 DEF SaveEditor, ProfileTypes
<1>4. CASE DeleteVPN(n)
  <2>1. /\ file' \in [Names -> [name: Names0, pass: Ciphers]]
        /\ want' \in [Names -> Secrets0]
    BY <1>0, <1>4 DEF DeleteVPN, Secrets0
  <2>2. excuse' \in [Names -> Reasons]
    BY <1>0, <1>4 DEF DeleteVPN, Reasons
  <2> QED
    BY <1>0, <1>4, <2>1, <2>2 DEF DeleteVPN, ProfileTypes
<1>5. CASE AskAboutCertificate(n)
  <2>1. question' \in Forms
    <3>1. PICK f \in Names :
            LET pass == IF Available(conf) THEN Decrypt(file[f].pass, KeysOf(conf)) ELSE "" IN
            question' = [open |-> TRUE, of |-> n, pass |-> pass,
                         stripped |-> pass = "" /\ want[n] # ""]
      BY <1>5 DEF AskAboutCertificate
    <3> DEFINE pass == IF Available(conf) THEN Decrypt(file[f].pass, KeysOf(conf)) ELSE ""
    <3>2. pass \in Secrets0
      BY <1>1
    <3> HIDE DEF pass
    <3>3. question' = [open |-> TRUE, of |-> n, pass |-> pass,
                       stripped |-> pass = "" /\ want[n] # ""]
      BY <3>1 DEF pass
    <3> QED
      BY <1>0, <3>2, <3>3 DEF Forms
  <2> QED
    BY <1>0, <1>5, <2>1 DEF AskAboutCertificate, ProfileTypes
<1>6. ASSUME NEW cp \in Names, CopyVPN(n, cp) PROVE ProfileTypes'
  <2>1. Begin(cp, n, "", FALSE, "copy") /\ "" \in Secrets0
    BY <1>6 DEF CopyVPN, Secrets0
  <2>2. saving' \in SaveTypes /\ saving'.stage = "keys"
    BY <1>0, <2>1, BeginType
  <2> QED
    BY <1>0, <1>6, <2>2 DEF CopyVPN, ProfileTypes
<1> QED
  BY <1>2, <1>3, <1>4, <1>5, <1>6 DEF ProfileAction

LEMMA FormActionTypes ==
  ASSUME StoreTypeOK, FormInv, FormAction
  PROVE  ProfileTypes'
<1>0. /\ ProfileTypes /\ editor \in Forms /\ question \in Forms /\ NoForm \in Forms
  BY TypeParts, TypeFacts, DataTypes
<1>1. CASE AddVPN
  BY <1>0, <1>1 DEF AddVPN, ProfileTypes, NoForm, Forms
<1>2. CASE CancelEditor
  BY <1>0, <1>2 DEF CancelEditor, ProfileTypes
<1>3. CASE AnswerNo
  BY <1>0, <1>3 DEF AnswerNo, ProfileTypes
<1>4. CASE AnswerYes
  <2>1. /\ question.of \in Names /\ question.of \in Names0
        /\ question.pass \in Secrets0 /\ question.stripped \in BOOLEAN
    BY <1>0, <1>4 DEF AnswerYes, FormInv, Forms
  <2>2. saving' \in SaveTypes /\ saving'.stage = "keys"
    BY <1>4, <2>1, BeginType DEF AnswerYes
  <2> QED
    BY <1>0, <1>4, <2>2 DEF AnswerYes, ProfileTypes
<1>5. ASSUME NEW s \in Secrets, TypePassword(s) PROVE ProfileTypes'
  BY <1>0, <1>5 DEF TypePassword, ProfileTypes, Forms, Secrets0
<1> QED
  BY <1>1, <1>2, <1>3, <1>4, <1>5 DEF FormAction

\* The steps of a save of a profile.
LEMMA FetchKeysTypes ==
  ASSUME StoreTypeOK, FormInv, FetchKeys
  PROVE  ProfileTypes'
<1>0. /\ ProfileTypes /\ conf \in Confs
      /\ file \in [Names -> [name: Names0, pass: Ciphers]] /\ saving \in SaveTypes
      /\ excuse \in [Names -> Reasons]
      /\ NoFile \in [name: Names0, pass: Ciphers] /\ NoKey \in KeyPairs
  BY TypeParts, TypeFacts, DataTypes DEF ProfileTypes, Reasons
<1>1. saving.to \in Names
  BY DEF FetchKeys, FormInv
<1>2. CASE Available(conf)
  <2>1. /\ saving' = [saving EXCEPT !.stage = "write", !.with = KeysOf(conf)]
        /\ file' = [file EXCEPT ![saving.to] = NoFile]
        /\ UNCHANGED <<editor, question, want, excuse>>
    BY <1>2 DEF FetchKeys
  <2>2. KeysOf(conf) \in KeyPairs /\ Usable(KeysOf(conf))
    BY <1>0, <1>2, DataTypes
  <2>3. saving' \in SaveTypes /\ saving'.with = KeysOf(conf)
    BY <1>0, <2>1, <2>2 DEF SaveTypes
  <2>4. file' \in [Names -> [name: Names0, pass: Ciphers]]
    BY <1>0, <1>1, <2>1
  <2> QED
    BY <1>0, <2>1, <2>2, <2>3, <2>4 DEF ProfileTypes
<1>3. CASE ~Available(conf)
  <2>1. /\ saving' = NoSave /\ excuse' = Mark(HalfRenamed, "renamed")
        /\ UNCHANGED <<file, editor, question, want>>
    BY <1>3 DEF FetchKeys
  <2>2. NoSave \in SaveTypes /\ NoSave.stage = "none"
    BY <1>0 DEF NoSave, SaveTypes, Names0, Secrets0
  <2>3. excuse' \in [Names -> Reasons]
    BY <1>0, <2>1 DEF Mark, Reasons
  <2> QED
    BY <1>0, <2>1, <2>2, <2>3 DEF ProfileTypes
<1> QED
  BY <1>2, <1>3

LEMMA WriteFileTypes ==
  ASSUME StoreTypeOK, FormInv, WriteFile
  PROVE  ProfileTypes'
<1>0. /\ ProfileTypes /\ saving \in SaveTypes
      /\ file \in [Names -> [name: Names0, pass: Ciphers]]
      /\ want \in [Names -> Secrets0] /\ excuse \in [Names -> Reasons]
      /\ editor \in Forms /\ NoForm \in Forms /\ NoKey \in KeyPairs
  BY TypeParts, TypeFacts, DataTypes DEF ProfileTypes, Reasons
<1>1. /\ saving.to \in Names /\ saving.to \in Names0 /\ saving.pass \in Secrets0
      /\ saving.stripped \/ saving.by = "copy" => saving.of \in Names
  BY <1>0 DEF WriteFile, FormInv, SaveTypes
<1>2. file' \in [Names -> [name: Names0, pass: Ciphers]]
  <2>1. Encrypt(saving.pass, saving.with) \in Ciphers
    BY <1>0, <1>1, DataTypes DEF SaveTypes
  <2>2. [name |-> saving.to, pass |-> Encrypt(saving.pass, saving.with)]
          \in [name: Names0, pass: Ciphers]
    BY <1>1, <2>1
  <2> QED
    BY <1>0, <1>1, <2>2 DEF WriteFile
<1>3. want' \in [Names -> Secrets0]
  <2>1. saving.stripped \/ (saving.by = "copy" /\ saving.of = saving.to)
           => want[saving.of] \in Secrets0
    BY <1>0, <1>1
  <2>2. Meant \in [Names -> Secrets0]
    BY <1>0, <1>1, <2>1 DEF Meant, Secrets0
  <2> QED
    BY <2>2 DEF WriteFile
<1>4. excuse' \in [Names -> Reasons]
  <2>1. Excuses \in [Names -> Reasons]
    BY <1>0 DEF Excuses, Reasons
  <2> QED
    BY <2>1 DEF WriteFile
<1>5. saving' \in SaveTypes /\ saving'.stage = "none"
  BY <1>0 DEF WriteFile, NoSave, SaveTypes, Names0, Secrets0
<1>6. editor' \in Forms /\ question' \in Forms
  BY <1>0 DEF WriteFile, ProfileTypes
<1> QED
  BY <1>2, <1>3, <1>4, <1>5, <1>6 DEF ProfileTypes

LEMMA RestartTypes ==
  ASSUME StoreTypeOK, Quit \/ Crash
  PROVE  KeyTypes' /\ ProfileTypes'
<1>0. /\ KeyTypes /\ ProfileTypes /\ conf \in Confs /\ disk \in Confs
      /\ file \in [Names -> [name: Names0, pass: Ciphers]]
      /\ want \in [Names -> Secrets0] /\ excuse \in [Names -> Reasons]
      /\ NoForm \in Forms /\ NoKey \in KeyPairs /\ Default \in KeyPairs
      /\ ring \in KeyPairs /\ moves \subseteq {"lock", "crash", "again"}
  BY TypeParts, TypeFacts, DataTypes DEF ProfileTypes, KeyTypes, Reasons
<1>1. PICK c \in Confs : Restart(c)
  BY <1>0 DEF Quit, Crash
<1>2. KeyTypes'
  <2>1. Migrated(c) \in Confs
    BY <1>0 DEF Migrated, Confs
  <2>2. NoWindow \in Windows /\ <<>> \in Seq(Waits)
    BY <1>0 DEF NoWindow, Windows
  <2>3. moves' \subseteq {"lock", "crash", "again"}
    BY <1>0 DEF Quit, Crash
  <2>4. conf' \in Confs /\ disk' \in Confs /\ ring' \in KeyPairs
    BY <1>0, <1>1, <2>1 DEF Restart
  <2>5. settings' \in Windows /\ saves' \in Seq(Waits)
    BY <1>1, <2>2 DEF Restart
  <2> QED
    BY <2>3, <2>4, <2>5 DEF KeyTypes
<1>3. ProfileTypes'
  <2>1. NoSave \in SaveTypes /\ NoSave.stage = "none"
    BY <1>0 DEF NoSave, SaveTypes, Names0, Secrets0
  <2>2. \A m, r : r \in Reasons => Mark(m, r) \in [Names -> Reasons]
    BY <1>0 DEF Mark
  <2>3. excuse' \in [Names -> Reasons]
    <3>1. CASE Quit
      BY <1>0, <3>1 DEF Quit
    <3>2. CASE Crash
      <4>1. saving.stage \in {"none", "keys", "write"}
        BY <1>0 DEF ProfileTypes, SaveTypes
      <4>2. \/ excuse' = excuse \/ excuse' = Mark(HalfRenamed, "renamed")
            \/ excuse' = Mark({saving.to} \union (IF Moved THEN {saving.of} ELSE {}), "torn")
        BY <3>2, <4>1 DEF Crash
      <4>3. "renamed" \in Reasons /\ "torn" \in Reasons
        BY DEF Reasons
      <4>4. /\ Mark(HalfRenamed, "renamed") \in [Names -> Reasons]
            /\ Mark({saving.to} \union (IF Moved THEN {saving.of} ELSE {}), "torn")
                 \in [Names -> Reasons]
        BY <2>2, <4>3, Zenon
      <4> HIDE DEF Reasons
      <4> QED
        BY <1>0, <4>2, <4>4
    <3> QED
      BY <3>1, <3>2
  <2>4. file' = file /\ want' = want /\ editor' = NoForm /\ question' = NoForm /\ saving' = NoSave
    BY <1>1 DEF Restart
  <2> QED
    BY <1>0, <2>1, <2>3, <2>4 DEF ProfileTypes
<1> QED
  BY <1>2, <1>3

LEMMA TypeStep ==
  ASSUME StoreTypeOK, FormInv, [Next]_vars
  PROVE  StoreTypeOK'
<1>0. KeyTypes /\ ProfileTypes /\ locked \in BOOLEAN /\ origin \in KeyPairs
  BY TypeParts
<1>1. UNCHANGED keyVars => KeyTypes'
  BY <1>0 DEF keyVars, KeyTypes
<1>2. UNCHANGED profileVars => ProfileTypes'
  BY <1>0 DEF profileVars, ProfileTypes
<1>3. KeyTypes' /\ ProfileTypes'
  <2>1. CASE \E n \in Names : ProfileAction(n)
    BY <1>1, <2>1, Frames, ProfileActionTypes
  <2>2. CASE FormAction \/ FetchKeys \/ WriteFile
    BY <1>1, <2>2, Frames, FormActionTypes, FetchKeysTypes, WriteFileTypes
  <2>3. CASE KeyAction
    BY <1>2, <2>3, Frames, KeyActionTypes
  <2>4. CASE LockKeyring
    BY <1>1, <1>2, <2>4, Frames
  <2>5. CASE Quit \/ Crash
    BY <2>5, RestartTypes
  <2>6. CASE UNCHANGED vars
    BY <1>1, <1>2, <2>6 DEF vars
  <2> QED
    BY <2>1, <2>2, <2>3, <2>4, <2>5, <2>6, Steps
<1>4. locked' \in BOOLEAN
  <2>1. CASE LockKeyring
    BY <1>0, <2>1 DEF LockKeyring
  <2>2. CASE Quit \/ Crash
    BY <1>0, <2>2 DEF Quit, Crash, Restart
  <2>3. CASE UNCHANGED vars
    BY <1>0, <2>3 DEF vars
  <2> QED
    BY <1>0, <2>1, <2>2, <2>3, Steps, Frames
<1>5. origin' \in KeyPairs
  BY <1>0, Frames
<1>6. (KeyTypes /\ ProfileTypes /\ locked \in BOOLEAN /\ origin \in KeyPairs => StoreTypeOK)'
  BY DEF StoreTypeOK, KeyTypes, ProfileTypes, Windows, Waits, SaveTypes, Reasons
<1> QED
  BY <1>3, <1>4, <1>5, <1>6

-----------------------------------------------------------------------------
(* Forms, questions and saves belong to names.                             *)

\* What a rename does to the files, if it does anything.
LEMMA Renaming ==
  ASSUME StoreTypeOK, NEW old \in Names0, NEW n \in Names
  PROVE  \/ Renamed(old, n) = file
         \/ /\ old \in Names /\ old # n /\ file[old] # NoFile /\ file[n] = NoFile
            /\ Renamed(old, n)[n] = file[old] /\ Renamed(old, n)[old] = NoFile
            /\ \A m \in Names \ {old, n} : Renamed(old, n)[m] = file[m]
<1>1. CASE ~(old # "" /\ old # n /\ file[old] # NoFile /\ file[n] = NoFile)
  BY <1>1 DEF Renamed
<1>2. CASE old # "" /\ old # n /\ file[old] # NoFile /\ file[n] = NoFile
  <2>1. old \in Names
    BY <1>2 DEF Names0
  <2>2. Renamed(old, n) = [file EXCEPT ![n] = file[old], ![old] = NoFile]
    BY <1>2 DEF Renamed
  <2>3. file \in [Names -> [name: Names0, pass: Ciphers]]
    BY TypeFacts
  <2> QED
    BY <1>2, <2>1, <2>2, <2>3
<1> QED
  BY <1>1, <1>2

\* The files hold names, whatever is renamed, deleted or written.
LEMMA FileNamesStep ==
  ASSUME StoreTypeOK, FormInv, [Next]_vars
  PROVE  \A n \in Names : file'[n] # NoFile => file'[n].name \in Names
<1>0. /\ file \in [Names -> [name: Names0, pass: Ciphers]] /\ editor \in Forms
      /\ \A n \in Names : file[n] # NoFile => file[n].name \in Names
      /\ saving.stage # "none" => saving.to \in Names
  BY TypeFacts DEF FormInv
<1> SUFFICES ASSUME NEW m \in Names, file'[m] # NoFile PROVE file'[m].name \in Names
  OBVIOUS
<1>1. CASE file' = file
  BY <1>0, <1>1
<1>2. ASSUME NEW n \in Names, ProfileAction(n) PROVE file'[m].name \in Names
  <2>1. CASE SaveEditor(n)
    <3>1. file' = Renamed(editor.of, n) /\ editor.of \in Names0
      BY <1>0, <2>1 DEF SaveEditor, Forms
    <3> QED
      BY <1>0, <1>1, <3>1, Renaming
  <2>2. CASE DeleteVPN(n)
    BY <1>0, <2>2 DEF DeleteVPN
  <2>3. CASE EditVPN(n) \/ AskAboutCertificate(n) \/ \E cp \in Names : CopyVPN(n, cp)
    BY <1>1, <2>3 DEF EditVPN, AskAboutCertificate, CopyVPN
  <2> QED
    BY <1>2, <2>1, <2>2, <2>3 DEF ProfileAction
<1>3. CASE FormAction
  BY <1>1, <1>3 DEF FormAction, AddVPN, CancelEditor, AnswerNo, AnswerYes, TypePassword
<1>4. CASE FetchKeys
  BY <1>0, <1>1, <1>4 DEF FetchKeys
<1>5. CASE WriteFile
  <2>1. /\ saving.to \in Names
        /\ file' = [file EXCEPT ![saving.to] =
                      [name |-> saving.to, pass |-> Encrypt(saving.pass, saving.with)]]
    BY <1>0, <1>5 DEF WriteFile
  <2> QED
    BY <1>0, <2>1
<1>6. CASE KeyAction \/ LockKeyring
  BY <1>1, <1>6, Frames DEF profileVars
<1>7. CASE Quit \/ Crash
  BY <1>1, <1>7 DEF Quit, Crash, Restart
<1>8. CASE UNCHANGED vars
  BY <1>1, <1>8 DEF vars, profileVars
<1> QED
  BY <1>2, <1>3, <1>4, <1>5, <1>6, <1>7, <1>8, Steps

\* The fields of the records that are no form, no save and no file.
LEMMA Blanks ==
  /\ ~NoForm.open /\ ~NoForm.stripped
  /\ NoSave.stage = "none" /\ ~NoSave.stripped /\ NoSave.by = "none"
  /\ NoFile.name = "" /\ NoFile.pass = NoCipher
BY DEF NoForm, NoSave, NoFile

LEMMA FormStep ==
  ASSUME StoreTypeOK, FormInv, [Next]_vars
  PROVE  FormInv'
<1>0. /\ \A n \in Names : file[n] # NoFile => file[n].name \in Names
      /\ editor.stripped => editor.of \in Names
      /\ question.open \/ question.stripped => question.of \in Names
      /\ saving.stage = "none" => saving = NoSave
      /\ saving.stage # "none" => saving.to \in Names
      /\ saving.stripped \/ saving.by = "copy" => saving.of \in Names
      /\ editor \in Forms
  BY TypeFacts DEF FormInv
<1> DEFINE Editor == editor.stripped => editor.of \in Names
           Question == question.open \/ question.stripped => question.of \in Names
           Saving == /\ saving.stage = "none" => saving = NoSave
                     /\ saving.stage # "none" => saving.to \in Names
                     /\ saving.stripped \/ saving.by = "copy" => saving.of \in Names
<1>1. UNCHANGED editor => Editor'
  BY <1>0
<1>2. UNCHANGED question => Question'
  BY <1>0
<1>3. UNCHANGED saving => Saving'
  BY <1>0
<1>4. editor' = NoForm => Editor'
  BY Blanks
<1>5. question' = NoForm => Question'
  BY Blanks
<1>6. saving' = NoSave => Saving'
  BY Blanks
<1>7. ASSUME NEW to \in Names, NEW of, NEW pass, NEW stripped, NEW by,
             Begin(to, of, pass, stripped, by), stripped \/ by = "copy" => of \in Names
      PROVE  Saving'
  BY <1>7 DEF Begin
<1>8. Editor' /\ Question' /\ Saving'
  <2>1. ASSUME NEW n \in Names, ProfileAction(n) PROVE Editor' /\ Question' /\ Saving'
    <3>1. CASE EditVPN(n)
      <4>1. editor'.of = n
        BY <3>1 DEF EditVPN
      <4>2. UNCHANGED <<question, saving>>
        BY <3>1 DEF EditVPN
      <4> QED
        BY <1>2, <1>3, <4>1, <4>2
    <3>2. CASE SaveEditor(n)
      <4>1. Begin(n, editor.of, editor.pass, editor.stripped, "editor")
        BY <3>2 DEF SaveEditor
      <4>2. Saving'
        BY <1>0, <1>7, <4>1
      <4>3. UNCHANGED <<editor, question>>
        BY <3>2 DEF SaveEditor
      <4> QED
        BY <1>1, <1>2, <4>2, <4>3
    <3>3. CASE DeleteVPN(n)
      BY <1>1, <1>2, <1>3, <3>3 DEF DeleteVPN
    <3>4. CASE AskAboutCertificate(n)
      <4>1. question'.of = n
        <5>1. PICK f \in Names :
                LET pass == IF Available(conf) THEN Decrypt(file[f].pass, KeysOf(conf)) ELSE "" IN
                question' = [open |-> TRUE, of |-> n, pass |-> pass,
                             stripped |-> pass = "" /\ want[n] # ""]
          BY <3>4 DEF AskAboutCertificate
        <5> QED
          BY <5>1
      <4>2. UNCHANGED <<editor, saving>>
        BY <3>4 DEF AskAboutCertificate
      <4> QED
        BY <1>1, <1>3, <4>1, <4>2
    <3>5. ASSUME NEW cp \in Names, CopyVPN(n, cp) PROVE Editor' /\ Question' /\ Saving'
      <4>1. Begin(cp, n, "", FALSE, "copy")
        BY <3>5 DEF CopyVPN
      <4>2. Saving'
        BY <1>7, <4>1
      <4>3. UNCHANGED <<editor, question>>
        BY <3>5 DEF CopyVPN
      <4> QED
        BY <1>1, <1>2, <4>2, <4>3
    <3> QED
      BY <2>1, <3>1, <3>2, <3>3, <3>4, <3>5 DEF ProfileAction
  <2>2. CASE AddVPN
    <3>1. editor' = [NoForm EXCEPT !.open = TRUE] /\ UNCHANGED <<question, saving>>
      BY <2>2 DEF AddVPN
    <3>2. ~editor'.stripped
      BY <3>1 DEF NoForm
    <3> QED
      BY <1>2, <1>3, <3>1, <3>2
  <2>3. CASE CancelEditor
    BY <1>2, <1>3, <1>4, <2>3 DEF CancelEditor
  <2>4. CASE AnswerNo
    BY <1>1, <1>3, <1>5, <2>4 DEF AnswerNo
  <2>5. CASE AnswerYes
    <3>1. /\ Begin(question.of, question.of, question.pass, question.stripped, "question")
          /\ question.of \in Names
      BY <1>0, <2>5 DEF AnswerYes
    <3>2. Saving'
      BY <1>7, <3>1
    <3>3. editor' = editor /\ question' = NoForm
      BY <2>5 DEF AnswerYes
    <3> QED
      BY <1>1, <1>5, <3>2, <3>3
  <2>6. ASSUME NEW s \in Secrets, TypePassword(s) PROVE Editor' /\ Question' /\ Saving'
    <3>1. /\ editor' = [editor EXCEPT !.pass = s, !.stripped = FALSE]
          /\ UNCHANGED <<question, saving>>
      BY <2>6 DEF TypePassword
    <3>2. ~editor'.stripped
      BY <1>0, <3>1 DEF Forms
    <3> QED
      BY <1>2, <1>3, <3>1, <3>2
  <2>7. CASE FetchKeys
    <3>1. UNCHANGED <<editor, question>>
      BY <2>7 DEF FetchKeys
    <3>2. Saving'
      <4>1. CASE Available(conf)
        <5>1. /\ saving' = [saving EXCEPT !.stage = "write", !.with = KeysOf(conf)]
              /\ saving.stage = "keys"
          BY <2>7, <4>1 DEF FetchKeys
        <5>2. saving \in SaveTypes
          BY TypeParts DEF ProfileTypes
        <5>3. /\ saving'.stage = "write" /\ saving'.to = saving.to /\ saving'.of = saving.of
              /\ saving'.stripped = saving.stripped /\ saving'.by = saving.by
          BY <5>1, <5>2 DEF SaveTypes
        <5> QED
          BY <1>0, <5>1, <5>3
      <4>2. CASE ~Available(conf)
        BY <1>6, <2>7, <4>2 DEF FetchKeys
      <4> QED
        BY <4>1, <4>2
    <3> QED
      BY <1>1, <1>2, <3>1, <3>2
  <2>8. CASE WriteFile
    <3>1. saving' = NoSave /\ question' = question /\ (editor' = NoForm \/ editor' = editor)
      BY <2>8 DEF WriteFile
    <3> QED
      BY <1>1, <1>2, <1>4, <1>6, <3>1
  <2>9. CASE KeyAction \/ LockKeyring \/ UNCHANGED vars
    <3>1. UNCHANGED <<editor, question, saving>>
      BY <2>9, Frames DEF vars, profileVars
    <3> QED
      BY <1>1, <1>2, <1>3, <3>1
  <2>10. CASE Quit \/ Crash
    <3>1. editor' = NoForm /\ question' = NoForm /\ saving' = NoSave
      BY <2>10 DEF Quit, Crash, Restart
    <3> QED
      BY <1>4, <1>5, <1>6, <3>1
  <2> QED
    BY <2>1, <2>2, <2>3, <2>4, <2>5, <2>6, <2>7, <2>8, <2>9, <2>10, Steps DEF FormAction
<1>9. \A n \in Names : file'[n] # NoFile => file'[n].name \in Names
  BY FileNamesStep
<1> QED
  BY <1>8, <1>9 DEF FormInv

-----------------------------------------------------------------------------
(* The key.                                                                *)

\* Where the key is, as long as nothing has gone wrong.
KeyPlace ==
  /\ OwnHalves(ring) /\ OwnHalves(conf.keys) /\ OwnHalves(disk.keys)
  /\ saves = <<>> => KeysOf(conf) = origin /\ KeysOf(disk) = origin
  /\ settings.open =>
       \/ settings.enabled /\ settings.text = origin
       \/ ~settings.enabled /\ settings.box /\ conf.store /\ settings.text = NoKey
  /\ SaveInv

\* The window saves: the innermost save is the only one, and waits for the
\* key's own half.
LEMMA SaveSettingsKeys ==
  ASSUME StoreTypeOK, origin = [key |-> "own", iv |-> "own"], KeyPlace,
         SaveSettings, moves' = {}
  PROVE  KeyPlace'
<1>0. /\ conf \in Confs /\ disk \in Confs /\ ring \in KeyPairs /\ settings \in Windows
      /\ saves \in Seq(Waits)
      /\ OwnHalves(ring) /\ OwnHalves(conf.keys) /\ OwnHalves(disk.keys)
      /\ ring' = ring /\ origin' = origin
  BY TypeParts DEF KeyTypes, KeyPlace, SaveSettings
<1>1. saves = <<>> /\ settings.open
  BY DEF SaveSettings
<1>2. /\ KeysOf(conf) = origin
      /\ \/ settings.enabled /\ settings.text = origin
         \/ ~settings.enabled /\ settings.box /\ conf.store
  BY <1>1 DEF KeyPlace
<1>3. OwnHalves(NoKey)
  BY DEF OwnHalves, NoKey
<1>4. CASE settings.box /\ ~settings.enabled
  <2>1. /\ conf' = [store |-> TRUE, keys |-> NoKey] /\ disk' = conf'
        /\ settings' = [settings EXCEPT !.open = FALSE, !.text = NoKey] /\ saves' = saves
    BY <1>4 DEF SaveSettings
  <2>2. ring = origin
    BY <1>2, <1>4 DEF KeysOf
  <2>3. KeysOf(conf') = origin' /\ KeysOf(disk') = origin'
    BY <1>0, <2>1, <2>2 DEF KeysOf
  <2>4. ~settings'.open
    BY <1>0, <2>1 DEF Windows
  <2>5. saves' = <<>>
    BY <1>1, <2>1
  <2> QED
    BY <1>0, <1>3, <2>1, <2>3, <2>4, <2>5 DEF KeyPlace, SaveInv, KeysOf
<1>5. CASE ~(settings.box /\ ~settings.enabled)
  <2> DEFINE w == IF settings.box THEN Waiting("writekey", settings.text.key)
                  ELSE Waiting("deletekey", "none")
  <2>1. /\ conf' = [conf EXCEPT !.store = settings.box] /\ UNCHANGED <<disk, settings>>
        /\ saves' = <<w>> \o saves
    BY <1>5 DEF SaveSettings
  <2>2. settings.enabled /\ settings.text = origin
    BY <1>2, <1>5
  <2>3. saves' = <<w>>
    BY <1>1, <2>1
  <2>4. Len(saves') = 1 /\ saves'[1] = w
    BY <2>3
  <2>5. conf'.store = settings.box /\ conf'.keys = conf.keys
    BY <1>0, <2>1 DEF Confs
  <2>6. /\ settings.box => w.at = "writekey" /\ w.arg = "own"
        /\ ~settings.box => w.at = "deletekey" /\ w.arg = "none"
    BY <2>2 DEF Waiting
  <2>7. SaveInv'
    <3> HIDE DEF w
    <3>1. settings'.open /\ settings'.enabled /\ settings'.text = origin'
      BY <1>0, <1>1, <2>1, <2>2
    <3>2. conf'.store <=> saves'[1].at \in {"writekey", "writeiv"}
      BY <2>4, <2>5, <2>6
    <3>3. /\ saves'[1].at \in {"writekey", "writeiv"} => saves'[1].arg = "own"
          /\ saves'[1].at \in {"deletekey", "deleteiv"} => saves'[1].arg = "none"
          /\ saves'[1].at # "writeiv"
      BY <2>4, <2>6
    <3> QED
      BY <2>4, <3>1, <3>2, <3>3 DEF SaveInv
  <2>8. saves' # <<>>
    BY <2>4
  <2> QED
    BY <1>0, <1>1, <2>1, <2>2, <2>5, <2>7, <2>8 DEF KeyPlace
<1> QED
  BY <1>4, <1>5

\* The keyring answers: half by half the key arrives, or goes, and main.conf
\* follows when both have been asked for.
LEMMA KeyringAnswersKeys ==
  ASSUME StoreTypeOK, origin = [key |-> "own", iv |-> "own"], KeyPlace,
         KeyringAnswers, moves' = {}
  PROVE  KeyPlace'
<1> DEFINE top == Head(saves)
           write == top.at \in {"writekey", "writeiv"}
<1>0. /\ conf \in Confs /\ disk \in Confs /\ ring \in KeyPairs /\ settings \in Windows
      /\ saves \in Seq(Waits) /\ saves # <<>>
      /\ OwnHalves(ring) /\ OwnHalves(conf.keys) /\ OwnHalves(disk.keys)
      /\ origin' = origin /\ OwnHalves(origin)
  BY TypeParts DEF KeyTypes, KeyPlace, KeyringAnswers, OwnHalves
<1>1. /\ Len(saves) = 1
      /\ settings.open /\ settings.enabled /\ settings.text = origin
      /\ conf.store <=> saves[1].at \in {"writekey", "writeiv"}
      /\ saves[1].at \in {"writekey", "writeiv"} => saves[1].arg = "own"
      /\ saves[1].at \in {"deletekey", "deleteiv"} => saves[1].arg = "none"
      /\ saves[1].at = "writeiv" => ring.key = "own"
  BY <1>0 DEF KeyPlace, SaveInv
<1>2. top = saves[1] /\ Tail(saves) = <<>> /\ top \in Waits
  <2>1. top = saves[1] /\ top \in Waits
    BY <1>0, HeadTailProperties
  <2>2. Tail(saves) \in Seq(Waits) /\ Len(Tail(saves)) = 0
    BY <1>0, <1>1, HeadTailProperties
  <2>3. Tail(saves) = <<>>
    BY <2>2, EmptySeq
  <2> QED
    BY <2>1, <2>3
<1>3. /\ write => ~locked
      /\ ring' = IF locked THEN ring
                 ELSE IF top.at \in {"writekey", "deletekey"}
                      THEN [ring EXCEPT !.key = top.arg] ELSE [ring EXCEPT !.iv = top.arg]
  <2>1. moves' = IF locked /\ write THEN moves \union {"lock"} ELSE moves
    BY DEF KeyringAnswers
  <2>2. write => ~locked
    BY <2>1
  <2> QED
    BY <2>2 DEF KeyringAnswers
<1> HIDE DEF top
<1>4. OwnHalves(ring')
  <2>1. top.arg \in {"own", "none"}
    BY <1>1, <1>2 DEF Waits
  <2> QED
    BY <1>0, <1>3, <2>1 DEF OwnHalves, KeyPairs
<1>5. ASSUME NEW at \in {"writeiv", "deleteiv"}, NEW arg,
             saves' = <<Waiting(at, arg)>> \o Tail(saves), UNCHANGED <<conf, disk, settings>>,
             conf.store <=> at = "writeiv",
             at = "writeiv" => arg = "own" /\ ring'.key = "own",
             at = "deleteiv" => arg = "none"
      PROVE  KeyPlace'
  <2>1. saves' = <<Waiting(at, arg)>>
    <3> DEFINE w == Waiting(at, arg)
    <3>1. saves' = <<w>> \o Tail(saves) /\ Tail(saves) = <<>>
      BY <1>2, <1>5
    <3> HIDE DEF w
    <3>2. <<w>> \o <<>> = <<w>>
      OBVIOUS
    <3>3. saves' = <<w>>
      BY <3>1, <3>2
    <3> QED
      BY <3>3 DEF w
  <2>2. /\ Len(saves') = 1 /\ saves'[1] = Waiting(at, arg) /\ saves' # <<>>
    BY <2>1
  <2>3. saves'[1].at = at /\ saves'[1].arg = arg
    BY <2>2 DEF Waiting
  <2>4. settings'.open /\ settings'.enabled /\ settings'.text = origin'
    BY <1>0, <1>1, <1>5
  <2>5. SaveInv'
    BY <1>5, <2>2, <2>3, <2>4 DEF SaveInv
  <2> QED
    BY <1>0, <1>4, <1>5, <2>2, <2>4, <2>5 DEF KeyPlace
<1>6. ASSUME NEW text, Conclude(text), saves' = Tail(saves), OwnHalves(text),
             IF conf.store THEN ring' = origin ELSE text = origin
      PROVE  KeyPlace'
  <2>1. /\ conf'.store = conf.store /\ conf'.keys = text /\ disk' = conf'
        /\ ~settings'.open
    BY <1>0, <1>6 DEF Conclude, Confs, Windows
  <2>2. saves' = <<>>
    BY <1>2, <1>6
  <2>3. IF conf.store THEN ring' = origin' ELSE conf'.keys = origin'
    BY <1>0, <1>6, <2>1
  <2> QED
    BY <1>4, <1>6, <2>1, <2>2, <2>3 DEF KeyPlace, SaveInv, KeysOf
<1>7. CASE top.at = "writekey"
  <2>1. /\ saves' = <<Waiting("writeiv", settings.text.iv)>> \o Tail(saves)
        /\ UNCHANGED <<conf, disk, settings>>
    BY <1>7 DEF KeyringAnswers, top
  <2>2. settings.text.iv = "own" /\ conf.store
    BY <1>1, <1>2, <1>7
  <2>3. ring' = [ring EXCEPT !.key = top.arg]
    BY <1>3, <1>7
  <2>4. ring'.key = "own"
    BY <1>0, <1>1, <1>2, <1>7, <2>3 DEF KeyPairs
  <2> QED
    BY <1>5, <2>1, <2>2, <2>4
<1>8. CASE top.at = "deletekey"
  <2>1. /\ saves' = <<Waiting("deleteiv", "none")>> \o Tail(saves)
        /\ UNCHANGED <<conf, disk, settings>>
    BY <1>8 DEF KeyringAnswers, top
  <2>2. ~conf.store
    BY <1>1, <1>2, <1>8
  <2> QED
    BY <1>5, <2>1, <2>2
<1>9. CASE top.at = "writeiv"
  <2>1. saves' = Tail(saves) /\ Conclude(NoKey)
    BY <1>9 DEF KeyringAnswers, top
  <2>2. /\ top.arg = "own" /\ ring.key = "own" /\ conf.store
    BY <1>1, <1>2, <1>9
  <2>3. ring' = [ring EXCEPT !.iv = "own"]
    BY <1>3, <1>9, <2>2
  <2>4. ring' = origin
    BY <1>0, <2>2, <2>3 DEF KeyPairs
  <2>5. OwnHalves(NoKey)
    BY DEF OwnHalves, NoKey
  <2> QED
    BY <1>6, <2>1, <2>2, <2>4, <2>5
<1>10. CASE top.at = "deleteiv"
  <2>1. saves' = Tail(saves) /\ Conclude(settings.text)
    BY <1>10 DEF KeyringAnswers, top
  <2>2. ~conf.store
    BY <1>1, <1>2, <1>10
  <2> QED
    BY <1>0, <1>1, <1>6, <2>1, <2>2
<1> QED
  BY <1>2, <1>7, <1>8, <1>9, <1>10 DEF Waits

\* The program starts again with the key it had on disk.
LEMMA RestartKeys ==
  ASSUME StoreTypeOK, origin = [key |-> "own", iv |-> "own"], KeyPlace,
         Quit \/ Crash, moves' = {}
  PROVE  KeyPlace'
<1>0. OwnHalves(ring) /\ OwnHalves(conf.keys) /\ OwnHalves(disk.keys)
  BY DEF KeyPlace
<1>1. saves = <<>>
  BY DEF Quit, Crash
<1>2. PICK c : c \in {conf, disk} /\ Restart(c)
  BY DEF Quit, Crash
<1>3. KeysOf(c) = origin
  BY <1>1, <1>2 DEF KeyPlace
<1>4. Migrated(c) = c
  <2>1. CASE c.store
    BY <2>1 DEF Migrated
  <2>2. CASE ~c.store
    <3>1. c.keys = origin
      BY <1>3, <2>2 DEF KeysOf
    <3>2. Usable(c.keys)
      BY <3>1 DEF Usable
    <3> QED
      BY <3>2 DEF Migrated
  <2> QED
    BY <2>1, <2>2
<1>5. /\ conf' = c /\ disk' = c /\ ring' = ring /\ origin' = origin
      /\ settings' = NoWindow /\ saves' = <<>>
  BY <1>2, <1>4 DEF Restart
<1>6. KeysOf(conf') = KeysOf(c) /\ ~NoWindow.open /\ OwnHalves(c.keys)
  BY <1>0, <1>2, <1>5 DEF NoWindow
<1>7. (KeysOf(conf) = origin /\ KeysOf(disk) = origin)'
  BY <1>3, <1>5 DEF KeysOf
<1>8. SaveInv'
  BY <1>5 DEF SaveInv
<1> QED
  BY <1>0, <1>5, <1>6, <1>7, <1>8 DEF KeyPlace

LEMMA KeyStep ==
  ASSUME StoreTypeOK, KeyInv, [Next]_vars
  PROVE  KeyInv'
<1>0. KeyInv <=> origin = [key |-> "own", iv |-> "own"] /\ (moves = {} => KeyPlace)
  BY DEF KeyInv, KeyPlace
<1>1. origin' = origin /\ moves \subseteq moves'
  BY Frames
<1>2. ASSUME moves' = {} PROVE KeyPlace'
  <2>0. /\ moves = {} /\ KeyPlace /\ origin = [key |-> "own", iv |-> "own"]
        /\ settings \in Windows /\ conf \in Confs
    BY <1>0, <1>1, <1>2, TypeParts DEF KeyTypes
  <2>1. UNCHANGED <<conf, disk, ring, settings, saves>> => KeyPlace'
    BY <2>0, <1>1 DEF KeyPlace, SaveInv, KeysOf
  <2>2. CASE \E n \in Names : ProfileAction(n)
    BY <2>1, <2>2, Frames DEF keyVars
  <2>3. CASE FormAction \/ FetchKeys \/ WriteFile \/ LockKeyring
    BY <2>1, <2>3, Frames DEF keyVars
  <2>4. CASE OpenSettings
    <3>1. /\ saves = <<>> /\ UNCHANGED <<conf, disk, ring, saves>>
      BY <2>4 DEF OpenSettings
    <3>2. KeysOf(conf) = origin
      BY <2>0, <3>1 DEF KeyPlace
    <3>3. \/ settings'.enabled /\ settings'.text = origin'
          \/ ~settings'.enabled /\ settings'.box /\ conf'.store /\ settings'.text = NoKey
      BY <1>1, <2>0, <2>4, <3>1, <3>2 DEF OpenSettings, KeysOf, Confs
    <3> QED
      BY <1>1, <2>0, <3>1, <3>3 DEF KeyPlace, SaveInv, KeysOf
  <2>5. CASE ToggleStore
    <3>1. /\ UNCHANGED <<conf, disk, ring, saves>>
          /\ settings.open /\ settings.enabled
          /\ settings' = [settings EXCEPT !.box = ~@]
      BY <2>5 DEF ToggleStore
    <3>2. settings'.open /\ settings'.enabled /\ settings'.text = settings.text
      BY <2>0, <3>1 DEF Windows
    <3>3. settings.text = origin
      BY <2>0, <3>1 DEF KeyPlace
    <3>4. SaveInv'
      BY <1>1, <2>0, <3>1, <3>2, <3>3 DEF KeyPlace, SaveInv
    <3> QED
      BY <1>1, <2>0, <3>1, <3>2, <3>3, <3>4 DEF KeyPlace, KeysOf
  <2>6. CASE CancelSettings
    <3>1. /\ UNCHANGED <<conf, disk, ring, saves>> /\ saves = <<>> /\ ~settings'.open
      BY <2>6 DEF CancelSettings, NoWindow
    <3> QED
      BY <1>1, <2>0, <3>1 DEF KeyPlace, SaveInv, KeysOf
  <2>7. CASE SaveSettings
    BY <1>2, <2>0, <2>7, SaveSettingsKeys
  <2>8. CASE KeyringAnswers
    BY <1>2, <2>0, <2>8, KeyringAnswersKeys
  <2>9. CASE FlushConf
    <3>1. UNCHANGED <<conf, ring, settings, saves>> /\ disk' = conf
      BY <2>9 DEF FlushConf
    <3> QED
      BY <1>1, <2>0, <3>1 DEF KeyPlace, SaveInv, KeysOf
  <2>10. CASE Quit \/ Crash
    BY <1>2, <2>0, <2>10, RestartKeys
  <2>11. CASE UNCHANGED vars
    BY <2>1, <2>11 DEF vars, keyVars
  <2> QED
    BY <2>2, <2>3, <2>4, <2>5, <2>6, <2>7, <2>8, <2>9, <2>10, <2>11, Steps DEF KeyAction
<1> QED
  BY <1>0, <1>1, <1>2 DEF KeyInv, KeyPlace

-----------------------------------------------------------------------------
(* Names and files.                                                        *)

LEMMA NamesAreNotEmpty == \A n \in Names : n # ""
BY StoreAssumption

\* Once a name has been in two files this is not forgotten.
LEMMA RenamedStays ==
  ASSUME StoreTypeOK, [Next]_vars, NEW m \in Names, excuse[m] = "renamed"
  PROVE  excuse'[m] = "renamed"
<1>0. excuse \in [Names -> {"", "stripped", "torn", "copied", "renamed"}]
  BY TypeFacts
<1>1. CASE excuse' = excuse
  BY <1>1
<1>2. ASSUME NEW names, NEW reason, excuse' = Mark(names, reason)
      PROVE  excuse'[m] = "renamed"
  BY <1>2 DEF Mark
<1>3. ASSUME NEW n \in Names, ProfileAction(n) PROVE excuse'[m] = "renamed"
  <2>1. CASE DeleteVPN(n)
    BY <1>0, <2>1 DEF DeleteVPN
  <2>2. CASE ~DeleteVPN(n)
    BY <1>1, <1>3, <2>2
       DEF ProfileAction, EditVPN, SaveEditor, AskAboutCertificate, CopyVPN
  <2> QED
    BY <2>1, <2>2
<1>4. CASE FormAction
  BY <1>1, <1>4 DEF FormAction, AddVPN, CancelEditor, AnswerNo, AnswerYes, TypePassword
<1>5. CASE FetchKeys
  BY <1>1, <1>2, <1>5 DEF FetchKeys
<1>6. CASE WriteFile
  BY <1>6 DEF WriteFile, Excuses
<1>7. CASE KeyAction \/ LockKeyring
  BY <1>1, <1>7, Frames DEF profileVars
<1>8. CASE Quit
  BY <1>1, <1>8 DEF Quit
<1>9. CASE Crash
  <2>1. saving.stage \in {"none", "keys", "write"}
    BY TypeParts DEF ProfileTypes, SaveTypes
  <2>2. \/ excuse' = excuse \/ excuse' = Mark(HalfRenamed, "renamed")
        \/ excuse' = Mark({saving.to} \union (IF Moved THEN {saving.of} ELSE {}), "torn")
    BY <1>9, <2>1 DEF Crash
  <2> QED
    BY <1>1, <1>2, <2>2
<1>10. CASE UNCHANGED vars
  BY <1>1, <1>10 DEF vars, profileVars
<1> QED
  BY <1>3, <1>4, <1>5, <1>6, <1>7, <1>8, <1>9, <1>10, Steps

\* A save that is given up between the rename and the new contents marks the
\* name that is still inside the file.
LEMMA HalfRenamedIsMarked ==
  ASSUME StoreTypeOK, FormInv, saving.to \in Names, file[saving.to] # NoFile,
         file[saving.to].name # saving.to
  PROVE  /\ file[saving.to].name \in HalfRenamed
         /\ Mark(HalfRenamed, "renamed")[file[saving.to].name] = "renamed"
<1>1. file[saving.to].name \in Names
  BY DEF FormInv
<1>2. file[saving.to].name # ""
  BY <1>1, NamesAreNotEmpty
<1>3. file[saving.to].name \in HalfRenamed
  BY <1>2 DEF HalfRenamed
<1> QED
  BY <1>1, <1>3 DEF Mark

LEMMA NamesStep ==
  ASSUME StoreTypeOK, FormInv, NamesAgree, [Next]_vars
  PROVE  NamesAgree'
<1>0. /\ file \in [Names -> [name: Names0, pass: Ciphers]] /\ editor \in Forms
      /\ saving \in SaveTypes
  BY TypeFacts, TypeParts DEF ProfileTypes
<1> SUFFICES ASSUME NEW m \in Names, file'[m] # NoFile, file'[m].name # m,
                    ~(saving'.stage = "keys" /\ saving'.to = m)
             PROVE  excuse'[file'[m].name] = "renamed"
  BY DEF NamesAgree
<1>1. ASSUME file'[m] = file[m], ~(saving.stage = "keys" /\ saving.to = m)
      PROVE  excuse'[file'[m].name] = "renamed"
  <2>1. excuse[file[m].name] = "renamed" /\ file[m].name \in Names
    BY <1>1 DEF NamesAgree, FormInv
  <2> QED
    BY <1>1, <2>1, RenamedStays
<1>2. ASSUME file'[m] = file[m], saving'.stage = saving.stage, saving'.to = saving.to
      PROVE  excuse'[file'[m].name] = "renamed"
  BY <1>1, <1>2
<1>3. saving = NoSave => ~(saving.stage = "keys" /\ saving.to = m)
  BY Blanks
<1>4. ASSUME file'[m] = file[m], saving.stage = "keys",
             excuse' = Mark(HalfRenamed, "renamed")
      PROVE  excuse'[file'[m].name] = "renamed"
  <2>1. CASE saving.to = m
    BY <1>4, <2>1, HalfRenamedIsMarked
  <2>2. CASE saving.to # m
    BY <1>1, <1>4, <2>2
  <2> QED
    BY <2>1, <2>2
<1>5. ASSUME NEW n \in Names, ProfileAction(n) PROVE excuse'[file'[m].name] = "renamed"
  <2>1. saving = NoSave
    BY <1>5 DEF ProfileAction, EditVPN, SaveEditor, DeleteVPN, AskAboutCertificate, CopyVPN,
                MainWindowFree, Idle
  <2>2. CASE SaveEditor(n)
    <3>1. /\ file' = Renamed(editor.of, n) /\ editor.of \in Names0
          /\ saving'.stage = "keys" /\ saving'.to = n
      BY <1>0, <2>2 DEF SaveEditor, Begin, Forms
    <3>2. m # n
      BY <3>1
    <3>3. file'[m] = file[m]
      BY <1>0, <3>1, <3>2, Renaming
    <3> QED
      BY <1>1, <1>3, <2>1, <3>3
  <2>3. CASE DeleteVPN(n)
    <3>1. file' = [file EXCEPT ![n] = NoFile]
      BY <2>3 DEF DeleteVPN
    <3>2. file'[m] = file[m]
      BY <1>0, <3>1
    <3> QED
      BY <1>1, <1>3, <2>1, <3>2
  <2>4. CASE EditVPN(n) \/ AskAboutCertificate(n) \/ \E cp \in Names : CopyVPN(n, cp)
    BY <1>1, <1>3, <2>1, <2>4 DEF EditVPN, AskAboutCertificate, CopyVPN
  <2> QED
    BY <1>5, <2>2, <2>3, <2>4 DEF ProfileAction
<1>6. CASE FormAction
  <2>1. CASE AddVPN \/ CancelEditor \/ AnswerNo \/ \E s \in Secrets : TypePassword(s)
    BY <1>2, <2>1 DEF AddVPN, CancelEditor, AnswerNo, TypePassword
  <2>2. CASE AnswerYes
    BY <1>1, <1>3, <2>2 DEF AnswerYes
  <2> QED
    BY <1>6, <2>1, <2>2 DEF FormAction
<1>7. CASE FetchKeys
  <2>0. saving.stage = "keys" /\ saving.to \in Names
    BY <1>7 DEF FetchKeys, FormInv
  <2>1. CASE Available(conf)
    <3>1. file' = [file EXCEPT ![saving.to] = NoFile]
      BY <1>7, <2>1 DEF FetchKeys
    <3>2. m # saving.to /\ file'[m] = file[m]
      BY <1>0, <2>0, <3>1
    <3> QED
      BY <1>1, <3>2
  <2>2. CASE ~Available(conf)
    BY <1>4, <1>7, <2>0, <2>2 DEF FetchKeys
  <2> QED
    BY <2>1, <2>2
<1>8. CASE WriteFile
  <2>1. /\ saving.stage = "write" /\ saving.to \in Names
        /\ file' = [file EXCEPT ![saving.to] =
                      [name |-> saving.to, pass |-> Encrypt(saving.pass, saving.with)]]
    BY <1>8 DEF WriteFile, FormInv
  <2>2. m # saving.to /\ file'[m] = file[m]
    BY <1>0, <2>1
  <2> QED
    BY <1>1, <2>2
<1>9. CASE KeyAction \/ LockKeyring
  BY <1>2, <1>9, Frames DEF profileVars
<1>10. CASE Quit
  <2>1. saving = NoSave /\ file' = file
    BY <1>10 DEF Quit, MainWindowFree, Idle, Restart
  <2> QED
    BY <1>1, <1>3, <2>1
<1>11. CASE Crash
  <2>1. file' = file
    BY <1>11 DEF Crash, Restart
  <2>2. CASE saving.stage = "keys"
    BY <1>4, <1>11, <2>1, <2>2 DEF Crash
  <2> QED
    BY <1>1, <2>1, <2>2
<1>12. CASE UNCHANGED vars
  BY <1>2, <1>12 DEF vars, profileVars
<1> QED
  BY <1>5, <1>6, <1>7, <1>8, <1>9, <1>10, <1>11, <1>12, Steps

-----------------------------------------------------------------------------
(* The secrets.                                                            *)

\* While nothing has gone wrong, a key that can be had is the user's.
LEMMA AvailableIsOwn ==
  ASSUME StoreTypeOK, KeyInv, moves = {}, Available(conf)
  PROVE  KeysOf(conf) = origin
<1>1. /\ OwnHalves(ring) /\ OwnHalves(conf.keys) /\ origin = [key |-> "own", iv |-> "own"]
      /\ ring \in KeyPairs /\ conf \in Confs
  BY TypeFacts DEF KeyInv
<1>2. \A k \in KeyPairs : OwnHalves(k) /\ Usable(k) => k = [key |-> "own", iv |-> "own"]
  BY DEF KeyPairs, OwnHalves, Usable
<1>3. KeysOf(conf) \in KeyPairs /\ OwnHalves(KeysOf(conf)) /\ Usable(KeysOf(conf))
  BY <1>1, DataTypes DEF KeysOf
<1> QED
  BY <1>1, <1>2, <1>3

\* A password is decrypted by the key it was encrypted with.
LEMMA Decrypted ==
  ASSUME NEW plain, NEW keys
  PROVE  plain # "" => Decrypt(Encrypt(plain, keys), keys) = plain
<1>1. Decrypt([plain |-> plain, with |-> keys], keys) = plain
  BY DEF Decrypt
<1>2. plain # "" => Encrypt(plain, keys) = [plain |-> plain, with |-> keys]
  BY Zenon DEF Encrypt
<1> QED
  BY <1>1, <1>2, Zenon

LEMMA GoodIsAFile ==
  ASSUME NEW n \in Names, Good(n)
  PROVE  /\ file[n] # NoFile /\ file[n].name = n
         /\ file[n].pass = Encrypt(want[n], origin)
<1>1. n # ""
  BY NamesAreNotEmpty
<1>2. file[n].name = n /\ file[n].pass = Encrypt(want[n], origin)
  BY DEF Good
<1>3. NoFile.name # n
  BY <1>1, Blanks
<1> QED
  BY <1>2, <1>3, Zenon

\* What SecretInv says of one profile.
Kept(n) ==
  \/ Good(n)
  \/ saving.stage = "write" /\ n = saving.to
  \/ /\ saving.by = "editor" /\ n = saving.of /\ n # saving.to
     /\ file[n] = NoFile
     /\ saving.stage = "keys" => file[saving.to].name = n

\* A save that is given up, or dies, before the file is touched.
LEMMA GivenUp ==
  ASSUME StoreTypeOK, FormInv, saving.stage = "keys", NEW m \in Names, Kept(m),
         Mark(HalfRenamed, "renamed")[m] = ""
  PROVE  Good(m)
<1>1. m # ""
  BY NamesAreNotEmpty
<1>2. m \notin HalfRenamed
  BY DEF Mark
<1>3. m = saving.to \/ file[saving.to].name # m
  BY <1>1, <1>2 DEF HalfRenamed
<1> QED
  BY <1>3 DEF Kept

\* A save that dies between the old file and the new one.
LEMMA Torn ==
  ASSUME StoreTypeOK, saving.stage = "write", NEW m \in Names, Kept(m),
         Mark({saving.to} \union (IF Moved THEN {saving.of} ELSE {}), "torn")[m] = ""
  PROVE  Good(m)
<1>1. m # ""
  BY NamesAreNotEmpty
<1>2. m # saving.to /\ ~(Moved /\ m = saving.of)
  BY DEF Mark
<1>3. saving.by = "editor" /\ m = saving.of => file[m] # NoFile
  BY <1>1, <1>2 DEF Moved
<1> QED
  BY <1>2, <1>3 DEF Kept

\* A save that ends well.
LEMMA Written ==
  ASSUME StoreTypeOK, FormInv, WriteFile, saving.with = origin, origin' = origin,
         NEW m \in Names, want[m] # "" /\ excuse[m] = "" => Kept(m),
         want'[m] # "", excuse'[m] = ""
  PROVE  Good(m)'
<1>0. /\ file \in [Names -> [name: Names0, pass: Ciphers]]
      /\ saving.to \in Names
      /\ want' = Meant /\ excuse' = Excuses
      /\ file' = [file EXCEPT ![saving.to] =
                    [name |-> saving.to, pass |-> Encrypt(saving.pass, saving.with)]]
  BY TypeFacts DEF WriteFile, FormInv
<1>1. m # ""
  BY NamesAreNotEmpty
<1>2. CASE m = saving.to
  <2>1. ~saving.stripped /\ ~(saving.by = "copy" /\ saving.of = m)
    BY <1>0, <1>2 DEF Excuses
  <2>2. want'[m] = saving.pass
    BY <1>0, <1>2, <2>1 DEF Meant
  <2>3. file'[m] = [name |-> m, pass |-> Encrypt(saving.pass, origin)]
    BY <1>0, <1>2
  <2> QED
    BY <2>2, <2>3 DEF Good
<1>3. CASE m # saving.to
  <2>1. ~(Moved /\ m = saving.of) /\ want'[m] = want[m]
    BY <1>0, <1>3 DEF Meant
  <2>2. excuse[m] = ""
    BY <1>0, <1>3, <2>1 DEF Excuses
  <2>3. saving.by = "editor" /\ m = saving.of => file[m] # NoFile
    BY <1>1, <1>3, <2>1 DEF Moved
  <2>4. Good(m)
    BY <1>3, <2>1, <2>2, <2>3 DEF Kept
  <2>5. file'[m] = file[m]
    BY <1>0, <1>3
  <2> QED
    BY <2>1, <2>4, <2>5 DEF Good
<1> QED
  BY <1>2, <1>3

\* The editor saves under a name: the file of the old one goes with it.
LEMMA SavedAs ==
  ASSUME StoreTypeOK, NEW n \in Names, SaveEditor(n), NEW m \in Names, Good(m),
         origin' = origin
  PROVE  Kept(m)'
<1>0. /\ editor.of \in Names0 /\ file' = Renamed(editor.of, n)
      /\ saving'.stage = "keys" /\ saving'.to = n /\ saving'.of = editor.of
      /\ saving'.by = "editor"
      /\ want' = want
  BY TypeFacts DEF SaveEditor, Begin, Forms
<1>1. file[m] # NoFile /\ file[m].name = m
  BY GoodIsAFile
<1>2. CASE file'[m] = file[m]
  <2>1. Good(m)'
    BY <1>0, <1>2 DEF Good
  <2> QED
    BY <2>1 DEF Kept
<1>3. CASE file'[m] # file[m]
  <2>1. /\ m = editor.of /\ m # n /\ file'[m] = NoFile /\ file'[n] = file[m]
    BY <1>0, <1>1, <1>3, Renaming
  <2> QED
    BY <1>0, <1>1, <2>1 DEF Kept
<1> QED
  BY <1>2, <1>3

LEMMA SecretStep ==
  ASSUME StoreTypeOK, FormInv, KeyInv, SecretInv, [Next]_vars
  PROVE  SecretInv'
<1>1. origin' = origin /\ moves \subseteq moves'
  BY Frames
<1> SUFFICES ASSUME moves' = {}
             PROVE  /\ saving'.stage = "write" => saving'.with = origin'
                    /\ \A m \in Names : want'[m] # "" /\ excuse'[m] = "" => Kept(m)'
  BY DEF SecretInv, Kept
<1>0. /\ moves = {}
      /\ file \in [Names -> [name: Names0, pass: Ciphers]] /\ conf \in Confs
      /\ want \in [Names -> Secrets0] /\ saving \in SaveTypes
      /\ excuse \in [Names -> {"", "stripped", "torn", "copied", "renamed"}]
  BY <1>1, TypeFacts, TypeParts DEF ProfileTypes
<1>2. /\ saving.stage = "write" => saving.with = origin
      /\ \A m \in Names : want[m] # "" /\ excuse[m] = "" => Kept(m)
  BY <1>0 DEF SecretInv, Kept
<1> DEFINE Goal == /\ saving'.stage = "write" => saving'.with = origin'
                   /\ \A m \in Names : want'[m] # "" /\ excuse'[m] = "" => Kept(m)'
<1>3. ASSUME UNCHANGED <<file, saving, want, excuse>> PROVE Goal
  <2>1. \A m \in Names : Kept(m) => Kept(m)'
    BY <1>1, <1>3 DEF Kept, Good
  <2> QED
    BY <1>1, <1>2, <1>3, <2>1
<1>4. \A m \in Names : saving = NoSave /\ Kept(m) => Good(m)
  BY Blanks DEF Kept
<1>5. ASSUME UNCHANGED <<file, want, excuse>>, saving = NoSave, saving'.stage # "write"
      PROVE  Goal
  <2>1. \A m \in Names : Good(m) => Good(m)'
    BY <1>1, <1>5 DEF Good
  <2>2. \A m \in Names : Good(m)' => Kept(m)'
    BY DEF Kept
  <2> QED
    BY <1>2, <1>4, <1>5, <2>1, <2>2
<1>6. ASSUME UNCHANGED <<file, want>>, saving'.stage # "write",
             \A m \in Names : want[m] # "" /\ excuse'[m] = "" => Good(m)
      PROVE  Goal
  <2>1. \A m \in Names : Good(m) => Good(m)'
    BY <1>1, <1>6 DEF Good
  <2>2. \A m \in Names : Good(m)' => Kept(m)'
    BY DEF Kept
  <2> QED
    BY <1>6, <2>1, <2>2
<1>7. ASSUME NEW n \in Names, ProfileAction(n) PROVE Goal
  <2>0. saving = NoSave
    BY <1>7 DEF ProfileAction, EditVPN, SaveEditor, DeleteVPN, AskAboutCertificate, CopyVPN,
                MainWindowFree, Idle
  <2>1. CASE EditVPN(n) \/ AskAboutCertificate(n)
    BY <1>3, <2>1 DEF EditVPN, AskAboutCertificate
  <2>2. CASE SaveEditor(n)
    <3>1. saving'.stage = "keys" /\ want' = want /\ excuse' = excuse
      BY <2>2 DEF SaveEditor, Begin
    <3>2. \A m \in Names : Good(m) => Kept(m)'
      BY <1>1, <2>2, SavedAs
    <3> QED
      BY <1>2, <1>4, <2>0, <3>1, <3>2
  <2>3. CASE DeleteVPN(n)
    <3>1. /\ file' = [file EXCEPT ![n] = NoFile] /\ want' = [want EXCEPT ![n] = ""]
          /\ saving' = saving
          /\ excuse' = [excuse EXCEPT ![n] = IF @ = "renamed" THEN @ ELSE ""]
      BY <2>3 DEF DeleteVPN
    <3>2. ASSUME NEW m \in Names, want'[m] # "", excuse'[m] = "" PROVE Kept(m)'
      <4>1. m # n
        BY <1>0, <3>1, <3>2
      <4>2. file'[m] = file[m] /\ want'[m] = want[m] /\ excuse'[m] = excuse[m]
        BY <1>0, <3>1, <4>1
      <4>3. Good(m)
        BY <1>2, <1>4, <2>0, <3>2, <4>2
      <4>4. Good(m)'
        BY <1>1, <4>2, <4>3 DEF Good
      <4> QED
        BY <4>4 DEF Kept
    <3>3. saving'.stage # "write"
      BY <2>0, <3>1, Blanks
    <3> QED
      BY <3>2, <3>3
  <2>4. ASSUME NEW cp \in Names, CopyVPN(n, cp) PROVE Goal
    <3>1. UNCHANGED <<file, want, excuse>> /\ saving'.stage = "keys"
      BY <2>4 DEF CopyVPN, Begin
    <3> QED
      BY <1>5, <2>0, <3>1
  <2> QED
    BY <1>7, <2>1, <2>2, <2>3, <2>4 DEF ProfileAction
<1>8. CASE FormAction
  <2>1. CASE AddVPN \/ CancelEditor \/ AnswerNo \/ \E s \in Secrets : TypePassword(s)
    BY <1>3, <2>1 DEF AddVPN, CancelEditor, AnswerNo, TypePassword
  <2>2. CASE AnswerYes
    <3>1. UNCHANGED <<file, want, excuse>> /\ saving'.stage = "keys" /\ saving = NoSave
      BY <2>2 DEF AnswerYes, Begin
    <3> QED
      BY <1>5, <3>1
  <2> QED
    BY <1>8, <2>1, <2>2 DEF FormAction
<1>9. CASE FetchKeys
  <2>0. saving.stage = "keys" /\ saving.to \in Names
    BY <1>9 DEF FetchKeys, FormInv
  <2>1. CASE Available(conf)
    <3>1. /\ saving' = [saving EXCEPT !.stage = "write", !.with = KeysOf(conf)]
          /\ file' = [file EXCEPT ![saving.to] = NoFile]
          /\ UNCHANGED <<want, excuse>>
      BY <1>9, <2>1 DEF FetchKeys
    <3>2. /\ saving'.stage = "write" /\ saving'.with = KeysOf(conf)
          /\ saving'.to = saving.to /\ saving'.of = saving.of /\ saving'.by = saving.by
      BY <1>0, <3>1 DEF SaveTypes
    <3>3. saving'.with = origin'
      BY <1>0, <1>1, <2>1, <3>2, AvailableIsOwn
    <3>4. ASSUME NEW m \in Names, Kept(m) PROVE Kept(m)'
      <4>1. CASE m = saving.to
        BY <3>2, <4>1 DEF Kept
      <4>2. CASE m # saving.to
        <5>1. file'[m] = file[m]
          BY <1>0, <3>1, <4>2
        <5>2. Good(m) => Good(m)'
          BY <1>1, <3>1, <5>1 DEF Good
        <5> QED
          BY <2>0, <3>2, <3>4, <4>2, <5>1, <5>2 DEF Kept
      <4> QED
        BY <4>1, <4>2
    <3> QED
      BY <1>2, <3>1, <3>3, <3>4
  <2>2. CASE ~Available(conf)
    <3>1. /\ saving' = NoSave /\ UNCHANGED <<file, want>>
          /\ excuse' = Mark(HalfRenamed, "renamed")
      BY <1>9, <2>2 DEF FetchKeys
    <3>2. ASSUME NEW m \in Names, want[m] # "", excuse'[m] = "" PROVE Good(m)
      <4>1. excuse[m] = ""
        BY <3>1, <3>2 DEF Mark
      <4>2. Kept(m)
        BY <1>2, <3>2, <4>1
      <4> QED
        BY <2>0, <3>1, <3>2, <4>2, GivenUp
    <3> QED
      BY <1>6, <3>1, <3>2, Blanks
  <2> QED
    BY <2>1, <2>2
<1>10. CASE WriteFile
  <2>1. saving.stage = "write" /\ saving' = NoSave
    BY <1>10 DEF WriteFile
  <2>2. ASSUME NEW m \in Names, want'[m] # "", excuse'[m] = "" PROVE Good(m)'
    BY <1>1, <1>2, <1>10, <2>1, <2>2, Written
  <2>3. \A m \in Names : Good(m)' => Kept(m)'
    BY DEF Kept
  <2> QED
    BY <2>1, <2>2, <2>3, Blanks
<1>11. CASE KeyAction \/ LockKeyring
  BY <1>3, <1>11, Frames DEF profileVars
<1>12. CASE Quit
  <2>1. /\ UNCHANGED <<file, want, excuse>> /\ saving = NoSave /\ saving' = NoSave
    BY <1>12 DEF Quit, MainWindowFree, Idle, Restart
  <2> QED
    BY <1>5, <2>1, Blanks
<1>13. CASE Crash
  <2>0. UNCHANGED <<file, want>> /\ saving' = NoSave
    BY <1>13 DEF Crash, Restart
  <2>1. ASSUME NEW m \in Names, want[m] # "", excuse'[m] = "" PROVE Good(m)
    <3>1. CASE saving.stage = "none"
      <4>1. saving = NoSave /\ excuse' = excuse
        BY <1>13, <3>1 DEF Crash, FormInv
      <4> QED
        BY <1>2, <1>4, <2>1, <4>1
    <3>2. CASE saving.stage = "keys"
      <4>1. excuse' = Mark(HalfRenamed, "renamed")
        BY <1>13, <3>2 DEF Crash
      <4>2. excuse[m] = ""
        BY <2>1, <4>1 DEF Mark
      <4>3. Kept(m)
        BY <1>2, <2>1, <4>2
      <4> QED
        BY <2>1, <3>2, <4>1, <4>3, GivenUp
    <3>3. CASE saving.stage = "write"
      <4>1. excuse' = Mark({saving.to} \union (IF Moved THEN {saving.of} ELSE {}), "torn")
        BY <1>13, <3>3 DEF Crash
      <4>2. excuse[m] = ""
        BY <2>1, <4>1 DEF Mark
      <4>3. Kept(m)
        BY <1>2, <2>1, <4>2
      <4> QED
        BY <2>1, <3>3, <4>1, <4>3, Torn
    <3> QED
      BY <1>0, <3>1, <3>2, <3>3 DEF SaveTypes
  <2> QED
    BY <1>6, <2>0, <2>1, Blanks
<1>14. CASE UNCHANGED vars
  BY <1>3, <1>14 DEF vars, profileVars
<1> QED
  BY <1>7, <1>8, <1>9, <1>10, <1>11, <1>12, <1>13, <1>14, Steps

-----------------------------------------------------------------------------
(* The theorems.                                                           *)

LEMMA InitStore ==
  ASSUME StoreInit
  PROVE  StoreInv
<1>1. PICK stored \in [Names -> Secrets0], present \in SUBSET Names :
    /\ \A n \in Names : n \notin present => stored[n] = ""
    /\ origin = [key |-> "own", iv |-> "own"]
    /\ file = [n \in Names |-> IF n \in present
                               THEN [name |-> n, pass |-> Encrypt(stored[n], origin)]
                               ELSE NoFile]
    /\ \/ conf = [store |-> FALSE, keys |-> origin] /\ ring = NoKey
       \/ conf = [store |-> TRUE, keys |-> NoKey] /\ ring = origin
    /\ disk = conf
    /\ locked = FALSE
    /\ editor = NoForm
    /\ question = NoForm
    /\ settings = NoWindow
    /\ saves = <<>>
    /\ saving = NoSave
    /\ want = stored
    /\ excuse = [n \in Names |-> ""]
    /\ moves = {}
  BY DEF StoreInit
<1>10. /\ origin = [key |-> "own", iv |-> "own"]
       /\ \/ conf = [store |-> FALSE, keys |-> origin] /\ ring = NoKey
          \/ conf = [store |-> TRUE, keys |-> NoKey] /\ ring = origin
       /\ disk = conf /\ settings = NoWindow /\ saves = <<>> /\ moves = {}
  BY <1>1, Zenon
<1>2. origin \in KeyPairs /\ NoKey \in KeyPairs
  BY <1>10 DEF KeyPairs, Halves, NoKey
<1>3. NoCipher \in Ciphers
  BY <1>2 DEF NoCipher, Ciphers
<1>4. NoFile \in [name: Names0, pass: Ciphers] /\ NoForm \in Forms
  BY <1>3 DEF NoFile, NoForm, Names0, Secrets0, Forms
<1>5. StoreTypeOK
  <2>1. conf \in Confs
    <3>1. conf = [store |-> FALSE, keys |-> origin] \/ conf = [store |-> TRUE, keys |-> NoKey]
      BY <1>10, Zenon
    <3>2. \A b \in BOOLEAN, k \in KeyPairs : [store |-> b, keys |-> k] \in Confs
      BY DEF Confs
    <3> QED
      BY <1>2, <3>1, <3>2, Zenon
  <2>2. KeyTypes
    <3>1. NoWindow \in Windows
      BY <1>2 DEF NoWindow, Windows
    <3>2. disk \in Confs /\ ring \in KeyPairs
      BY <1>2, <1>10, <2>1
    <3> QED
      BY <1>10, <2>1, <3>1, <3>2 DEF KeyTypes
  <2>3. NoSave \in SaveTypes /\ NoSave.stage = "none"
    BY <1>2 DEF NoSave, SaveTypes, Names0, Secrets0
  <2>4. file \in [Names -> [name: Names0, pass: Ciphers]]
    <3>1. \A n \in Names : Encrypt(stored[n], origin) \in Ciphers
      BY <1>2, <1>3 DEF Encrypt, Ciphers, Secrets0
    <3>2. \A n \in Names : [name |-> n, pass |-> Encrypt(stored[n], origin)]
                             \in [name: Names0, pass: Ciphers]
      BY <3>1 DEF Names0
    <3> QED
      BY <1>1, <1>4, <3>2
  <2>5. excuse \in [Names -> Reasons]
    BY <1>1 DEF Reasons
  <2>6. ProfileTypes
    BY <1>1, <1>4, <2>3, <2>4, <2>5 DEF ProfileTypes
  <2> QED
    BY <1>1, <1>2, <2>2, <2>6, TypeParts
<1>6. FormInv
  <2>1. \A n \in Names : file[n] # NoFile => file[n].name \in Names
    BY <1>1
  <2> QED
    BY <1>1, <2>1, Blanks DEF FormInv
<1>7. KeyInv
  <2>1. OwnHalves(origin) /\ OwnHalves(NoKey)
    BY <1>10 DEF OwnHalves, NoKey
  <2>2. KeysOf(conf) = origin
    BY <1>10 DEF KeysOf
  <2>3. OwnHalves(ring) /\ OwnHalves(conf.keys) /\ ~settings.open
    BY <1>10, <2>1 DEF NoWindow
  <2> QED
    BY <1>10, <2>2, <2>3 DEF KeyInv, SaveInv
<1>8. NamesAgree
  <2>1. \A n \in Names : file[n] = NoFile \/ file[n].name = n
    BY <1>1
  <2> QED
    BY <2>1 DEF NamesAgree
<1>9. SecretInv
  <2>1. ASSUME NEW n \in Names, want[n] # "" PROVE Good(n)
    <3>1. n \in present /\ want[n] = stored[n]
      BY <1>1, <2>1
    <3>2. file[n] = [name |-> n, pass |-> Encrypt(stored[n], origin)]
      BY <1>1, <3>1
    <3> QED
      BY <3>1, <3>2 DEF Good
  <2> QED
    <3>1. saving.stage # "write"
      BY <1>1, Blanks
    <3> QED
      BY <2>1, <3>1 DEF SecretInv
<1> QED
  BY <1>5, <1>6, <1>7, <1>8, <1>9 DEF StoreInv

\* The inductive invariant of the store.
THEOREM StoreInvariant == Spec => []StoreInv
<1>1. StoreInv /\ [Next]_vars => StoreInv'
  BY TypeStep, FormStep, KeyStep, NamesStep, SecretStep DEF StoreInv
<1> QED
  BY InitStore, <1>1, PTL DEF Spec

\* Files, windows, keys and saves are of the right type, and what is about to
\* be written is encrypted with a key that can be used.
THEOREM StoreTyped == Spec => []StoreTypeOK
<1>1. StoreInv => StoreTypeOK
  BY DEF StoreInv
<1> QED
  BY StoreInvariant, <1>1, PTL

\* Moving the key between main.conf and the keyring neither loses it nor
\* replaces it, for the GUI and for the VPN processes that read the disk.
THEOREM KeyIsKept == Spec => []KeyKept
<1>1. StoreInv => KeyKept
  BY DEF StoreInv, KeyInv, KeyKept
<1> QED
  BY StoreInvariant, <1>1, PTL

\* The file of a profile is called what it says inside.
THEOREM ProfilesFound == Spec => []NamesAgree
<1>1. StoreInv => NamesAgree
  BY DEF StoreInv
<1> QED
  BY StoreInvariant, <1>1, PTL

\* Every VPN finds the password that was stored for it, under the key that is
\* in use now.
THEOREM SecretsAreKept == Spec => []SecretsKept
<1>1. ASSUME StoreInv PROVE SecretsKept
  <2> SUFFICES ASSUME NEW n \in Names, want[n] # "", excuse[n] = "", moves = {},
                      Available(conf), n \notin {saving.to, saving.of}
               PROVE  ReadSecret(n, conf) = want[n]
    BY DEF SecretsKept
  <2>1. Good(n)
    BY <1>1 DEF StoreInv, SecretInv
  <2>2. KeysOf(conf) = origin
    BY <1>1, AvailableIsOwn DEF StoreInv
  <2>3. file[n].pass = Encrypt(want[n], origin)
    BY <2>1, GoodIsAFile, Zenon
  <2>4. Decrypt(Encrypt(want[n], origin), origin) = want[n]
    BY Decrypted, Zenon
  <2> QED
    BY <2>2, <2>3, <2>4, Zenon DEF ReadSecret
<1> QED
  BY StoreInvariant, <1>1, PTL

=============================================================================
