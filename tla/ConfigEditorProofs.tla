-------------------------- MODULE ConfigEditorProofs --------------------------
(***************************************************************************)
(* The configuration editor for any configurations, apps and bounds: no     *)
(* save wipes the apps of a configuration, and none changes the kiosk of    *)
(* its devices behind the dialog's back. Both rest on how the draft, the    *)
(* baseline and the row on the server hang together while the apps are      *)
(* still to come, others save, and an earlier save is still under way.      *)
(***************************************************************************)
EXTENDS ConfigEditor, TLAPS

\* What has been spent of the bounds, and the ids handed out.
BudgetOK == budget \in [edits : Nat, faults : Nat, others : Nat, saves : Nat, created : SUBSET Fresh]

\* A row carries its id, in the list too; an id is handed out once.
RowsNamed ==
    /\ \A i \in Ids : configuration[i] # NoConfig => configuration[i].id = i
    /\ \A i \in Ids : configs[i] # NoConfig => configs[i].id = i
    /\ \A i \in Fresh \ {None} :
                        \/ configuration[i] # NoConfig \/ configs[i] # NoConfig
                        \/ draft.id = i \/ put.cfg.id = i
                        => i \in budget.created

\* An editor that edits a row has that row's id in its draft; while its apps are fetched it
\* edits one; the dialog is open over an editor with its apps only, and one that has not
\* got them has a row to ask them of.
Wired ==
    /\ initial.id # None => draft.id = initial.id
    /\ appsFetch = "pending" => initial.id # None
    /\ confirmKeys # {} => isOpen /\ appsReady
    /\ ~isOpen => entrusted = {}
    /\ isOpen => appsReady \/ ~isNew \/ draft.id # None

\* The apps entrusted to the editor are still on the server, and in the draft once it can save.
Kept ==
    /\ isOpen /\ draft.id # None => entrusted \subseteq Assigned(configuration[draft.id])
    /\ isOpen /\ draft.id # None /\ appsReady => entrusted \subseteq Assigned(draft)

\* Unless the row changed behind the editor, its baseline is the row, but for late apps.
Compared ==
    isOpen /\ initial.id # None /\ ~outdated =>
        /\ baseline.kioskMode = configuration[initial.id].kioskMode
        /\ baseline.image = configuration[initial.id].image
        /\ appsReady => baseline.applications = configuration[initial.id].applications

\* A save under way that was not confirmed changes nothing the kiosk depends on.
Asked ==
    put.st = "sent" /\ put.edit =>
        /\ put.cfg.id # None
        /\ ~put.outdated /\ ~put.confirmed /\ put.count # 0 /\ configuration[put.cfg.id] # NoConfig
            => kioskAffectingChanges(configuration[put.cfg.id], put.cfg) = {}

IInv ==
    /\ EditorTypes /\ BudgetOK /\ RowsNamed /\ Wired /\ Kept /\ Compared /\ Asked /\ NoWipe

-----------------------------------------------------------------------------
(* Rows: what changing one field does to the others. *)

LEMMA NoConfigIsRow == NoConfig \in Config /\ NoApps \in [Apps -> Actions] /\ NoConfig.id = None
  BY DEF NoConfig, Config, NoApps, Actions

LEMMA WithKiosk ==
  \A c \in Config, b \in BOOLEAN :
    /\ [c EXCEPT !.kioskMode = b] \in Config
    /\ [c EXCEPT !.kioskMode = b].id = c.id
    /\ [c EXCEPT !.kioskMode = b].applications = c.applications
  BY DEF Config

LEMMA WithImage ==
  \A c \in Config, b \in BOOLEAN :
    /\ [c EXCEPT !.image = b] \in Config
    /\ [c EXCEPT !.image = b].id = c.id
    /\ [c EXCEPT !.image = b].applications = c.applications
  BY DEF Config

LEMMA WithName ==
  \A c \in Config, n \in Names :
    /\ [c EXCEPT !.name = n] \in Config
    /\ [c EXCEPT !.name = n].id = c.id
    /\ [c EXCEPT !.name = n].applications = c.applications
    /\ [c EXCEPT !.name = n].name = n
  BY DEF Config

LEMMA WithApps ==
  \A c \in Config, m \in [Apps -> Actions] :
    /\ [c EXCEPT !.applications = m] \in Config
    /\ [c EXCEPT !.applications = m].id = c.id
    /\ [c EXCEPT !.applications = m].kioskMode = c.kioskMode
    /\ [c EXCEPT !.applications = m].image = c.image
    /\ [c EXCEPT !.applications = m].applications = m
  BY DEF Config

LEMMA WithId ==
  \A c \in Config, i \in Ids \cup {None} :
    /\ [c EXCEPT !.id = i] \in Config
    /\ [c EXCEPT !.id = i].id = i
    /\ [c EXCEPT !.id = i].kioskMode = c.kioskMode
    /\ [c EXCEPT !.id = i].image = c.image
    /\ [c EXCEPT !.id = i].applications = c.applications
  BY DEF Config

LEMMA WithOneAction ==
  \A c \in Config, a \in Apps, action \in Actions :
    /\ WithAction(c, a, action) \in Config
    /\ WithAction(c, a, action).id = c.id
    /\ WithAction(c, a, action).kioskMode = c.kioskMode
    /\ WithAction(c, a, action).image = c.image
    /\ WithAction(c, a, action).applications = [c.applications EXCEPT ![a] = action]
  <1> TAKE c \in Config, a \in Apps, action \in Actions
  <1>1. c.applications \in [Apps -> Actions]
    BY DEF Config
  <1>2. [c.applications EXCEPT ![a] = action] \in [Apps -> Actions]
    BY <1>1
  <1> QED BY <1>2, WithApps DEF WithAction

\* The clone of any row is an open editor's, without an id.
LEMMA Clone ==
  \A c \in Config : /\ cloneForNew(c) \in Config /\ cloneForNew(c).id = None
                    /\ cloneForNew(c) # NoConfig
  <1> TAKE c \in Config
  <1> DEFINE n == IF c = Blank THEN "" ELSE "copy"
  <1>1. n \in Names /\ n # None
    BY DEF Names, None
  <1>2. cloneForNew(c) = [c EXCEPT !.id = None, !.name = n]
    BY DEF cloneForNew
  <1>3. cloneForNew(c) \in Config /\ cloneForNew(c).id = None /\ cloneForNew(c).name = n
    BY <1>1, <1>2 DEF Config
  <1>4. NoConfig.name = None
    BY DEF NoConfig
  <1> QED BY <1>1, <1>3, <1>4

\* What another administrator may make of a row: another row of the same id.
LEMMA OtherRows ==
  ASSUME NEW i \in Own, configuration \in [Ids -> Config],
         NEW c \in {[configuration[i] EXCEPT !.kioskMode = ~@]} \cup
              {WithAction(configuration[i], a, IF a \in Assigned(configuration[i]) THEN "unassigned" ELSE "install") : a \in Apps}
  PROVE  c \in Config /\ c.id = configuration[i].id
  <1>1. i \in Ids /\ configuration[i] \in Config
    BY DEF Ids
  <1>2. CASE c = [configuration[i] EXCEPT !.kioskMode = ~configuration[i].kioskMode]
    <2>1. (~configuration[i].kioskMode) \in BOOLEAN
      OBVIOUS
    <2> QED BY <1>1, <1>2, <2>1, WithKiosk
  <1>3. ASSUME NEW a \in Apps,
               c = WithAction(configuration[i], a, IF a \in Assigned(configuration[i]) THEN "unassigned" ELSE "install")
        PROVE  c \in Config /\ c.id = configuration[i].id
    <2> DEFINE action == IF a \in Assigned(configuration[i]) THEN "unassigned" ELSE "install"
    <2>1. action \in Actions
      BY DEF Actions
    <2>2. c = WithAction(configuration[i], a, action)
      BY <1>3
    <2> HIDE DEF action
    <2> QED BY <1>1, <2>1, <2>2, WithOneAction
  <1> QED BY <1>2, <1>3

LEMMA BlankIsRow == Blank \in Config
  BY DEF Blank, NoConfig, Config, Names, NoApps, Actions, None

-----------------------------------------------------------------------------
(* Types. *)

LEMMA CountIsSmall ==
  ASSUME EditorTypes
  PROVE  affectedDeviceCount(initial) \in -1..1
  <1>1. initial.id \in Ids \cup {None}
    BY DEF EditorTypes, Config
  <1>2. CASE initial.id = None
    BY <1>2 DEF affectedDeviceCount
  <1>3. CASE initial.id # None
    <2>1. sync[initial.id] \in SyncRow \cup {NoRow}
      BY <1>1, <1>3 DEF EditorTypes
    <2>2. CASE sync[initial.id] = NoRow
      BY <1>3, <2>2 DEF affectedDeviceCount
    <2>3. CASE sync[initial.id] \in SyncRow /\ sync[initial.id] # NoRow
      BY <1>3, <2>3 DEF affectedDeviceCount, SyncRow
    <2> QED BY <2>1, <2>2, <2>3
  <1> QED BY <1>2, <1>3

LEMMA SpendTypes ==
  ASSUME BudgetOK, NEW what \in {"edits", "faults", "others"}, NEW max, Spend(what, max)
  PROVE  BudgetOK' /\ budget'.created = budget.created
  BY DEF BudgetOK, Spend

LEMMA WriteTypes ==
  ASSUME BudgetOK, NEW ids \in SUBSET Fresh, Write(ids)
  PROVE  BudgetOK' /\ budget'.created = budget.created \cup ids
  <1> DEFINE b == [edits |-> budget.edits, faults |-> budget.faults, others |-> budget.others,
                   saves |-> budget.saves + 1, created |-> budget.created \cup ids]
  <1>1. budget' = b
    BY DEF BudgetOK, Write
  <1>2. budget.created \cup ids \in SUBSET Fresh /\ budget.saves + 1 \in Nat
    BY DEF BudgetOK
  <1>3. b \in [edits : Nat, faults : Nat, others : Nat, saves : Nat, created : SUBSET Fresh]
    BY <1>2 DEF BudgetOK
  <1> QED BY <1>1, <1>3 DEF BudgetOK

LEMMA MountTypes ==
  ASSUME NEW c \in Config, Mount(c)
  PROVE  /\ initial' \in Config /\ draft' \in Config /\ baseline' \in Config
         /\ appsReady' \in BOOLEAN /\ upload' \in BOOLEAN
         /\ appsFetch' \in {"none", "pending", "failed"} /\ mode' \in {"COLOR", "IMAGE"}
         /\ confirmKeys' \subseteq KIOSK_AFFECTING_KEYS
  BY DEF Mount, getDesignMode

LEMMA UnmountTypes ==
  ASSUME Unmount
  PROVE  /\ initial' \in Config /\ draft' \in Config /\ baseline' \in Config
         /\ readOnly' \in BOOLEAN /\ appsReady' \in BOOLEAN /\ upload' \in BOOLEAN
         /\ appsFetch' \in {"none", "pending", "failed"} /\ mode' \in {"COLOR", "IMAGE"}
         /\ confirmKeys' \subseteq KIOSK_AFFECTING_KEYS
         /\ entrusted' \subseteq Apps /\ outdated' \in BOOLEAN
  BY NoConfigIsRow DEF Unmount

LEMMA SentTypes ==
  ASSUME EditorTypes, BudgetOK, NEW confirmed \in BOOLEAN, doSave(confirmed)
  PROVE  put' \in Put /\ BudgetOK' /\ budget'.created = budget.created
  <1>1. BudgetOK' /\ budget'.created = budget.created
    BY WriteTypes DEF doSave
  <1>2. put' \in Put
    BY CountIsSmall DEF doSave, EditorTypes, Put
  <1> QED BY <1>1, <1>2

LEMMA TypesInit == EditorInit => EditorTypes /\ BudgetOK
  <1> SUFFICES ASSUME EditorInit
               PROVE  EditorTypes /\ BudgetOK
    OBVIOUS
  <1>1. \A i \in Ids : Seeded(i) \in Config
    <2> TAKE i \in Ids
    <2>1. [a \in Apps |-> "install"] \in [Apps -> Actions]
      BY DEF Actions
    <2>2. i \in Ids \cup {None} /\ i \in Names \cup {None}
      BY DEF Names
    <2>3. CASE i \in Own
      <3>1. Seeded(i) = [id |-> i, name |-> i, kioskMode |-> TRUE, image |-> FALSE,
                         applications |-> [a \in Apps |-> "install"]]
        BY <2>3 DEF Seeded
      <3> QED BY <2>1, <2>2, <3>1 DEF Config
    <2>4. CASE i \notin Own
      <3>0. (i \in Own) = FALSE
        BY <2>4
      <3>1. Seeded(i) = [id |-> i, name |-> i, kioskMode |-> FALSE, image |-> FALSE,
                         applications |-> [a \in Apps |-> "install"]]
        BY <3>0, Zenon DEF Seeded
      <3> QED BY <2>1, <2>2, <3>1 DEF Config
    <2> QED BY <2>3, <2>4
  <1>2. configuration \in [Ids -> Config] /\ configs \in [Ids -> Config]
    BY <1>1, NoConfigIsRow DEF EditorInit
  <1>3. sync \in [Ids -> SyncRow \cup {NoRow}]
    BY DEF EditorInit
  <1>4. put \in Put
    BY NoConfigIsRow DEF EditorInit, NoPut, Put
  <1>5. BudgetOK
    BY DEF EditorInit, BudgetOK
  <1> QED BY <1>2, <1>3, <1>4, <1>5, NoConfigIsRow DEF EditorInit, EditorTypes

LEMMA TypesStep ==
  ASSUME EditorTypes, BudgetOK, Wired, [EditorNext]_editorPageVars
  PROVE  EditorTypes' /\ BudgetOK'
  <1> USE DEF pageVars, editorVars, history
  <1>a. configuration \in [Ids -> Config] /\ configs \in [Ids -> Config] /\ initial \in Config
        /\ draft \in Config /\ baseline \in Config /\ put \in Put
    BY DEF EditorTypes
  <1>1. CASE UNCHANGED editorPageVars
    BY <1>1 DEF editorPageVars, EditorTypes, BudgetOK
  <1>2. CASE load
    <2>1. configs' \in [Ids -> Config]
      <3>1. \A i \in Ids : [configuration EXCEPT ![i].applications = NoApps] \in [Ids -> Config]
        <4> TAKE i \in Ids
        <4>1. [configuration[i] EXCEPT !.applications = NoApps] \in Config
          BY <1>a, WithApps, NoConfigIsRow
        <4>2. [configuration EXCEPT ![i].applications = NoApps]
                = [configuration EXCEPT ![i] = [configuration[i] EXCEPT !.applications = NoApps]]
          OBVIOUS
        <4> QED BY <1>a, <4>1, <4>2
      <3>2. [i \in Ids |-> NoConfig] \in [Ids -> Config]
        BY NoConfigIsRow
      <3> QED BY <1>2, <1>a, <3>1, <3>2 DEF load
    <2>2. sync' \in [Ids -> SyncRow \cup {NoRow}]
      <3>1. ASSUME SyncSummary PROVE sync' \in [Ids -> SyncRow \cup {NoRow}]
        <4>1. Unassigned \in SyncRow
          BY DEF Unassigned, SyncRow
        <4>2. CASE \E r \in SyncRow : sync' = [i \in Ids |-> IF configuration[i] = NoConfig THEN NoRow
                                                    ELSE IF i \in Own THEN r ELSE Unassigned]
          BY <4>1, <4>2
        <4>3. CASE UNCHANGED sync
          BY <4>3 DEF EditorTypes
        <4> QED BY <3>1, <4>2, <4>3 DEF SyncSummary
      <3>2. CASE UNCHANGED sync
        BY <3>2 DEF EditorTypes
      <3> QED BY <1>2, <3>1, <3>2 DEF load
    <2>3. BudgetOK'
      <3>1. CASE UNCHANGED budget
        BY <3>1 DEF BudgetOK
      <3>2. CASE Fault
        BY <3>2, SpendTypes DEF Fault
      <3> QED BY <1>2, <3>1, <3>2 DEF load, SyncSummary
    <2> QED BY <1>2, <2>1, <2>2, <2>3 DEF load, EditorTypes
  <1>3. ASSUME NEW i \in Ids, CopyModal(i) PROVE EditorTypes' /\ BudgetOK'
    <2>1. PICK n \in Unused :
            /\ configuration' = [configuration EXCEPT ![n] = [configuration[i] EXCEPT !.id = n, !.name = "copy"]]
            /\ Write({n})
      BY <1>3 DEF CopyModal
    <2>2. n \in Fresh /\ n \in Ids
      BY DEF Unused, Ids
    <2>3. [configuration[i] EXCEPT !.id = n, !.name = "copy"] \in Config
      BY <1>a, <2>2 DEF Config, Names
    <2>4. configuration' \in [Ids -> Config]
      BY <1>a, <2>1, <2>2, <2>3
    <2>5. BudgetOK'
      BY <2>1, <2>2, WriteTypes
    <2> QED BY <1>3, <2>4, <2>5 DEF CopyModal, EditorTypes
  <1>4. ASSUME NEW i \in Ids, doDelete(i) PROVE EditorTypes' /\ BudgetOK'
    <2>1. configuration' \in [Ids -> Config]
      BY <1>4, <1>a, NoConfigIsRow DEF doDelete
    <2>2. BudgetOK'
      BY <1>4, WriteTypes DEF doDelete
    <2> QED BY <1>4, <2>1, <2>2 DEF doDelete, EditorTypes
  <1>5. ASSUME NEW i \in Ids, Edit(i) PROVE EditorTypes' /\ BudgetOK'
    <2>1. configs[i] \in Config
      BY <1>a
    <2>2. readOnly' \in BOOLEAN /\ outdated' \in BOOLEAN /\ entrusted' \subseteq Apps
      BY <1>5 DEF Edit, isLocked, Assigned
    <2> QED BY <1>5, <2>1, <2>2, MountTypes DEF Edit, EditorTypes, BudgetOK
  <1>6. CASE NewChooser
    <2>1. PICK base \in {Blank} \cup {configs[i] : i \in {j \in Ids : isLocked(configs[j])}} :
            Mount(cloneForNew(base))
      BY <1>6 DEF NewChooser
    <2>2. cloneForNew(base) \in Config
      BY <1>a, BlankIsRow, Clone
    <2> QED BY <1>6, <2>1, <2>2, MountTypes DEF NewChooser, EditorTypes, BudgetOK
  <1>7. CASE onDuplicate
    BY <1>7, <1>a, Clone DEF onDuplicate, EditorTypes, BudgetOK
  <1>8. CASE onCancel
    BY <1>8, UnmountTypes DEF onCancel, EditorTypes, BudgetOK
  <1>9. CASE AppsAnswer
    <2>1. initial.id \in Ids
      BY <1>9, <1>a DEF Wired, AppsAnswer, Config
    <2>2. configuration[initial.id].applications \in [Apps -> Actions]
      BY <1>a, <2>1 DEF Config
    <2>3. draft' \in Config /\ baseline' \in Config
      BY <1>9, <1>a, <2>2, WithApps DEF AppsAnswer
    <2> QED BY <1>9, <2>3 DEF AppsAnswer, EditorTypes, BudgetOK
  <1>10. CASE AppsFails
    <2>1. BudgetOK'
      <3>1. CASE UNCHANGED budget
        BY <3>1 DEF BudgetOK
      <3>2. CASE Fault
        BY <3>2, SpendTypes DEF Fault
      <3> QED BY <1>10, <3>1, <3>2 DEF AppsFails
    <2> QED BY <1>10, <2>1 DEF AppsFails, EditorTypes
  <1>11. CASE Retry
    BY <1>11 DEF Retry, EditorTypes, BudgetOK
  <1>12. ASSUME Editable PROVE BudgetOK'
    BY <1>12, SpendTypes DEF Editable
  <1>13. CASE setField
    <2>1. (~draft.kioskMode) \in BOOLEAN /\ "copy" \in Names
      BY DEF Names
    <2>2. [draft EXCEPT !.kioskMode = ~draft.kioskMode] \in Config
          /\ [draft EXCEPT !.name = "copy"] \in Config
      BY <1>a, <2>1, WithKiosk, WithName
    <2>3. draft' \in Config
      BY <1>13, <2>2 DEF setField, FieldControl
    <2> QED BY <1>12, <1>13, <2>3 DEF setField, EditorTypes
  <1>14. CASE addApps
    <2>1. PICK chosen \in AppPicker :
            draft' = [draft EXCEPT !.applications =
                         [a \in Apps |-> IF a \in chosen THEN "install" ELSE draft.applications[a]]]
      BY <1>14 DEF addApps
    <2>2. [a \in Apps |-> IF a \in chosen THEN "install" ELSE draft.applications[a]] \in [Apps -> Actions]
      BY <1>a DEF Config, Actions
    <2>3. draft' \in Config
      BY <1>a, <2>1, <2>2, WithApps
    <2> QED BY <1>12, <1>14, <2>3 DEF addApps, EditorTypes
  <1>15. ASSUME NEW a \in Apps, removeApp(a) PROVE EditorTypes' /\ BudgetOK'
    <2>1. "unassigned" \in Actions
      BY DEF Actions
    <2>2. draft' \in Config
      BY <1>15, <1>a, <2>1, WithOneAction DEF removeApp
    <2> QED BY <1>12, <1>15, <2>2 DEF removeApp, AppRow, EditorTypes
  <1>16. ASSUME NEW a \in Apps, NEW action \in {"install", "remove"}, setAppAction(a, action)
         PROVE  EditorTypes' /\ BudgetOK'
    <2>1. action \in Actions
      BY DEF Actions
    <2>2. draft' \in Config
      BY <1>16, <1>a, <2>1, WithOneAction DEF setAppAction
    <2> QED BY <1>12, <1>16, <2>2 DEF setAppAction, AppRow, EditorTypes
  <1>17. CASE handleModeChange
    <2>1. (draft.image /\ mode' = "IMAGE") \in BOOLEAN
      OBVIOUS
    <2>2. draft' \in Config
      BY <1>17, <1>a, <2>1, WithImage DEF handleModeChange
    <2>3. mode' \in {"COLOR", "IMAGE"}
      BY <1>17 DEF handleModeChange
    <2> QED BY <1>12, <1>17, <2>2, <2>3 DEF handleModeChange, EditorTypes
  <1>18. CASE UploadStart
    BY <1>12, <1>18 DEF UploadStart, EditorTypes
  <1>19. CASE UploadAnswers
    <2>1. CASE draft' = [draft EXCEPT !.image = TRUE] /\ UNCHANGED budget
      <3>1. draft' \in Config
        BY <1>a, <2>1, WithImage
      <3> QED BY <1>19, <2>1, <3>1 DEF UploadAnswers, EditorTypes, BudgetOK
    <2>2. CASE Fault /\ UNCHANGED draft
      <3>1. BudgetOK'
        BY <2>2, SpendTypes DEF Fault
      <3> QED BY <1>19, <2>2, <3>1 DEF UploadAnswers, EditorTypes
    <2> QED BY <1>19, <2>1, <2>2 DEF UploadAnswers
  <1>20. CASE requestSave
    <2>1. CASE MustConfirm
      <3>1. ChangedKeys \subseteq KIOSK_AFFECTING_KEYS
        BY DEF ChangedKeys, kioskAffectingChanges
      <3> QED BY <1>20, <2>1, <3>1 DEF requestSave, EditorTypes, BudgetOK
    <2>2. CASE ~MustConfirm
      <3>1. doSave(FALSE) /\ UNCHANGED confirmKeys
        BY <1>20, <2>2 DEF requestSave
      <3>2. put' \in Put /\ BudgetOK'
        BY <3>1, SentTypes
      <3> QED BY <1>20, <3>1, <3>2 DEF requestSave, EditorTypes
    <2> QED BY <2>1, <2>2
  <1>21. CASE KioskChangeConfirm
    <2>1. CASE UNCHANGED <<put, budget>>
      BY <1>21, <2>1 DEF KioskChangeConfirm, EditorTypes, BudgetOK
    <2>2. CASE doSave(TRUE)
      <3>1. put' \in Put /\ BudgetOK'
        BY <2>2, SentTypes
      <3> QED BY <1>21, <3>1 DEF KioskChangeConfirm, EditorTypes
    <2> QED BY <1>21, <2>1, <2>2 DEF KioskChangeConfirm
  <1>22. CASE PutApplied
    <2>1. PICK i \in IF put.cfg.id = None THEN Unused ELSE {put.cfg.id} :
            /\ configuration' = [configuration EXCEPT ![i] = [put.cfg EXCEPT !.id = i]]
            /\ Elsewhere(i, put.cfg)
            /\ budget' = [budget EXCEPT !.created = @ \cup ({i} \cap Fresh)]
      BY <1>22 DEF PutApplied
    <2>2. put.cfg \in Config
      BY <1>a DEF Put
    <2>3. i \in Ids
      BY <2>1, <2>2 DEF Config, Unused, Ids
    <2>4. configuration' \in [Ids -> Config]
      BY <1>a, <2>1, <2>2, <2>3, WithId
    <2>5. entrusted' \subseteq Apps /\ outdated' \in BOOLEAN
      BY <2>1 DEF Elsewhere, EditorTypes
    <2>6. BudgetOK'
      BY <2>1 DEF BudgetOK
    <2>7. put' \in Put
      BY <1>22, <1>a DEF PutApplied, Put
    <2> QED BY <1>22, <2>4, <2>5, <2>6, <2>7 DEF PutApplied, EditorTypes
  <1>23. CASE PutFails
    <2>1. put' \in Put
      BY <1>23, NoConfigIsRow DEF PutFails, NoPut, Put
    <2>2. BudgetOK'
      <3>1. CASE UNCHANGED budget
        BY <3>1 DEF BudgetOK
      <3>2. CASE Fault
        BY <3>2, SpendTypes DEF Fault
      <3> QED BY <1>23, <3>1, <3>2 DEF PutFails
    <2> QED BY <1>23, <2>1, <2>2 DEF PutFails, EditorTypes
  <1>24. CASE onSaved
    <2>1. put' \in Put
      BY <1>24, NoConfigIsRow DEF onSaved, NoPut, Put
    <2> QED BY <1>24, <2>1, UnmountTypes DEF onSaved, EditorTypes, BudgetOK
  <1>25. ASSUME NEW i \in Own, OtherSave(i) PROVE EditorTypes' /\ BudgetOK'
    <2>1. PICK c \in {[configuration[i] EXCEPT !.kioskMode = ~@]} \cup
              {WithAction(configuration[i], a, IF a \in Assigned(configuration[i]) THEN "unassigned" ELSE "install") : a \in Apps} :
            configuration' = [configuration EXCEPT ![i] = c] /\ Elsewhere(i, c)
      BY <1>25 DEF OtherSave
    <2>2. c \in Config
      BY <1>a, <2>1, OtherRows
    <2>3. configuration' \in [Ids -> Config]
      BY <1>a, <2>1, <2>2 DEF Ids
    <2>4. entrusted' \subseteq Apps /\ outdated' \in BOOLEAN
      BY <2>1 DEF Elsewhere, EditorTypes
    <2>5. put' \in Put
      BY <1>25, <1>a DEF OtherSave, Put
    <2>6. BudgetOK'
      BY <1>25, SpendTypes DEF OtherSave
    <2> QED BY <1>25, <2>3, <2>4, <2>5, <2>6 DEF OtherSave, EditorTypes
  <1> QED BY <1>1, <1>2, <1>3, <1>4, <1>5, <1>6, <1>7, <1>8, <1>9, <1>10, <1>11, <1>13, <1>14, <1>15,
             <1>16, <1>17, <1>18, <1>19, <1>20, <1>21, <1>22, <1>23, <1>24, <1>25 DEF EditorNext

-----------------------------------------------------------------------------
(* Who changes the rows, the list, the draft's id and the ids handed out. *)

LEMMA CreatedGrows ==
  ASSUME BudgetOK, [EditorNext]_editorPageVars
  PROVE  budget.created \subseteq budget'.created
  <1> USE DEF pageVars, editorVars, history
  <1>1. ASSUME NEW what \in {"edits", "faults", "others"}, NEW max, Spend(what, max)
        PROVE  budget.created \subseteq budget'.created
    BY <1>1, SpendTypes
  <1>2. ASSUME NEW ids \in SUBSET Fresh, Write(ids)
        PROVE  budget.created \subseteq budget'.created
    BY <1>2, WriteTypes
  <1>3. CASE UNCHANGED budget
    BY <1>3
  <1>4. CASE \/ UNCHANGED editorPageVars \/ (\E i \in Ids : Edit(i)) \/ NewChooser \/ onDuplicate
             \/ onCancel \/ AppsAnswer \/ Retry \/ onSaved
    BY <1>3, <1>4 DEF editorPageVars, Edit, NewChooser, onDuplicate, onCancel, AppsAnswer, Retry, onSaved
  <1>5. CASE load \/ AppsFails \/ UploadAnswers \/ PutFails
    BY <1>1, <1>3, <1>5 DEF load, SyncSummary, AppsFails, UploadAnswers, PutFails, Fault
  <1>6. CASE \/ setField \/ addApps \/ handleModeChange \/ UploadStart
             \/ \E a \in Apps : removeApp(a) \/ \E action \in {"install", "remove"} : setAppAction(a, action)
    BY <1>1, <1>6 DEF setField, addApps, handleModeChange, UploadStart, removeApp, setAppAction, AppRow, Editable
  <1>7. CASE requestSave \/ KioskChangeConfirm
    BY <1>2, <1>3, <1>7 DEF requestSave, KioskChangeConfirm, doSave
  <1>8. ASSUME NEW i \in Ids, CopyModal(i) PROVE budget.created \subseteq budget'.created
    BY <1>2, <1>8 DEF CopyModal, Unused
  <1>9. ASSUME NEW i \in Ids, doDelete(i) PROVE budget.created \subseteq budget'.created
    BY <1>2, <1>9 DEF doDelete
  <1>10. CASE PutApplied
    BY <1>10 DEF PutApplied, BudgetOK
  <1>11. ASSUME NEW i \in Own, OtherSave(i) PROVE budget.created \subseteq budget'.created
    BY <1>1, <1>11 DEF OtherSave
  <1> QED BY <1>4, <1>5, <1>6, <1>7, <1>8, <1>9, <1>10, <1>11 DEF EditorNext

\* The rows change by a copy, a deletion, a save, or another administrator.
LEMMA WhoWrites ==
  ASSUME [EditorNext]_editorPageVars
  PROVE  \/ UNCHANGED configuration
         \/ \E i \in Ids : CopyModal(i) \/ doDelete(i)
         \/ PutApplied
         \/ \E i \in Own : OtherSave(i)
  BY DEF EditorNext, editorPageVars, pageVars, editorVars, history, load, Edit, NewChooser, onDuplicate, onCancel,
         AppsAnswer, AppsFails, Retry, setField, addApps, handleModeChange, UploadStart, UploadAnswers,
         removeApp, setAppAction, requestSave, KioskChangeConfirm, PutFails, onSaved

LEMMA WhoLists ==
  ASSUME [EditorNext]_editorPageVars
  PROVE  UNCHANGED configs \/ load
  BY DEF EditorNext, editorPageVars, pageVars, editorVars, history, CopyModal, doDelete, Edit, NewChooser,
         onDuplicate, onCancel, AppsAnswer, AppsFails, Retry, setField, addApps, handleModeChange, UploadStart,
         UploadAnswers, removeApp, setAppAction, requestSave, KioskChangeConfirm, PutApplied, PutFails, onSaved,
         OtherSave

\* What one step does to the draft.
DraftStep ==
  \/ UNCHANGED <<initial, draft, baseline>>
  \/ \E i \in Ids : Edit(i)
  \/ NewChooser \/ onDuplicate \/ AppsAnswer
  \/ Unmount
  \/ Editable /\ draft'.id = draft.id /\ UNCHANGED <<initial, baseline>>
  \/ UploadAnswers

LEMMA WhoDrafts ==
  ASSUME EditorTypes, [EditorNext]_editorPageVars
  PROVE  DraftStep
  <1> USE DEF pageVars, editorVars, history
  <1>a. draft \in Config
    BY DEF EditorTypes
  <1>1. CASE setField
    BY <1>a, <1>1 DEF setField, FieldControl, DraftStep, Config
  <1>2. CASE addApps
    BY <1>a, <1>2 DEF addApps, DraftStep, Config
  <1>3. CASE handleModeChange
    BY <1>a, <1>3 DEF handleModeChange, DraftStep, Config
  <1>4. ASSUME NEW a \in Apps, removeApp(a) PROVE DraftStep
    BY <1>a, <1>4 DEF removeApp, AppRow, WithAction, DraftStep, Config
  <1>5. ASSUME NEW a \in Apps, NEW action \in {"install", "remove"}, setAppAction(a, action) PROVE DraftStep
    BY <1>a, <1>5 DEF setAppAction, AppRow, WithAction, DraftStep, Config
  <1>6. CASE NewChooser \/ onDuplicate \/ AppsAnswer \/ UploadAnswers \/ onCancel \/ onSaved
             \/ \E i \in Ids : Edit(i)
    BY <1>6 DEF onCancel, onSaved, DraftStep
  <1>7. CASE \/ UNCHANGED editorPageVars \/ load \/ AppsFails \/ Retry \/ UploadStart \/ requestSave
             \/ KioskChangeConfirm \/ PutApplied \/ PutFails \/ (\E i \in Own : OtherSave(i))
             \/ \E i \in Ids : CopyModal(i) \/ doDelete(i)
    BY <1>7 DEF editorPageVars, load, AppsFails, Retry, UploadStart, requestSave, KioskChangeConfirm, PutApplied,
                PutFails, OtherSave, CopyModal, doDelete, DraftStep
  <1> QED BY <1>1, <1>2, <1>3, <1>4, <1>5, <1>6, <1>7 DEF EditorNext

\* The request in flight changes by a save, its end, or what others save.
LEMMA WhoSends ==
  ASSUME EditorTypes, [EditorNext]_editorPageVars
  PROVE  \/ UNCHANGED put
         \/ requestSave /\ CanSave /\ ~MustConfirm /\ doSave(FALSE)
         \/ KioskChangeConfirm /\ confirmKeys # {} /\ doSave(TRUE)
         \/ PutApplied /\ put' = [put EXCEPT !.st = "saved"]
         \/ put' = NoPut
         \/ \E i \in Own : OtherSave(i)
  BY DEF EditorNext, editorPageVars, pageVars, editorVars, history, load, CopyModal, doDelete, Edit, NewChooser,
         onDuplicate, onCancel, AppsAnswer, AppsFails, Retry, setField, addApps, handleModeChange, UploadStart,
         UploadAnswers, removeApp, setAppAction, requestSave, KioskChangeConfirm, PutApplied, PutFails, onSaved

-----------------------------------------------------------------------------
(* Rows and ids. *)

LEMMA ConfigurationNamed ==
  ASSUME EditorTypes, BudgetOK, RowsNamed, [EditorNext]_editorPageVars, NEW i \in Ids,
         configuration'[i] # NoConfig
  PROVE  /\ configuration'[i].id = i
         /\ configuration[i] = NoConfig /\ i \in Fresh \ {None} => i \in budget'.created
  <1>a. configuration \in [Ids -> Config] /\ put.cfg \in Config
    BY DEF EditorTypes, Put
  <1>1. CASE UNCHANGED configuration
    BY <1>1 DEF RowsNamed
  <1>2. ASSUME NEW j \in Ids, CopyModal(j)
        PROVE  /\ configuration'[i].id = i
               /\ configuration[i] = NoConfig /\ i \in Fresh \ {None} => i \in budget'.created
    <2>1. PICK n \in Unused :
            /\ configuration' = [configuration EXCEPT ![n] = [configuration[j] EXCEPT !.id = n, !.name = "copy"]]
            /\ Write({n})
      BY <1>2 DEF CopyModal
    <2>2. n \in budget'.created /\ n \in Ids
      BY <2>1, WriteTypes DEF Unused, Ids
    <2>3. [configuration[j] EXCEPT !.id = n, !.name = "copy"].id = n
      BY <1>a DEF Config
    <2>4. CASE i = n
      BY <1>a, <2>1, <2>2, <2>3, <2>4
    <2>5. CASE i # n
      BY <1>a, <2>1, <2>2, <2>5 DEF RowsNamed
    <2> QED BY <2>4, <2>5
  <1>3. ASSUME NEW j \in Ids, doDelete(j)
        PROVE  /\ configuration'[i].id = i
               /\ configuration[i] = NoConfig /\ i \in Fresh \ {None} => i \in budget'.created
    BY <1>a, <1>3 DEF doDelete, RowsNamed
  <1>4. CASE PutApplied
    <2>1. PICK j \in IF put.cfg.id = None THEN Unused ELSE {put.cfg.id} :
            /\ put.cfg.id = None \/ configuration[j] # NoConfig
            /\ configuration' = [configuration EXCEPT ![j] = [put.cfg EXCEPT !.id = j]]
            /\ budget' = [budget EXCEPT !.created = @ \cup ({j} \cap Fresh)]
      BY <1>4 DEF PutApplied
    <2>2. j \in Ids
      BY <1>a, <2>1 DEF Config, Unused, Ids
    <2>3. [put.cfg EXCEPT !.id = j].id = j
      BY <1>a, <2>2, WithId
    <2>4. budget'.created = budget.created \cup ({j} \cap Fresh)
      BY <2>1 DEF BudgetOK
    <2>5. CASE i = j
      BY <1>a, <2>1, <2>2, <2>3, <2>4, <2>5
    <2>6. CASE i # j
      BY <1>a, <2>1, <2>2, <2>6 DEF RowsNamed
    <2> QED BY <2>5, <2>6
  <1>5. ASSUME NEW j \in Own, OtherSave(j)
        PROVE  /\ configuration'[i].id = i
               /\ configuration[i] = NoConfig /\ i \in Fresh \ {None} => i \in budget'.created
    <2>1. configuration[j] # NoConfig /\ j \in Ids
      BY <1>5 DEF OtherSave, Ids
    <2>2. PICK c \in {[configuration[j] EXCEPT !.kioskMode = ~@]} \cup
              {WithAction(configuration[j], a, IF a \in Assigned(configuration[j]) THEN "unassigned" ELSE "install") : a \in Apps} :
            configuration' = [configuration EXCEPT ![j] = c]
      BY <1>5 DEF OtherSave
    <2>3. c.id = configuration[j].id
      BY <1>a, <2>2, OtherRows
    <2>4. CASE i = j
      BY <1>a, <2>1, <2>2, <2>3, <2>4 DEF RowsNamed
    <2>5. CASE i # j
      BY <1>a, <2>1, <2>2, <2>5 DEF RowsNamed
    <2> QED BY <2>4, <2>5
  <1> QED BY <1>1, <1>2, <1>3, <1>4, <1>5, WhoWrites

LEMMA ListNamed ==
  ASSUME EditorTypes, RowsNamed, [EditorNext]_editorPageVars, NEW i \in Ids, configs'[i] # NoConfig
  PROVE  configs'[i].id = i /\ (configs[i] # NoConfig \/ configuration[i] # NoConfig)
  <1>a. configuration \in [Ids -> Config] /\ configs \in [Ids -> Config]
    BY DEF EditorTypes
  <1>1. CASE UNCHANGED configs
    BY <1>1 DEF RowsNamed
  <1>2. CASE load
    <2>1. CASE configs' = configuration
      BY <2>1 DEF RowsNamed
    <2>2. ASSUME NEW j \in Ids, configuration[j] # NoConfig,
                 configs' = [configuration EXCEPT ![j].applications = NoApps]
          PROVE  configs'[i].id = i /\ (configs[i] # NoConfig \/ configuration[i] # NoConfig)
      <3>1. [configuration[j] EXCEPT !.applications = NoApps].id = configuration[j].id
        BY <1>a, WithApps, NoConfigIsRow
      <3>2. CASE i = j
        BY <1>a, <2>2, <3>1, <3>2 DEF RowsNamed
      <3>3. CASE i # j
        BY <1>a, <2>2, <3>3 DEF RowsNamed
      <3> QED BY <3>2, <3>3
    <2>3. CASE configs' = [j \in Ids |-> NoConfig]
      BY <2>3
    <2> QED BY <1>2, <2>1, <2>2, <2>3 DEF load
  <1> QED BY <1>1, <1>2, WhoLists

\* A draft gets an id from the list only.
LEMMA DraftNamed ==
  ASSUME EditorTypes, RowsNamed, Wired, [EditorNext]_editorPageVars
  PROVE  \/ draft'.id = draft.id \/ draft'.id = None
         \/ \E i \in Ids : configs[i] # NoConfig /\ draft'.id = i
  <1>a. draft \in Config /\ configs \in [Ids -> Config] /\ configuration \in [Ids -> Config]
    BY DEF EditorTypes
  <1>1. ASSUME NEW i \in Ids, Edit(i) PROVE configs[i] # NoConfig /\ draft'.id = i
    BY <1>1 DEF Edit, Mount, RowsNamed
  <1>2. CASE NewChooser
    BY <1>a, <1>2, Clone, BlankIsRow DEF NewChooser, Mount
  <1>3. CASE onDuplicate
    BY <1>3 DEF onDuplicate
  <1>4. CASE AppsAnswer
    BY <1>a, <1>4 DEF AppsAnswer, Config
  <1>5. CASE Unmount
    BY <1>5, NoConfigIsRow DEF Unmount
  <1>6. CASE UploadAnswers
    BY <1>a, <1>6 DEF UploadAnswers, Config
  <1> QED BY <1>1, <1>2, <1>3, <1>4, <1>5, <1>6, WhoDrafts DEF DraftStep

LEMMA PutNamed ==
  ASSUME EditorTypes, [EditorNext]_editorPageVars
  PROVE  put'.cfg.id \in {put.cfg.id, draft.id, None}
  <1>a. put \in Put
    BY DEF EditorTypes
  <1>1. ASSUME NEW b, doSave(b) PROVE put'.cfg.id = draft.id
    BY <1>1 DEF doSave
  <1>2. CASE put' = NoPut
    BY <1>2, NoConfigIsRow DEF NoPut
  <1>3. ASSUME NEW i \in Own, OtherSave(i) PROVE put'.cfg.id = put.cfg.id
    BY <1>a, <1>3 DEF OtherSave, Put
  <1>4. CASE put' = [put EXCEPT !.st = "saved"]
    BY <1>a, <1>4 DEF Put
  <1> QED BY <1>1, <1>2, <1>3, <1>4, WhoSends

LEMMA RowsNamedStep ==
  ASSUME EditorTypes, BudgetOK, RowsNamed, Wired, [EditorNext]_editorPageVars
  PROVE  RowsNamed'
  <1>1. \A i \in Ids : configuration'[i] # NoConfig => configuration'[i].id = i
    BY ConfigurationNamed
  <1>2. \A i \in Ids : configs'[i] # NoConfig => configs'[i].id = i
    BY ListNamed
  <1>3. ASSUME NEW i \in Fresh \ {None},
               configuration'[i] # NoConfig \/ configs'[i] # NoConfig \/ draft'.id = i \/ put'.cfg.id = i
        PROVE  i \in budget'.created
    <2>1. i \in Ids
      BY DEF Ids
    <2>2. CASE configuration'[i] # NoConfig
      BY <2>1, <2>2, ConfigurationNamed, CreatedGrows DEF RowsNamed
    <2>3. CASE configs'[i] # NoConfig
      BY <2>1, <2>3, ListNamed, CreatedGrows DEF RowsNamed
    <2>4. CASE draft'.id = i
      BY <2>4, DraftNamed, CreatedGrows DEF RowsNamed
    <2>5. CASE put'.cfg.id = i
      BY <2>5, PutNamed, CreatedGrows DEF RowsNamed
    <2> QED BY <1>3, <2>2, <2>3, <2>4, <2>5
  <1> QED BY <1>1, <1>2, <1>3 DEF RowsNamed

-----------------------------------------------------------------------------
(* How an editor is wired. *)

LEMMA WhoFetches ==
  ASSUME [EditorNext]_editorPageVars
  PROVE  \/ UNCHANGED <<initial, appsFetch, appsReady>>
         \/ \E i \in Ids : Edit(i)
         \/ NewChooser \/ onDuplicate \/ AppsAnswer \/ Unmount
         \/ (AppsFails \/ Retry) /\ UNCHANGED <<initial, appsReady>>
  BY DEF EditorNext, editorPageVars, pageVars, editorVars, history, load, CopyModal, doDelete,
         onCancel, AppsFails, Retry, setField, addApps, handleModeChange, UploadStart,
         UploadAnswers, removeApp, setAppAction, requestSave, KioskChangeConfirm, PutApplied, PutFails, onSaved, OtherSave

LEMMA WhoConfirms ==
  ASSUME [EditorNext]_editorPageVars
  PROVE  \/ UNCHANGED confirmKeys /\ (UNCHANGED <<initial, appsReady>> \/ onDuplicate \/ AppsAnswer)
         \/ confirmKeys' = {}
         \/ requestSave /\ CanSave /\ UNCHANGED <<initial, appsReady>>
  BY DEF EditorNext, editorPageVars, pageVars, editorVars, history, load, CopyModal, doDelete, Edit, NewChooser, Mount,
         Unmount, onCancel, onDuplicate, AppsAnswer, AppsFails, Retry, setField, addApps, handleModeChange, UploadStart,
         UploadAnswers, removeApp, setAppAction, requestSave, KioskChangeConfirm, PutApplied, PutFails, onSaved, OtherSave

LEMMA WhoEntrusts ==
  ASSUME [EditorNext]_editorPageVars
  PROVE  \/ UNCHANGED <<entrusted, outdated>>
         \/ \E i \in Ids : Edit(i)
         \/ \E a \in Apps : removeApp(a)
         \/ Unmount
         \/ PutApplied
         \/ \E i \in Own : OtherSave(i)
  BY DEF EditorNext, editorPageVars, pageVars, editorVars, history, load, CopyModal, doDelete, NewChooser,
         onCancel, onDuplicate, AppsAnswer, AppsFails, Retry, setField, addApps, handleModeChange, UploadStart,
         UploadAnswers, setAppAction, requestSave, KioskChangeConfirm, PutFails, onSaved

\* An editor is closed by Unmount only.
LEMMA StaysOpen ==
  ASSUME EditorTypes, Wired, [EditorNext]_editorPageVars, ~isOpen'
  PROVE  Unmount \/ (~isOpen /\ UNCHANGED <<initial, draft, baseline>>) \/ (~isOpen /\ UploadAnswers)
  <1>a. configs \in [Ids -> Config] /\ initial \in Config
    BY DEF EditorTypes
  <1>1. ASSUME NEW i \in Ids, Edit(i) PROVE FALSE
    BY <1>1 DEF Edit, Mount, isOpen
  <1>2. CASE NewChooser
    BY <1>a, <1>2, Clone, BlankIsRow DEF NewChooser, Mount, isOpen
  <1>3. CASE onDuplicate
    BY <1>a, <1>3, Clone DEF onDuplicate, isOpen
  <1>4. CASE AppsAnswer
    <2>1. FALSE
      BY <1>4, NoConfigIsRow DEF AppsAnswer, isOpen, Wired
    <2> QED BY <2>1
  <1>5. CASE Editable /\ UNCHANGED <<initial, baseline>>
    BY <1>5 DEF Editable, isOpen
  <1>6. CASE UploadAnswers
    BY <1>6 DEF UploadAnswers, isOpen
  <1>7. CASE UNCHANGED <<initial, draft, baseline>>
    BY <1>7 DEF isOpen
  <1> QED BY <1>1, <1>2, <1>3, <1>4, <1>5, <1>6, <1>7, WhoDrafts DEF DraftStep

LEMMA WiredStep ==
  ASSUME EditorTypes, RowsNamed, Wired, [EditorNext]_editorPageVars
  PROVE  Wired'
  <1>a. draft \in Config /\ initial \in Config /\ configs \in [Ids -> Config]
    BY DEF EditorTypes
  <1>1. initial'.id # None => draft'.id = initial'.id
    <2>1. CASE UNCHANGED <<initial, draft, baseline>>
      BY <2>1 DEF Wired
    <2>2. CASE (\E i \in Ids : Edit(i)) \/ NewChooser
      BY <2>2 DEF Edit, NewChooser, Mount
    <2>3. CASE onDuplicate
      BY <1>a, <2>3, Clone DEF onDuplicate
    <2>4. CASE AppsAnswer
      BY <1>a, <2>4 DEF AppsAnswer, Wired, Config
    <2>5. CASE Unmount
      BY <2>5, NoConfigIsRow DEF Unmount
    <2>6. CASE Editable /\ draft'.id = draft.id /\ UNCHANGED <<initial, baseline>>
      BY <2>6 DEF Wired
    <2>7. CASE UploadAnswers
      BY <1>a, <2>7 DEF UploadAnswers, Wired, Config
    <2> QED BY <2>1, <2>2, <2>3, <2>4, <2>5, <2>6, <2>7, WhoDrafts DEF DraftStep
  <1>2. appsFetch' = "pending" => initial'.id # None
    <2>1. CASE UNCHANGED <<initial, appsFetch, appsReady>>
      BY <2>1 DEF Wired
    <2>2. CASE (\E i \in Ids : Edit(i)) \/ NewChooser
      BY <2>2 DEF Edit, NewChooser, Mount
    <2>3. CASE onDuplicate \/ AppsAnswer \/ Unmount
      BY <2>3 DEF onDuplicate, AppsAnswer, Unmount
    <2>4. CASE (AppsFails \/ Retry) /\ UNCHANGED initial
      BY <2>4 DEF AppsFails, Retry, isNew
    <2> QED BY <2>1, <2>2, <2>3, <2>4, WhoFetches
  <1>3. confirmKeys' # {} => isOpen' /\ appsReady'
    <2>1. CASE UNCHANGED confirmKeys /\ UNCHANGED <<initial, appsReady>>
      BY <2>1 DEF Wired, isOpen
    <2>2. CASE UNCHANGED confirmKeys /\ onDuplicate
      BY <1>a, <2>2, Clone DEF onDuplicate, Wired, isOpen
    <2>3. CASE UNCHANGED confirmKeys /\ AppsAnswer
      BY <2>3 DEF AppsAnswer, Wired, isOpen
    <2>4. CASE requestSave /\ CanSave /\ UNCHANGED <<initial, appsReady>>
      BY <2>4 DEF CanSave, isOpen
    <2> QED BY <2>1, <2>2, <2>3, <2>4, WhoConfirms
  <1>4. ~isOpen' => entrusted' = {}
    <2> SUFFICES ASSUME ~isOpen' PROVE entrusted' = {}
      OBVIOUS
    <2>1. CASE Unmount
      BY <2>1 DEF Unmount
    <2>2. CASE ~isOpen /\ UNCHANGED initial
      <3>0. entrusted = {}
        BY <2>2 DEF Wired
      <3>1. CASE UNCHANGED <<entrusted, outdated>>
        BY <3>0, <3>1
      <3>2. ASSUME NEW i \in Ids, Edit(i) PROVE entrusted' = {}
        BY <3>2 DEF Edit, Mount, isOpen
      <3>3. ASSUME NEW a \in Apps, removeApp(a) PROVE entrusted' = {}
        BY <2>2, <3>3 DEF removeApp, AppRow, Editable
      <3>4. CASE PutApplied
        BY <2>2, <3>0, <3>4 DEF PutApplied, Elsewhere
      <3>5. ASSUME NEW i \in Own, OtherSave(i) PROVE entrusted' = {}
        BY <2>2, <3>0, <3>5 DEF OtherSave, Elsewhere
      <3> QED BY <2>1, <3>1, <3>2, <3>3, <3>4, <3>5, WhoEntrusts
    <2> QED BY <2>1, <2>2, StaysOpen DEF UploadAnswers
  <1>5. isOpen' => appsReady' \/ ~isNew' \/ draft'.id # None
    <2>1. CASE (\E i \in Ids : Edit(i)) \/ NewChooser
      BY <2>1 DEF Edit, NewChooser, Mount, isNew
    <2>2. CASE onDuplicate
      BY <2>2 DEF onDuplicate, Wired, isNew, isOpen
    <2>3. CASE AppsAnswer \/ Unmount
      BY <2>3 DEF AppsAnswer, Unmount, isOpen
    <2>4. CASE UNCHANGED <<initial, appsReady>> /\ draft'.id = draft.id
      BY <2>4 DEF Wired, isNew, isOpen
    <2>5. CASE UNCHANGED initial /\ UploadAnswers
      BY <1>a, <2>4, <2>5 DEF UploadAnswers, Config
    <2> QED BY <2>1, <2>2, <2>3, <2>4, <2>5, WhoFetches, WhoDrafts DEF DraftStep, AppsFails, Retry, UploadAnswers
  <1> QED BY <1>1, <1>2, <1>3, <1>4, <1>5 DEF Wired

-----------------------------------------------------------------------------
(* What the editor is entrusted with stays on the server and in its draft. *)

\* The apps of a row, and its entrusted ones, when the row is replaced by c.
LEMMA ReplacedKeeps ==
  ASSUME EditorTypes, Kept, NEW i \in Ids, NEW c \in Config, NEW k \in Config,
         k.applications = c.applications,
         configuration' = [configuration EXCEPT ![i] = k], Elsewhere(i, c),
         UNCHANGED <<initial, draft, appsReady>>
  PROVE  Kept'
  <1>a. configuration \in [Ids -> Config] /\ draft.id \in Ids \cup {None}
    BY DEF EditorTypes, Config
  <1>b. isOpen' <=> isOpen
    BY DEF isOpen
  <1>c. Assigned(draft)' = Assigned(draft)
    BY DEF Assigned
  <1>1. ASSUME isOpen, draft.id # None, draft.id = i
        PROVE  entrusted' \subseteq Assigned(configuration'[i]) /\ entrusted' \subseteq entrusted
    <2>1. configuration'[i] = k
      BY <1>a
    <2>2. Assigned(k) = Assigned(c)
      BY DEF Assigned
    <2> QED BY <1>1, <2>1, <2>2 DEF Elsewhere
  <1>2. ASSUME isOpen, draft.id # None, draft.id # i
        PROVE  configuration'[draft.id] = configuration[draft.id] /\ entrusted' = entrusted
    BY <1>a, <1>2 DEF Elsewhere
  <1>3. isOpen' /\ draft'.id # None => entrusted' \subseteq Assigned(configuration'[draft'.id])
    BY <1>a, <1>b, <1>1, <1>2 DEF Kept
  <1>4. isOpen' /\ draft'.id # None /\ appsReady' => entrusted' \subseteq Assigned(draft')
    BY <1>b, <1>1, <1>2 DEF Kept, Assigned
  <1> QED BY <1>3, <1>4 DEF Kept, Assigned

LEMMA KeptStep ==
  ASSUME EditorTypes, BudgetOK, RowsNamed, Wired, Kept, [EditorNext]_editorPageVars
  PROVE  Kept'
  <1> USE DEF pageVars, editorVars, history
  <1>a. draft \in Config /\ configs \in [Ids -> Config] /\ configuration \in [Ids -> Config]
        /\ put.cfg \in Config /\ initial \in Config
    BY DEF EditorTypes, Put
  <1>1. ASSUME UNCHANGED <<configuration, initial, appsReady, entrusted>>, draft'.id = draft.id,
               Assigned(draft) \subseteq Assigned(draft')
        PROVE  Kept'
    BY <1>1 DEF Kept, isOpen, Assigned
  <1>2. CASE \/ UNCHANGED editorPageVars \/ load \/ AppsFails \/ Retry \/ UploadStart \/ requestSave
             \/ KioskChangeConfirm \/ PutFails
    <2>1. UNCHANGED <<configuration, initial, draft, appsReady, entrusted>>
      BY <1>2 DEF editorPageVars, load, AppsFails, Retry, UploadStart, requestSave, KioskChangeConfirm, PutFails
    <2> QED BY <1>1, <2>1 DEF Assigned
  <1>3. ASSUME NEW i \in Ids, CopyModal(i) \/ doDelete(i) PROVE Kept'
    BY <1>3 DEF CopyModal, doDelete, Kept, isOpen
  <1>4. ASSUME NEW i \in Ids, Edit(i) PROVE Kept'
    <2>1. draft' = configs[i] /\ configs[i].id = i /\ appsReady' = (i = None)
          /\ entrusted' = Assigned(configuration[i]) /\ UNCHANGED configuration
      BY <1>4 DEF Edit, Mount, RowsNamed
    <2> QED BY <2>1 DEF Kept, Assigned
  <1>5. CASE NewChooser
    <2>1. draft'.id = None
      BY <1>a, <1>5, Clone, BlankIsRow DEF NewChooser, Mount
    <2> QED BY <2>1 DEF Kept
  <1>6. CASE onDuplicate
    BY <1>6 DEF onDuplicate, Kept, isOpen, Assigned
  <1>7. CASE onCancel \/ onSaved
    BY <1>7 DEF onCancel, onSaved, Unmount, Kept, isOpen
  <1>8. CASE AppsAnswer
    <2>1. initial.id \in Ids /\ draft.id = initial.id
      BY <1>8, <1>a DEF Wired, AppsAnswer, Config
    <2>2. configuration[initial.id].applications \in [Apps -> Actions]
      BY <1>a, <2>1 DEF Config
    <2>3. draft'.id = draft.id /\ draft'.applications = configuration[initial.id].applications
      BY <1>8, <1>a, <2>2, WithApps DEF AppsAnswer
    <2>4. UNCHANGED <<configuration, initial, entrusted>>
      BY <1>8 DEF AppsAnswer
    <2>5. Assigned(draft') = Assigned(configuration[draft.id])
      BY <2>1, <2>3 DEF Assigned
    <2> QED BY <2>3, <2>4, <2>5 DEF Kept, isOpen, Assigned
  <1>9. CASE setField
    <2>1. (~draft.kioskMode) \in BOOLEAN /\ "copy" \in Names
      BY DEF Names
    <2>2. draft'.id = draft.id /\ draft'.applications = draft.applications
      <3>1. CASE draft' = [draft EXCEPT !.kioskMode = ~draft.kioskMode]
        BY <1>a, <2>1, <3>1, WithKiosk
      <3>2. CASE draft' = [draft EXCEPT !.name = "copy"]
        BY <1>a, <2>1, <3>2, WithName
      <3> QED BY <1>9, <3>1, <3>2 DEF setField, FieldControl
    <2>3. UNCHANGED <<configuration, initial, appsReady, entrusted>>
      BY <1>9 DEF setField
    <2> QED BY <1>1, <2>2, <2>3 DEF Assigned
  <1>10. CASE addApps
    <2>1. PICK chosen \in AppPicker :
            draft' = [draft EXCEPT !.applications =
                         [a \in Apps |-> IF a \in chosen THEN "install" ELSE draft.applications[a]]]
      BY <1>10 DEF addApps
    <2>2. [a \in Apps |-> IF a \in chosen THEN "install" ELSE draft.applications[a]] \in [Apps -> Actions]
      BY <1>a DEF Config, Actions
    <2>3. draft'.id = draft.id
          /\ draft'.applications = [a \in Apps |-> IF a \in chosen THEN "install" ELSE draft.applications[a]]
      BY <1>a, <2>1, <2>2, WithApps
    <2>4. Assigned(draft) \subseteq Assigned(draft')
      BY <2>3 DEF Assigned
    <2>5. UNCHANGED <<configuration, initial, appsReady, entrusted>>
      BY <1>10 DEF addApps
    <2> QED BY <1>1, <2>3, <2>4, <2>5
  <1>11. ASSUME NEW a \in Apps, removeApp(a) PROVE Kept'
    <2>1. "unassigned" \in Actions
      BY DEF Actions
    <2>2. draft'.id = draft.id /\ draft'.applications = [draft.applications EXCEPT ![a] = "unassigned"]
      BY <1>11, <1>a, <2>1, WithOneAction DEF removeApp
    <2>3. draft.applications \in [Apps -> Actions]
      BY <1>a DEF Config
    <2>4. Assigned(draft) \ {a} \subseteq Assigned(draft')
      BY <2>2, <2>3 DEF Assigned
    <2>5. UNCHANGED <<configuration, initial, appsReady>> /\ entrusted' = entrusted \ {a}
      BY <1>11 DEF removeApp
    <2> QED BY <2>2, <2>4, <2>5 DEF Kept, isOpen, Assigned
  <1>12. ASSUME NEW a \in Apps, NEW action \in {"install", "remove"}, setAppAction(a, action) PROVE Kept'
    <2>1. action \in Actions
      BY DEF Actions
    <2>2. draft'.id = draft.id /\ draft'.applications = [draft.applications EXCEPT ![a] = action]
      BY <1>12, <1>a, <2>1, WithOneAction DEF setAppAction
    <2>3. draft.applications \in [Apps -> Actions]
      BY <1>a DEF Config
    <2>4. Assigned(draft) \subseteq Assigned(draft')
      BY <2>2, <2>3 DEF Assigned
    <2>5. UNCHANGED <<configuration, initial, appsReady, entrusted>>
      BY <1>12 DEF setAppAction
    <2> QED BY <1>1, <2>2, <2>4, <2>5
  <1>13. CASE handleModeChange
    <2>1. (draft.image /\ mode' = "IMAGE") \in BOOLEAN
      OBVIOUS
    <2>2. draft'.id = draft.id /\ draft'.applications = draft.applications
      BY <1>13, <1>a, <2>1, WithImage DEF handleModeChange
    <2>3. UNCHANGED <<configuration, initial, appsReady, entrusted>>
      BY <1>13 DEF handleModeChange
    <2> QED BY <1>1, <2>2, <2>3 DEF Assigned
  <1>14. CASE UploadAnswers
    <2>1. draft'.id = draft.id /\ draft'.applications = draft.applications
      BY <1>14, <1>a, WithImage DEF UploadAnswers
    <2>2. UNCHANGED <<configuration, initial, appsReady, entrusted>>
      BY <1>14 DEF UploadAnswers
    <2> QED BY <1>1, <2>1, <2>2 DEF Assigned
  <1>15. CASE PutApplied
    <2>1. PICK i \in IF put.cfg.id = None THEN Unused ELSE {put.cfg.id} :
            /\ configuration' = [configuration EXCEPT ![i] = [put.cfg EXCEPT !.id = i]]
            /\ Elsewhere(i, put.cfg)
      BY <1>15 DEF PutApplied
    <2>2. i \in Ids
      BY <1>a, <2>1 DEF Config, Unused, Ids
    <2>3. PICK k \in Config : k = [put.cfg EXCEPT !.id = i] /\ k.applications = put.cfg.applications
      BY <1>a, <2>2, WithId
    <2>4. UNCHANGED <<initial, draft, appsReady>>
      BY <1>15 DEF PutApplied
    <2>5. PICK c \in Config : c = put.cfg
      BY <1>a
    <2> QED BY <2>1, <2>2, <2>3, <2>4, <2>5, ReplacedKeeps
  <1>16. ASSUME NEW i \in Own, OtherSave(i) PROVE Kept'
    <2>1. PICK c \in {[configuration[i] EXCEPT !.kioskMode = ~@]} \cup
              {WithAction(configuration[i], a, IF a \in Assigned(configuration[i]) THEN "unassigned" ELSE "install") : a \in Apps} :
            configuration' = [configuration EXCEPT ![i] = c] /\ Elsewhere(i, c)
      BY <1>16 DEF OtherSave
    <2>2. c \in Config
      BY <1>a, <2>1, OtherRows
    <2>3. UNCHANGED <<initial, draft, appsReady>>
      BY <1>16 DEF OtherSave
    <2>4. i \in Ids
      BY DEF Ids
    <2> QED BY <2>1, <2>2, <2>3, <2>4, ReplacedKeeps
  <1> QED BY <1>2, <1>3, <1>4, <1>5, <1>6, <1>7, <1>8, <1>9, <1>10, <1>11, <1>12, <1>13, <1>14, <1>15, <1>16
          DEF EditorNext

\* A save is built from a draft that has all it was entrusted with.
LEMMA NoWipeStep ==
  ASSUME EditorTypes, Wired, Kept, NoWipe, [EditorNext]_editorPageVars
  PROVE  NoWipe'
  <1>a. put \in Put
    BY DEF EditorTypes
  <1>1. CASE UNCHANGED put
    BY <1>1 DEF NoWipe, Assigned
  <1>2. ASSUME NEW b, doSave(b), isOpen, appsReady PROVE NoWipe'
    <2>1. put'.cfg = draft /\ put'.entrusted = entrusted
      BY <1>2 DEF doSave
    <2> QED BY <1>2, <2>1 DEF Kept, NoWipe, Assigned
  <1>3. CASE put' = [put EXCEPT !.st = "saved"] \/ put' = NoPut
    BY <1>a, <1>3 DEF NoWipe, NoPut, Put
  <1>4. ASSUME NEW i \in Own, OtherSave(i) PROVE NoWipe'
    <2>1. put'.st = put.st /\ put'.cfg = put.cfg /\ put'.entrusted = put.entrusted
      BY <1>a, <1>4 DEF OtherSave, Put
    <2> QED BY <2>1 DEF NoWipe, Assigned
  <1> QED BY <1>1, <1>2, <1>3, <1>4, WhoSends DEF CanSave, Wired

-----------------------------------------------------------------------------
(* What changes are detected against. *)

LEMMA ComparedStep ==
  ASSUME EditorTypes, BudgetOK, RowsNamed, Wired, Compared, [EditorNext]_editorPageVars
  PROVE  Compared'
  <1> USE DEF pageVars, editorVars, history
  <1>a. /\ configs \in [Ids -> Config] /\ configuration \in [Ids -> Config]
        /\ put.cfg \in Config /\ initial \in Config /\ baseline \in Config
    BY DEF EditorTypes, Put
  <1>1. ASSUME UNCHANGED <<configuration, initial, baseline, appsReady, outdated>> PROVE Compared'
    BY <1>1 DEF Compared, isOpen
  <1>2. CASE \/ UNCHANGED editorPageVars \/ load \/ AppsFails \/ Retry \/ UploadStart \/ requestSave
             \/ KioskChangeConfirm \/ PutFails \/ setField \/ addApps \/ handleModeChange \/ UploadAnswers
             \/ \E a \in Apps : removeApp(a) \/ \E action \in {"install", "remove"} : setAppAction(a, action)
    BY <1>1, <1>2 DEF editorPageVars, load, AppsFails, Retry, UploadStart, requestSave, KioskChangeConfirm, PutFails,
                      setField, addApps, handleModeChange, UploadAnswers, removeApp, setAppAction
  <1>3. ASSUME NEW i \in Ids, CopyModal(i) \/ doDelete(i) PROVE Compared'
    BY <1>3 DEF CopyModal, doDelete, Compared, isOpen
  <1>4. ASSUME NEW i \in Ids, Edit(i) PROVE Compared'
    <2>1. /\ baseline' = configs[i] /\ initial' = configs[i] /\ configs[i].id = i /\ appsReady' = (i = None)
          /\ UNCHANGED configuration
          /\ outdated' = ([configs[i] EXCEPT !.applications = NoApps] # [configuration[i] EXCEPT !.applications = NoApps])
      BY <1>4 DEF Edit, Mount, RowsNamed
    <2>2. /\ [configs[i] EXCEPT !.applications = NoApps].kioskMode = configs[i].kioskMode
          /\ [configs[i] EXCEPT !.applications = NoApps].image = configs[i].image
          /\ [configuration[i] EXCEPT !.applications = NoApps].kioskMode = configuration[i].kioskMode
          /\ [configuration[i] EXCEPT !.applications = NoApps].image = configuration[i].image
      BY <1>a, WithApps, NoConfigIsRow
    <2> QED BY <2>1, <2>2 DEF Compared
  <1>5. CASE NewChooser
    <2>1. initial'.id = None
      BY <1>a, <1>5, Clone, BlankIsRow DEF NewChooser, Mount
    <2> QED BY <2>1 DEF Compared
  <1>6. CASE onDuplicate
    <2>1. initial'.id = None
      BY <1>a, <1>6, Clone DEF onDuplicate
    <2> QED BY <2>1 DEF Compared
  <1>7. CASE onCancel \/ onSaved
    BY <1>7 DEF onCancel, onSaved, Unmount, Compared, isOpen
  <1>8. CASE AppsAnswer
    <2>1. initial.id \in Ids
      BY <1>8, <1>a DEF Wired, AppsAnswer, Config
    <2>2. configuration[initial.id].applications \in [Apps -> Actions]
      BY <1>a, <2>1 DEF Config
    <2>3. /\ baseline'.kioskMode = baseline.kioskMode /\ baseline'.image = baseline.image
          /\ baseline'.applications = configuration[initial.id].applications
      BY <1>8, <1>a, <2>2, WithApps DEF AppsAnswer
    <2>4. UNCHANGED <<configuration, initial, outdated>>
      BY <1>8 DEF AppsAnswer
    <2> QED BY <2>3, <2>4 DEF Compared, isOpen
  \* A row that changes behind an open editor of it marks the editor as outdated.
  <1>9. ASSUME NEW i \in Ids, NEW c, NEW k \in Config,
               configuration' = [configuration EXCEPT ![i] = k], Elsewhere(i, c),
               UNCHANGED <<initial, baseline, appsReady>>
        PROVE  Compared'
    <2>1. isOpen' <=> isOpen
      BY <1>9 DEF isOpen
    <2>2. initial.id # None => draft.id = initial.id /\ initial.id \in Ids
      BY <1>a DEF Wired, Config
    <2>3. CASE isOpen /\ initial.id # None /\ ~outdated'
      <3>1. initial.id # i /\ ~outdated
        BY <1>9, <2>2, <2>3 DEF Elsewhere
      <3>2. configuration'[initial.id] = configuration[initial.id]
        BY <1>9, <1>a, <2>2, <2>3, <3>1
      <3> QED BY <1>9, <2>3, <3>1, <3>2 DEF Compared
    <2> QED BY <1>9, <2>1, <2>3 DEF Compared
  <1>10. CASE PutApplied
    <2>1. PICK i \in IF put.cfg.id = None THEN Unused ELSE {put.cfg.id} :
            /\ configuration' = [configuration EXCEPT ![i] = [put.cfg EXCEPT !.id = i]]
            /\ Elsewhere(i, put.cfg)
      BY <1>10 DEF PutApplied
    <2>2. i \in Ids
      BY <1>a, <2>1 DEF Config, Unused, Ids
    <2>3. [put.cfg EXCEPT !.id = i] \in Config
      BY <1>a, <2>2, WithId
    <2>4. UNCHANGED <<initial, baseline, appsReady>>
      BY <1>10 DEF PutApplied
    <2> QED BY <1>9, <2>1, <2>2, <2>3, <2>4
  <1>11. ASSUME NEW i \in Own, OtherSave(i) PROVE Compared'
    <2>1. PICK c \in {[configuration[i] EXCEPT !.kioskMode = ~@]} \cup
              {WithAction(configuration[i], a, IF a \in Assigned(configuration[i]) THEN "unassigned" ELSE "install") : a \in Apps} :
            configuration' = [configuration EXCEPT ![i] = c] /\ Elsewhere(i, c)
      BY <1>11 DEF OtherSave
    <2>2. c \in Config /\ i \in Ids
      BY <1>a, <2>1, OtherRows DEF Ids
    <2>3. UNCHANGED <<initial, baseline, appsReady>>
      BY <1>11 DEF OtherSave
    <2> QED BY <1>9, <2>1, <2>2, <2>3
  <1> QED BY <1>2, <1>3, <1>4, <1>5, <1>6, <1>7, <1>8, <1>10, <1>11 DEF EditorNext

\* What is compared of two rows.
LEMMA NothingChanged ==
  ASSUME NEW b, NEW c, NEW d,
         b.kioskMode = c.kioskMode, b.image = c.image, b.applications = c.applications
  PROVE  kioskAffectingChanges(b, d) = kioskAffectingChanges(c, d)
  <1>1. \A k \in KIOSK_AFFECTING_KEYS : b[k] = c[k]
    BY DEF KIOSK_AFFECTING_KEYS
  <1> QED BY <1>1 DEF kioskAffectingChanges

LEMMA AskedStep ==
  ASSUME EditorTypes, BudgetOK, RowsNamed, Wired, Compared, Asked, [EditorNext]_editorPageVars
  PROVE  Asked'
  <1>a. put \in Put /\ put.cfg \in Config /\ initial \in Config /\ configuration \in [Ids -> Config]
    BY DEF EditorTypes, Put
  \* The request stays, and the row it is for does, or the request is marked as outdated.
  <1>1. CASE UNCHANGED put /\ UNCHANGED configuration
    BY <1>1 DEF Asked, kioskAffectingChanges
  <1>2. ASSUME NEW i \in Ids, doDelete(i) PROVE Asked'
    <2>1. UNCHANGED put /\ configuration' = [configuration EXCEPT ![i] = NoConfig]
      BY <1>2 DEF doDelete
    <2>2. put.cfg.id \in Ids => configuration'[put.cfg.id] \in {NoConfig, configuration[put.cfg.id]}
      BY <1>a, <2>1
    <2>3. put.cfg.id # None => put.cfg.id \in Ids
      BY <1>a DEF Config
    <2> QED BY <2>1, <2>2, <2>3 DEF Asked, kioskAffectingChanges
  <1>3. ASSUME NEW i \in Ids, CopyModal(i) PROVE Asked'
    <2>1. PICK n \in Unused :
            configuration' = [configuration EXCEPT ![n] = [configuration[i] EXCEPT !.id = n, !.name = "copy"]]
      BY <1>3 DEF CopyModal
    <2>2. UNCHANGED put
      BY <1>3 DEF CopyModal
    <2>3. put.cfg.id # None => put.cfg.id # n
      BY <2>1 DEF Unused, RowsNamed
    <2>4. put.cfg.id # None => configuration'[put.cfg.id] = configuration[put.cfg.id]
      BY <1>a, <2>1, <2>3 DEF Config
    <2> QED BY <2>2, <2>4 DEF Asked, kioskAffectingChanges
  <1>4. ASSUME doSave(TRUE), isOpen PROVE Asked'
    <2>1. put'.confirmed /\ put'.cfg = draft /\ (put'.edit => initial.id # None)
      BY <1>4 DEF doSave, isNew
    <2> QED BY <2>1 DEF Asked, Wired
  <1>5. ASSUME doSave(FALSE), ~MustConfirm, isOpen, appsReady, UNCHANGED configuration PROVE Asked'
    <2>1. /\ put'.cfg = draft /\ put'.edit = ~isNew /\ put'.count = affectedDeviceCount(initial)
          /\ put'.outdated = outdated
      BY <1>5 DEF doSave
    <2>2. CASE isNew
      BY <2>1, <2>2 DEF Asked
    <2>3. CASE ~isNew /\ (outdated \/ affectedDeviceCount(initial) = 0)
      BY <2>1, <2>3 DEF Asked, Wired, isNew
    <2>4. CASE ~isNew /\ ~outdated /\ affectedDeviceCount(initial) # 0
      <3>1. kioskAffectingChanges(baseline, draft) = {}
        BY <1>5, <2>4 DEF MustConfirm, ChangedKeys
      <3>2. initial.id # None /\ draft.id = initial.id
        BY <2>4 DEF isNew, Wired
      <3>3. kioskAffectingChanges(configuration[draft.id], draft) = {}
        BY <1>5, <2>4, <3>1, <3>2, NothingChanged DEF Compared
      <3> QED BY <1>5, <2>1, <3>2, <3>3 DEF Asked, kioskAffectingChanges
    <2> QED BY <2>2, <2>3, <2>4
  <1>6. CASE put' = [put EXCEPT !.st = "saved"] \/ put' = NoPut
    BY <1>a, <1>6 DEF Asked, NoPut, Put
  <1>7. ASSUME NEW i \in Own, OtherSave(i) PROVE Asked'
    <2>1. PICK c : configuration' = [configuration EXCEPT ![i] = c]
      BY <1>7 DEF OtherSave
    <2>2. /\ put'.st = put.st /\ put'.cfg = put.cfg /\ put'.edit = put.edit
          /\ put'.confirmed = put.confirmed /\ put'.count = put.count
          /\ put'.outdated = (put.outdated \/ put.cfg.id = i)
      BY <1>a, <1>7 DEF OtherSave, Put
    <2>3. put.cfg.id \in Ids /\ put.cfg.id # i => configuration'[put.cfg.id] = configuration[put.cfg.id]
      BY <1>a, <2>1
    <2>4. put.cfg.id # None => put.cfg.id \in Ids
      BY <1>a DEF Config
    <2>5. ~put'.outdated => ~put.outdated /\ put.cfg.id # i
      BY <2>2
    <2>6. ASSUME put.st = "sent", put.edit, ~put'.outdated, ~put.confirmed, put.count # 0,
                 configuration'[put.cfg.id] # NoConfig
          PROVE  kioskAffectingChanges(configuration'[put.cfg.id], put.cfg) = {}
      <3>1. put.cfg.id # None /\ ~put.outdated /\ put.cfg.id # i
        BY <2>5, <2>6 DEF Asked
      <3>2. configuration'[put.cfg.id] = configuration[put.cfg.id]
        BY <2>3, <2>4, <3>1
      <3> QED BY <2>6, <3>1, <3>2 DEF Asked
    <2> QED BY <2>2, <2>6 DEF Asked, kioskAffectingChanges
  <1>8. CASE UNCHANGED put
    BY <1>1, <1>2, <1>3, <1>6, <1>7, <1>8, WhoWrites DEF PutApplied
  <1> QED BY <1>4, <1>5, <1>6, <1>7, <1>8, WhoSends DEF CanSave, Wired, requestSave

-----------------------------------------------------------------------------
LEMMA Invariance == EditorSpec => []IInv
  <1>1. EditorInit => IInv
    <2> SUFFICES ASSUME EditorInit PROVE IInv
      OBVIOUS
    <2>1. RowsNamed
      <3>1. \A i \in Ids : Seeded(i).id = i
        BY DEF Seeded
      <3>2. \A i \in Ids : configuration[i] = IF i \in Fresh THEN NoConfig ELSE Seeded(i)
        BY DEF EditorInit
      <3>3. \A i \in Ids : configs[i] = NoConfig
        BY DEF EditorInit
      <3>4. draft.id = None /\ put.cfg.id = None
        BY NoConfigIsRow DEF EditorInit, NoPut
      <3> QED BY <3>1, <3>2, <3>3, <3>4 DEF RowsNamed, Ids
    <2>2. Wired /\ Kept /\ Compared /\ Asked /\ NoWipe
      BY NoConfigIsRow DEF EditorInit, Wired, Kept, Compared, Asked, NoWipe, isOpen, NoPut
    <2> QED BY <2>1, <2>2, TypesInit DEF IInv
  <1>2. IInv /\ [EditorNext]_editorPageVars => IInv'
    BY TypesStep, RowsNamedStep, WiredStep, KeptStep, ComparedStep, AskedStep, NoWipeStep DEF IInv
  <1> QED BY <1>1, <1>2, PTL DEF EditorSpec

\* For any apps, configurations and bounds, the state of the page has its types, and an
\* editor that is open has its apps or a row to ask them of (ConfigurationsPage 399-424).
THEOREM EditorTypesHold == EditorSpec => []EditorTypeOK
  BY Invariance, PTL DEF IInv, Wired, EditorTypeOK

\* For any apps, configurations, bounds, and any timing of the list, the fetch of the apps,
\* other administrators and lost answers, no save drops an app behind everybody's back
\* (ConfigurationsPage 399-424).
THEOREM AppsSurvive == EditorSpec => []NoWipe
  BY Invariance, PTL DEF IInv

\* The step that applies a save changes nothing of the kiosk that was not asked about.
LEMMA SilenceStep ==
  ASSUME IInv, [EditorNext]_editorPageVars
  PROVE  SilentKioskAvoided
  <1>a. put \in Put /\ put.cfg \in Config /\ configuration \in [Ids -> Config]
    BY DEF IInv, EditorTypes, Put
  <1> SUFFICES ASSUME NEW i \in Ids,
                      put.st = "sent", put'.st = "saved", put.edit, put.cfg.id = i, ~put.outdated,
                      kioskAffectingChanges(configuration[i], configuration'[i]) # {},
                      ~put.confirmed, put.count # 0
               PROVE  FALSE
    BY DEF SilentKioskAvoided
  <1>1. ASSUME NEW b, doSave(b) PROVE FALSE
    BY <1>1 DEF doSave
  <1>2. ASSUME NEW j \in Own, OtherSave(j) PROVE FALSE
    BY <1>a, <1>2 DEF OtherSave, Put
  <1>3. PutApplied
    <2>1. ~doSave(TRUE) /\ ~doSave(FALSE)
      BY <1>1
    <2>2. put' # NoPut /\ put' # put
      BY DEF NoPut
    <2>3. EditorTypes
      BY DEF IInv
    <2> QED BY <1>2, <2>1, <2>2, <2>3, WhoSends
  <1>4. i # None
    BY DEF IInv, Asked
  <1>5. configuration[i] # NoConfig /\ configuration' = [configuration EXCEPT ![i] = [put.cfg EXCEPT !.id = i]]
    BY <1>3, <1>4 DEF PutApplied
  <1>6. kioskAffectingChanges(configuration[i], put.cfg) = {}
    BY <1>5 DEF IInv, Asked
  <1>7. PICK k \in Config : k = [put.cfg EXCEPT !.id = i] /\ k.kioskMode = put.cfg.kioskMode
                            /\ k.image = put.cfg.image /\ k.applications = put.cfg.applications
    BY <1>a, WithId
  <1>8. configuration'[i] = k
    BY <1>a, <1>5, <1>7
  <1>9. \A key \in KIOSK_AFFECTING_KEYS : k[key] = put.cfg[key]
    BY <1>7 DEF KIOSK_AFFECTING_KEYS
  <1> QED BY <1>6, <1>7, <1>8, <1>9 DEF kioskAffectingChanges

\* Likewise, no save changes what the kiosk of the devices depends on without the dialog,
\* unless the page knew that no device would re-apply it, or the row had changed on the
\* server since the editor was filled, or the editor takes the save for one of a new
\* configuration, as it does of a duplicated default (ConfigurationsPage 503-505).
THEOREM KioskAskedFor == EditorSpec => NoSilentKiosk
  <1>1. IInv /\ [EditorNext]_editorPageVars => [SilentKioskAvoided]_editorPageVars
    BY SilenceStep
  <1> QED BY <1>1, Invariance, PTL DEF EditorSpec, NoSilentKiosk

=============================================================================
