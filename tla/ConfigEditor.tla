----------------------------- MODULE ConfigEditor -----------------------------
(***************************************************************************)
(* The configurations page of the web console: the list it loads, the      *)
(* editor with its draft, the apps it fetches late, the kiosk confirmation  *)
(* and the PUT that replaces a whole configuration, while other admins edit *)
(* the same configurations and requests fail.                              *)
(***************************************************************************)
EXTENDS Integers, FiniteSets

CONSTANTS
    Apps,       \* library applications
    Locked,     \* names (and ids) of the seeded default templates
    Own,        \* configurations the customer made
    Fresh,      \* ids for configurations created later
    MaxEdits,   \* edits of drafts
    MaxSaves,   \* requests that write a configuration
    MaxFaults,  \* failed requests
    MaxOthers   \* changes by other admins

VARIABLES
    configuration,  \* server: per id, the row with its assigned apps, or NoConfig
    configs,        \* page: the list it shows
    sync,           \* page: the sync summary per configuration
    loading,        \* page: load() waits for its answers
    initial,        \* editor: the configuration it was opened with, or NoConfig
    readOnly,       \* editor: opened to view
    draft,          \* editor: what the admin edits
    baseline,       \* editor: what changes are detected against
    appsReady,      \* editor: save is unblocked
    appsFetch,      \* editor: the fetch of the assigned apps
    mode,           \* editor: launcher design, COLOR or IMAGE
    upload,         \* editor: a background picture is being uploaded
    confirmKeys,    \* editor: what the kiosk dialog asks about; {} when closed
    put,            \* the PUT in flight (one at a time is modelled)
    entrusted,      \* history: apps on the server at opening that nobody removed since
    outdated,       \* history: the row changed on the server since the editor was filled
    budget          \* edits, faults, others and saves spent, and the ids handed out

pageVars == <<configs, sync, loading>>
editorVars == <<initial, readOnly, draft, baseline, appsReady, appsFetch, mode, upload, confirmKeys>>
history == <<entrusted, outdated>>
editorPageVars == <<configuration, pageVars, editorVars, put, history, budget>>

-----------------------------------------------------------------------------
(* Configurations: a row keeps what the properties tell apart, the name, the *)
(* kiosk switch, whether there is a background picture, and the app matrix. *)

Ids == Locked \cup Own \cup Fresh
None == "none"
Names == Ids \cup {"copy", ""}
Actions == {"unassigned", "install", "remove"}
NoApps == [a \in Apps |-> "unassigned"]
Config == [id : Ids \cup {None}, name : Names \cup {None}, kioskMode : BOOLEAN, image : BOOLEAN,
           applications : [Apps -> Actions]]
NoConfig == [id |-> None, name |-> None, kioskMode |-> FALSE, image |-> FALSE, applications |-> NoApps]
Assigned(c) == {a \in Apps : c.applications[a] # "unassigned"}
isLocked(c) == c.name \in Locked

\* The matrix of c with another action for a.
WithAction(c, a, action) == [c EXCEPT !.applications = [c.applications EXCEPT ![a] = action]]

Blank == [NoConfig EXCEPT !.name = ""]
cloneForNew(base) == [base EXCEPT !.id = None, !.name = IF base = Blank THEN "" ELSE "copy"]

SyncRow == {r \in [total : 0..1, unsupported : 0..1] : r.unsupported <= r.total}
NoRow == [total |-> -1, unsupported |-> 0]
Unassigned == [total |-> 0, unsupported |-> 0]
\* Devices that will re-apply kiosk; -1 when the page has no summary.
affectedDeviceCount(c) ==
    IF c.id = None THEN 0
    ELSE IF sync[c.id] = NoRow THEN -1 ELSE sync[c.id].total - sync[c.id].unsupported

KIOSK_AFFECTING_KEYS == {"kioskMode", "image", "applications"}
kioskAffectingChanges(before, after) ==
    IF before.kioskMode \/ after.kioskMode
    THEN {k \in KIOSK_AFFECTING_KEYS : before[k] # after[k]} ELSE {}
getDesignMode(c) == IF c.image THEN "IMAGE" ELSE "COLOR"

isOpen == initial # NoConfig
isNew == initial.id = None
NoPut == [st |-> "none", cfg |-> NoConfig, edit |-> FALSE, confirmed |-> FALSE, count |-> 0,
          entrusted |-> {}, outdated |-> FALSE]

Spend(what, max) == budget[what] < max /\ budget' = [budget EXCEPT ![what] = @ + 1]
Fault == Spend("faults", MaxFaults)
Write(ids) ==
    /\ budget.saves < MaxSaves
    /\ budget' = [budget EXCEPT !.saves = @ + 1, !.created = @ \cup ids]

Seeded(i) == [id |-> i, name |-> i, kioskMode |-> i \in Own, image |-> FALSE,
              applications |-> [a \in Apps |-> "install"]]

EditorInit ==
    /\ configuration = [i \in Ids |-> IF i \in Fresh THEN NoConfig ELSE Seeded(i)]
    /\ configs = [i \in Ids |-> NoConfig] /\ sync = [i \in Ids |-> NoRow] /\ loading = TRUE
    /\ initial = NoConfig /\ readOnly = FALSE /\ draft = NoConfig /\ baseline = NoConfig
    /\ appsReady = FALSE /\ appsFetch = "none" /\ mode = "COLOR" /\ upload = FALSE
    /\ confirmKeys = {} /\ put = NoPut
    /\ entrusted = {} /\ outdated = FALSE
    /\ budget = [edits |-> 0, faults |-> 0, others |-> 0, saves |-> 0, created |-> {}]

-----------------------------------------------------------------------------
(* The list. *)

\* The summary of the devices' revisions is asked for whatever became of the list.
SyncSummary ==
    \/ /\ \E r \in SyncRow : sync' = [i \in Ids |-> IF configuration[i] = NoConfig THEN NoRow
                                                    ELSE IF i \in Own THEN r ELSE Unassigned]
       /\ UNCHANGED budget
    \/ Fault /\ UNCHANGED sync

\* A row whose apps could not be fetched is listed without applications.
load ==
    /\ loading /\ loading' = FALSE
    /\ \/ configs' = configuration /\ SyncSummary
       \/ /\ \E i \in Ids : /\ configuration[i] # NoConfig
                            /\ configs' = [configuration EXCEPT ![i].applications = NoApps]
          /\ Fault /\ UNCHANGED sync
       \/ configs' = [i \in Ids |-> NoConfig] /\ Fault /\ UNCHANGED sync
    /\ UNCHANGED <<configuration, editorVars, put, history>>

Unused == Fresh \ budget.created
NameInUse(n, i) == \E j \in Ids \ {i} : configuration[j] # NoConfig /\ configuration[j].name = n

\* The dialog of a card's Copy, or Use as template: the server copies the row and its apps.
CopyModal(i) ==
    /\ ~isOpen /\ configs[i] # NoConfig /\ configuration[i] # NoConfig
    /\ ~NameInUse("copy", None)
    /\ \E n \in Unused :
        /\ configuration' = [configuration EXCEPT ![n] = [configuration[i] EXCEPT !.id = n, !.name = "copy"]]
        /\ Write({n})
    /\ loading' = TRUE
    /\ UNCHANGED <<configs, sync, editorVars, put, history>>

\* The card of a default has no Delete button; the server refuses while devices use it.
doDelete(i) ==
    /\ ~isOpen /\ configs[i] # NoConfig /\ ~isLocked(configs[i])
    /\ configuration[i] # NoConfig /\ Write({})
    /\ configuration' = [configuration EXCEPT ![i] = NoConfig]
    /\ loading' = TRUE
    /\ UNCHANGED <<configs, sync, editorVars, put, history>>

-----------------------------------------------------------------------------
(* Opening and closing the editor. *)

MountBlocked(c) ==
    /\ initial' = c /\ draft' = c /\ baseline' = c
    /\ appsReady' = FALSE
    /\ appsFetch' = IF c.id = None THEN "none" ELSE "pending"
    /\ mode' = getDesignMode(c) /\ upload' = FALSE /\ confirmKeys' = {}
Mount(c) ==
    /\ initial' = c /\ draft' = c /\ baseline' = c
    /\ appsReady' = (c.id = None)
    /\ appsFetch' = IF c.id = None THEN "none" ELSE "pending"
    /\ mode' = getDesignMode(c) /\ upload' = FALSE /\ confirmKeys' = {}

Unmount ==
    /\ initial' = NoConfig /\ draft' = NoConfig /\ baseline' = NoConfig
    /\ readOnly' = FALSE /\ appsReady' = FALSE /\ appsFetch' = "none"
    /\ mode' = "COLOR" /\ upload' = FALSE /\ confirmKeys' = {}
    /\ entrusted' = {} /\ outdated' = FALSE

Edit(i) ==
    /\ ~isOpen /\ configs[i] # NoConfig
    /\ readOnly' = isLocked(configs[i]) /\ Mount(configs[i])
    /\ entrusted' = Assigned(configuration[i])
    /\ outdated' = ([configs[i] EXCEPT !.applications = NoApps] # [configuration[i] EXCEPT !.applications = NoApps])
    /\ UNCHANGED <<configuration, pageVars, put, budget>>

\* From scratch, or based on one of the defaults the list shows.
NewChooser ==
    /\ ~isOpen
    /\ \E base \in {Blank} \cup {configs[i] : i \in {j \in Ids : isLocked(configs[j])}} :
        Mount(cloneForNew(base))
    /\ readOnly' = FALSE
    /\ UNCHANGED <<configuration, pageVars, put, history, budget>>

\* Duplicate to edit: the editor gets a clone as its new `initial`, in the same place of
\* the tree, so it keeps its state: the draft is still the template's row, id and all.
onDuplicate ==
    /\ isOpen /\ readOnly
    /\ initial' = cloneForNew(initial) /\ readOnly' = FALSE
    /\ appsFetch' = IF appsFetch = "pending" THEN "none" ELSE appsFetch
    /\ UNCHANGED <<configuration, pageVars, draft, baseline, appsReady, mode, upload, confirmKeys,
                   put, history, budget>>

\* The Cancel button waits for a save, the crumb above it does not.
onCancel ==
    /\ isOpen /\ confirmKeys = {} /\ Unmount
    /\ UNCHANGED <<configuration, pageVars, put, budget>>

-----------------------------------------------------------------------------
(* The assigned apps arrive late, and replace what the draft has. *)

AppsAnswer ==
    /\ appsFetch = "pending" /\ configuration[initial.id] # NoConfig
    /\ draft' = [draft EXCEPT !.applications = configuration[initial.id].applications]
    /\ baseline' = [baseline EXCEPT !.applications = configuration[initial.id].applications]
    /\ appsReady' = TRUE /\ appsFetch' = "none"
    /\ UNCHANGED <<configuration, pageVars, initial, readOnly, mode, upload, confirmKeys, put, history, budget>>

AppsFails ==
    /\ appsFetch = "pending"
    /\ \/ Fault
       \/ configuration[initial.id] = NoConfig /\ UNCHANGED budget
    /\ appsFetch' = "failed"
    /\ UNCHANGED <<configuration, pageVars, initial, readOnly, draft, baseline, appsReady, mode, upload,
                   confirmKeys, put, history>>

Retry ==
    /\ appsFetch = "failed" /\ ~isNew /\ appsFetch' = "pending"
    /\ UNCHANGED <<configuration, pageVars, initial, readOnly, draft, baseline, appsReady, mode, upload,
                   confirmKeys, put, history, budget>>

-----------------------------------------------------------------------------
(* Editing the draft, under no dialog. *)

Editable == isOpen /\ ~readOnly /\ confirmKeys = {} /\ Spend("edits", MaxEdits)

\* What a field's control may write.
FieldControl(c) ==
    {[c EXCEPT !.kioskMode = ~@], [c EXCEPT !.name = "copy"]} \ {c}

setField ==
    /\ Editable /\ draft' \in FieldControl(draft)
    /\ UNCHANGED <<configuration, pageVars, initial, readOnly, baseline, appsReady, appsFetch, mode, upload,
                   confirmKeys, put, history>>

\* The library picker excludes what is allowed already. (Quick add of a package that is
\* allowed already, which lists it twice, is left out.)
AppPicker == SUBSET (Apps \ Assigned(draft)) \ {{}}

\* Whatever a filter chip hides can be shown again: every assigned app is in reach.
filteredAndSortedAllowed == Assigned(draft)

addApps ==
    /\ Editable
    /\ \E chosen \in AppPicker :
        draft' = [draft EXCEPT !.applications =
                     [a \in Apps |-> IF a \in chosen THEN "install" ELSE draft.applications[a]]]
    /\ UNCHANGED <<configuration, pageVars, initial, readOnly, baseline, appsReady, appsFetch, mode, upload,
                   confirmKeys, put, history>>

\* The controls of one row, off while viewing.
AppRow(a) == Editable /\ a \in filteredAndSortedAllowed

removeApp(a) ==
    /\ AppRow(a)
    /\ draft' = WithAction(draft, a, "unassigned")
    /\ entrusted' = entrusted \ {a}
    /\ UNCHANGED <<configuration, pageVars, initial, readOnly, baseline, appsReady, appsFetch, mode, upload,
                   confirmKeys, put, outdated>>

setAppAction(a, action) ==
    /\ AppRow(a) /\ draft.applications[a] # action
    /\ draft' = WithAction(draft, a, action)
    /\ UNCHANGED <<configuration, pageVars, initial, readOnly, baseline, appsReady, appsFetch, mode, upload,
                   confirmKeys, put, history>>

handleModeChange ==
    /\ Editable
    /\ mode' = IF mode = "COLOR" THEN "IMAGE" ELSE "COLOR"
    /\ draft' = [draft EXCEPT !.image = draft.image /\ mode' = "IMAGE"]
    /\ UNCHANGED <<configuration, pageVars, initial, readOnly, baseline, appsReady, appsFetch, upload,
                   confirmKeys, put, history>>

UploadStart ==
    /\ Editable /\ mode = "IMAGE" /\ draft.name # "" /\ ~upload /\ upload' = TRUE
    /\ UNCHANGED <<configuration, pageVars, initial, readOnly, draft, baseline, appsReady, appsFetch, mode,
                   confirmKeys, put, history>>

\* The answer lands in the draft whatever the editor shows by then.
UploadAnswers ==
    /\ upload /\ upload' = FALSE
    /\ \/ draft' = [draft EXCEPT !.image = TRUE] /\ UNCHANGED budget
       \/ Fault /\ UNCHANGED draft
    /\ UNCHANGED <<configuration, pageVars, initial, readOnly, baseline, appsReady, appsFetch, mode,
                   confirmKeys, put, history>>

-----------------------------------------------------------------------------
(* Saving. *)

\* The Save button is there, enabled, and requestSave does not return early.
CanSaveEarly == isOpen /\ ~readOnly /\ draft.name # "" /\ put = NoPut /\ confirmKeys = {}
CanSave == isOpen /\ ~readOnly /\ appsReady /\ draft.name # "" /\ put = NoPut /\ confirmKeys = {}

doSave(confirmed) ==
    /\ Write({})
    /\ put' = [st |-> "sent", cfg |-> draft, edit |-> ~isNew, confirmed |-> confirmed,
            count |-> affectedDeviceCount(initial), entrusted |-> entrusted, outdated |-> outdated]

ChangedKeys == IF isNew THEN {} ELSE kioskAffectingChanges(baseline, draft)
MustConfirmKnown == ChangedKeys # {} /\ affectedDeviceCount(initial) > 0
MustConfirm == ChangedKeys # {} /\ affectedDeviceCount(initial) # 0

requestSave ==
    /\ CanSave
    /\ IF MustConfirm THEN confirmKeys' = ChangedKeys /\ UNCHANGED <<put, budget>>
                      ELSE doSave(FALSE) /\ UNCHANGED confirmKeys
    /\ UNCHANGED <<configuration, pageVars, initial, readOnly, draft, baseline, appsReady, appsFetch, mode,
                   upload, history>>

\* The two buttons of the dialog.
KioskChangeConfirm ==
    /\ confirmKeys # {} /\ confirmKeys' = {}
    /\ \/ UNCHANGED <<put, budget>>
       \/ doSave(TRUE)
    /\ UNCHANGED <<configuration, pageVars, initial, readOnly, draft, baseline, appsReady, appsFetch, mode,
                   upload, history>>

\* A row changed on the server to c: what an open editor of it knows is outdated.
Elsewhere(i, c) ==
    /\ entrusted' = IF isOpen /\ draft.id = i THEN entrusted \cap Assigned(c) ELSE entrusted
    /\ outdated' = (outdated \/ (isOpen /\ draft.id = i))

\* The server replaces the row and its whole app set; a name may be used once.
PutApplied ==
    /\ put.st = "sent" /\ ~NameInUse(put.cfg.name, put.cfg.id)
    /\ \E i \in IF put.cfg.id = None THEN Unused ELSE {put.cfg.id} :
        /\ put.cfg.id = None \/ configuration[i] # NoConfig
        /\ configuration' = [configuration EXCEPT ![i] = [put.cfg EXCEPT !.id = i]]
        /\ Elsewhere(i, put.cfg)
        /\ budget' = [budget EXCEPT !.created = @ \cup ({i} \cap Fresh)]
    /\ put' = [put EXCEPT !.st = "saved"]
    /\ UNCHANGED <<pageVars, editorVars>>

\* Refused, lost on the way, or applied with the answer lost.
PutFails ==
    /\ \/ put.st = "sent" /\ NameInUse(put.cfg.name, put.cfg.id) /\ UNCHANGED budget
       \/ put.st # "none" /\ Fault
    /\ put' = NoPut
    /\ UNCHANGED <<configuration, pageVars, editorVars, history>>

\* onSaved closes whichever editor is open by now, and reloads the list.
onSaved ==
    /\ put.st = "saved" /\ put' = NoPut /\ Unmount /\ loading' = TRUE
    /\ UNCHANGED <<configuration, configs, sync, budget>>

-----------------------------------------------------------------------------
(* Other admins, through their own consoles. *)

OtherSave(i) ==
    /\ configuration[i] # NoConfig /\ Spend("others", MaxOthers)
    /\ \E c \in {[configuration[i] EXCEPT !.kioskMode = ~@]} \cup
              {WithAction(configuration[i], a, IF a \in Assigned(configuration[i]) THEN "unassigned" ELSE "install") : a \in Apps} :
        configuration' = [configuration EXCEPT ![i] = c] /\ Elsewhere(i, c)
    /\ put' = [put EXCEPT !.outdated = put.outdated \/ put.cfg.id = i]
    /\ UNCHANGED <<pageVars, editorVars>>

EditorNext ==
    \/ load
    \/ \E i \in Ids : CopyModal(i) \/ doDelete(i) \/ Edit(i)
    \/ NewChooser \/ onDuplicate \/ onCancel
    \/ AppsAnswer \/ AppsFails \/ Retry
    \/ setField \/ addApps \/ handleModeChange \/ UploadStart \/ UploadAnswers
    \/ \E a \in Apps : removeApp(a) \/ \E action \in {"install", "remove"} : setAppAction(a, action)
    \/ requestSave \/ KioskChangeConfirm \/ PutApplied \/ PutFails \/ onSaved
    \/ \E i \in Own : OtherSave(i)

EditorSpec == EditorInit /\ [][EditorNext]_editorPageVars

-----------------------------------------------------------------------------
Put == [st : {"none", "sent", "saved"}, cfg : Config, edit : BOOLEAN, confirmed : BOOLEAN, count : -1..1,
        entrusted : SUBSET Apps, outdated : BOOLEAN]
EditorTypes ==
    /\ configuration \in [Ids -> Config] /\ configs \in [Ids -> Config]
    /\ sync \in [Ids -> SyncRow \cup {NoRow}] /\ loading \in BOOLEAN
    /\ initial \in Config /\ draft \in Config /\ baseline \in Config
    /\ readOnly \in BOOLEAN /\ appsReady \in BOOLEAN /\ upload \in BOOLEAN
    /\ outdated \in BOOLEAN
    /\ appsFetch \in {"none", "pending", "failed"} /\ mode \in {"COLOR", "IMAGE"}
    /\ confirmKeys \subseteq KIOSK_AFFECTING_KEYS /\ entrusted \subseteq Apps
    /\ put \in Put

\* The types, and an editor that is open has what its Save waits for, or a row to ask it of.
EditorTypeOK ==
    /\ EditorTypes
    /\ isOpen => appsReady \/ ~isNew \/ draft.id # None

\* A save never drops an app that the configuration had when its editor was opened and
\* that nobody removed since, however late, stale or failed the list and the fetch of
\* its apps were (the comments at ConfigurationsPage 399-403 and configurations.ts 56-62).
NoWipe == put.st = "sent" /\ put.cfg.id # None => put.entrusted \subseteq Assigned(put.cfg)

\* No save changes what the kiosk of a configuration's devices depends on without the dialog
\* (ConfigurationsPage 503-505), with three exceptions. The page knew that no device would
\* re-apply it. The row had changed on the server since this editor was filled, by another
\* admin or by an own save whose answer was lost: what the editor compares with is then no
\* longer there, and the code does switch kiosk back without asking. The editor takes the
\* save for one of a new configuration, as it does of a duplicated default, whose id the
\* draft keeps (see LockedUntouched).
SilentKioskAvoided ==
    \A i \in Ids :
        (put.st = "sent" /\ put'.st = "saved" /\ put.edit /\ put.cfg.id = i /\ ~put.outdated
            /\ kioskAffectingChanges(configuration[i], configuration'[i]) # {})
        => put.confirmed \/ put.count = 0
NoSilentKiosk == [][SilentKioskAvoided]_editorPageVars

\* "The seeded device-template defaults are locked: view-only" (ConfigurationsPage 26):
\* nothing this page does changes one.
LockedUntouched == \A i \in Locked : configuration[i] = Seeded(i)
=============================================================================
