------------------------------- MODULE Console -------------------------------
(***************************************************************************)
(* The web console: the page a tab is on, each of the modules below.  The   *)
(* pages share no state of the browser but who is signed in; what one does  *)
(* to another goes through the server, which each module lets change under  *)
(* its page.  A behaviour of Console is one of the page the tab is on, with *)
(* what the page leaves running when it is left; the other pages are off.   *)
(***************************************************************************)
EXTENDS Integers, FiniteSets

CONSTANTS
    Apps, Locked, Own, Fresh, MaxEdits, MaxSaves, MaxFaults, MaxOthers,
    ScanDevices, Packages, MaxRuns, MaxScanFaults,
    Apks, Bundles, Seeds, Named, Targets, Templates, MaxClicks, MaxAppFaults,
    MaxReplacements,
    Devices, Pickable, MaxSteps, MaxLost,
    FleetDevices, Matching, LibraryApps, MaxSearches, MaxFleetSteps, MaxFleetFaults,
    MaxLoops, MaxPresses, MaxTurns,
    Tabs, Users, MaxSessions, MaxResets, MaxCalls

ASSUME ConsoleAssumption ==
    /\ {MaxRuns, MaxScanFaults, MaxClicks, MaxPresses} \subseteq Nat /\ MaxLoops \in Nat \ {0}
    /\ Apks \cap Bundles = {} /\ "nothing" \notin Apks \cup Bundles \cup Seeds \cup Named
    /\ "absent" \notin Devices

VARIABLES
    page,           \* the page, or the dialog of one that works by itself
    configuration, configs, sync, loading, initial, readOnly, draft, baseline, appsReady,
    appsFetch, mode, upload, confirmKeys, put, entrusted, outdated, budget,
    library, devices, targetMode, selectedDeviceIds, status, current, runs, hiddenRuns, scanFaults,
    inLibrary, links, apps, source, form, uploads, adding, resolving, deploy,
    picked, tab, config, pushes, assign, installs, query, asked, results, spent,
    route, loads, device, deviceLoading, railBusy, panel, reads, active, dialog,
    consoleSent, picker, queries, inflight, commands, wipes, steps,
    fleet, rows, listing, needle, debounce, hidden, searches, selected, opened, target,
    busy, changes, modal, bulks, queued, used,
    supervisor, loops, armed, timer, shown, starting, settings, upd, settingsAsked,
    spentHere,
    passwordReset, authToken, sessions, cookie, stored, user, view, calls, served, outlived,
    asks

\* With the theorems about the editor, which ConsoleProofs cites.
Editor == INSTANCE ConfigEditorProofs
Fetch == INSTANCE AppFetch WITH hidden <- hiddenRuns
Deploy == INSTANCE AppDeploy
Control == INSTANCE DeviceControl WITH loading <- deviceLoading
Fleet == INSTANCE FleetList
Updates == INSTANCE UpdateConsole WITH asked <- settingsAsked
Sign == INSTANCE Session

varsEditor == <<configuration, configs, sync, loading, initial, readOnly, draft, baseline,
                appsReady, appsFetch, mode, upload, confirmKeys, put, entrusted, outdated,
                budget>>
varsFetch == <<library, devices, targetMode, selectedDeviceIds, status, current, runs,
               hiddenRuns, scanFaults>>
varsDeploy == <<inLibrary, links, apps, source, form, uploads, adding, resolving,
                deploy, picked, tab, config, pushes, assign, installs, query,
                asked, results, spent>>
varsControl == <<route, loads, device, deviceLoading, railBusy, panel, reads, active,
                 dialog, consoleSent, picker, queries, inflight, commands, wipes, steps>>
varsFleet == <<fleet, rows, listing, needle, debounce, hidden, searches, selected, opened,
               target, busy, changes, modal, bulks, queued, used>>
varsUpdates == <<supervisor, loops, armed, timer, shown, starting, settings, upd,
                 settingsAsked, spentHere>>
varsSign == <<passwordReset, authToken, sessions, cookie, stored, user, view, calls,
              served, outlived, asks>>
vars == <<page, varsEditor, varsFetch, varsDeploy, varsControl, varsFleet, varsUpdates, varsSign>>

Off == "off"
OffEditor == configuration = Off /\ configs = Off /\ sync = Off /\ loading = Off /\
             initial = Off /\ readOnly = Off /\ draft = Off /\ baseline = Off /\ appsReady = Off /\
             appsFetch = Off /\ mode = Off /\ upload = Off /\ confirmKeys = Off /\ put = Off /\
             entrusted = Off /\ outdated = Off /\ budget = Off
OffFetch == library = Off /\ devices = Off /\ targetMode = Off /\ selectedDeviceIds = Off /\
            status = Off /\ current = Off /\ runs = Off /\ hiddenRuns = Off /\ scanFaults = Off
OffDeploy == inLibrary = Off /\ links = Off /\ apps = Off /\ source = Off /\ form = Off /\
             uploads = Off /\ adding = Off /\ resolving = Off /\ deploy = Off /\
             picked = Off /\ tab = Off /\ config = Off /\ pushes = Off /\ assign = Off /\
             installs = Off /\ query = Off /\ asked = Off /\ results = Off /\
             spent = Off
OffControl == route = Off /\ loads = Off /\ device = Off /\ deviceLoading = Off /\
              railBusy = Off /\ panel = Off /\ reads = Off /\ active = Off /\ dialog = Off /\
              consoleSent = Off /\ picker = Off /\ queries = Off /\ inflight = Off /\
              commands = Off /\ wipes = Off /\ steps = Off
OffFleet == fleet = Off /\ rows = Off /\ listing = Off /\ needle = Off /\ debounce = Off /\
            hidden = Off /\ searches = Off /\ selected = Off /\ opened = Off /\ target = Off /\
            busy = Off /\ changes = Off /\ modal = Off /\ bulks = Off /\ queued = Off /\ used = Off
OffUpdates == supervisor = Off /\ loops = Off /\ armed = Off /\ timer = Off /\ shown = Off /\
              starting = Off /\ settings = Off /\ upd = Off /\ settingsAsked = Off /\
              spentHere = Off
OffSign == passwordReset = Off /\ authToken = Off /\ sessions = Off /\ cookie = Off /\
           stored = Off /\ user = Off /\ view = Off /\ calls = Off /\ served = Off /\
           outlived = Off /\ asks = Off

-----------------------------------------------------------------------------
(* One page. *)

Init ==
    \/ page = "configs" /\ Editor!EditorInit
       /\ OffFetch /\ OffDeploy /\ OffControl /\ OffFleet /\ OffUpdates /\ OffSign
    \/ page = "fetch" /\ Fetch!FetchInit
       /\ OffEditor /\ OffDeploy /\ OffControl /\ OffFleet /\ OffUpdates /\ OffSign
    \/ page = "apps" /\ Deploy!DeployInit
       /\ OffEditor /\ OffFetch /\ OffControl /\ OffFleet /\ OffUpdates /\ OffSign
    \/ page = "device" /\ Control!ControlInit
       /\ OffEditor /\ OffFetch /\ OffDeploy /\ OffFleet /\ OffUpdates /\ OffSign
    \/ page = "fleet" /\ Fleet!FleetInit
       /\ OffEditor /\ OffFetch /\ OffDeploy /\ OffControl /\ OffUpdates /\ OffSign
    \/ page = "updates" /\ Updates!UpdateConsoleInit
       /\ OffEditor /\ OffFetch /\ OffDeploy /\ OffControl /\ OffFleet /\ OffSign
    \/ page = "session" /\ Sign!SessionInit
       /\ OffEditor /\ OffFetch /\ OffDeploy /\ OffControl /\ OffFleet /\ OffUpdates

Next ==
    \/ page = "configs" /\ Editor!EditorNext
       /\ UNCHANGED <<page, varsFetch, varsDeploy, varsControl, varsFleet, varsUpdates, varsSign>>
    \/ page = "fetch" /\ Fetch!FetchNext
       /\ UNCHANGED <<page, varsEditor, varsDeploy, varsControl, varsFleet, varsUpdates, varsSign>>
    \/ page = "apps" /\ Deploy!DeployNext
       /\ UNCHANGED <<page, varsEditor, varsFetch, varsControl, varsFleet, varsUpdates, varsSign>>
    \/ page = "device" /\ Control!ControlNext
       /\ UNCHANGED <<page, varsEditor, varsFetch, varsDeploy, varsFleet, varsUpdates, varsSign>>
    \/ page = "fleet" /\ Fleet!FleetNext
       /\ UNCHANGED <<page, varsEditor, varsFetch, varsDeploy, varsControl, varsUpdates, varsSign>>
    \/ page = "updates" /\ Updates!UpdateConsoleNext
       /\ UNCHANGED <<page, varsEditor, varsFetch, varsDeploy, varsControl, varsFleet, varsSign>>
    \/ page = "session" /\ Sign!SessionNext
       /\ UNCHANGED <<page, varsEditor, varsFetch, varsDeploy, varsControl, varsFleet, varsUpdates>>

Spec == Init /\ [][Next]_vars

-----------------------------------------------------------------------------
ConsoleTypeOK ==
    /\ page = "configs" => Editor!EditorTypeOK
    /\ page = "fetch" => Fetch!FetchTypeOK
    /\ page = "apps" => Deploy!DeployTypeOK
    /\ page = "device" => Control!ControlTypeOK
    /\ page = "fleet" => Fleet!FleetTypeOK
    /\ page = "updates" => Updates!UpdateConsoleTypeOK
    /\ page = "session" => Sign!SessionTypeOK

\* A save of a configuration never drops an app that was there when its editor was opened
\* and that nobody removed, however late or failed the list and the fetch of its apps were
\* (the comments at ConfigurationsPage 399-403 and configurations.ts 56-62).
NoWipe == page = "configs" => Editor!NoWipe

\* No save changes what the kiosk of the devices depends on without the dialog, with three
\* exceptions: the page knew that no device would re-apply it; the row had changed on the
\* server since the editor was filled, by another admin or by an own save whose answer was
\* lost, so that the editor compares with what is no longer there; or the editor takes the
\* save for one of a new configuration, which it does of a duplicated default
\* (ConfigurationsPage 503-505).
NoSilentKiosk == [][page = "configs" => Editor!SilentKioskAvoided]_vars

\* What goes out is what the screen stands for, with the exceptions that are named where each
\* is stated. A fetch that goes on can be cancelled, unless an older one's end hid it. WIPE is
\* typed in the dialog that wipes, for the device it wipes, unless a late load swapped it. A
\* kiosk that pins one app gets one. A deletion never runs against a move of the same
\* devices; nothing destructive goes to many. The update banner has one chain of polls,
\* which never breaks.
ScreenIsTrue ==
    /\ page = "fetch" => Fetch!CancelReaches
    /\ page = "device" => Control!WipeTyped /\ Control!PinsOne
    /\ page = "fleet" => Fleet!OneChange /\ Fleet!BulkIsSafe
    /\ page = "updates" => Updates!OneChain

\* Answers that come late. A fetch that was told to stop asks and adds nothing more, and so
\* does the kiosk picker when it is closed. Results that appear are those of the query in the
\* field. Assigning an app leaves the configurations alone that install or remove it, but for
\* a row that another admin's assignment updated in place since it was read. A device is
\* selected only while its row is shown.
LateAnswers ==
    [][/\ page = "fetch" => Fetch!FetchStaysStopped
       /\ page = "apps" => Deploy!ResultsOfQuery /\ Deploy!AssignLeavesActive
       /\ page = "device" => Control!PickerStaysStopped
       /\ page = "fleet" => Fleet!SelectedIsShown]_vars

\* No session that lives on from before another admin set the password of its account is
\* ever served again, nor one of an account that has to change it first (AuthFilter 60-118).
SessionCurrent == page = "session" => Sign!SessionCurrent
=============================================================================
