------------------------------ MODULE AppDeploy ------------------------------
(***************************************************************************)
(* The apps page of the web console: the library, a package added by name,  *)
(* a dropped APK or split bundle, the F-Droid search, and the deploy dialog *)
(* that pushes an app to devices or adds it to a configuration. Uploads,    *)
(* searches and lookups answer late, and a dialog does not wait for them.   *)
(***************************************************************************)
EXTENDS Integers, FiniteSets

CONSTANTS
    Apks, Bundles,      \* files an admin may drop
    Seeds,              \* apps the library has from the start
    Named,              \* packages added by their name, without an APK
    Targets,            \* devices
    Templates,          \* configurations
    MaxClicks,          \* what the admin does in one session
    MaxAppFaults,       \* failed requests
    MaxReplacements     \* configurations or links saved by other admins

VARIABLES
    inLibrary,      \* server: the library
    links,          \* server: what each configuration does with each app
    apps,           \* library tab: the apps it lists
    source,         \* page: the tab
    form,           \* custom tab: whose package, URL, bundle and library id its fields hold
    uploads,        \* custom tab: the files being handled, each with the step it waits for
    adding,         \* custom tab: the app whose explicit save is in flight, or Nothing
    resolving,      \* page: apps looked up before their dialog opens
    deploy,         \* page: the subject of the deploy dialog, or NoSubject
    picked, tab, config,    \* dialog: devices, tab and configuration chosen
    pushes,         \* each press of Deploy to devices
    assign,         \* the assignment in flight
    installs,       \* server: the installs queued
    query, asked, results,  \* F-Droid tab: the query, requests in flight, whose results it shows
    spent           \* clicks, faults and replacements so far

formVars == <<form, uploads, adding>>
dialogVars == <<deploy, picked, tab, config, pushes, assign, installs>>
fdroidVars == <<query, asked, results>>

Files == Apks \cup Bundles
AllApps == Files \cup Seeds \cup Named
Sources == {"library", "pkg", "custom", "fdroid"}
Nothing == "nothing"
\* "hide" is a row with action 0, "none" is no row.
LinkActions == {"none", "hide", "install", "remove"}
EmptyForm == [pkg |-> Nothing, url |-> Nothing, bundle |-> Nothing, saved |-> Nothing]
Subject == [pkg : AllApps \cup {"fdroid", "typed"}, url : AllApps \cup {Nothing, "fdroid", "typed"},
            parts : Bundles \cup {Nothing}, app : AllApps \cup {Nothing}]
NoSubject == [pkg |-> Nothing, url |-> Nothing, parts |-> Nothing, app |-> Nothing]
Press == 1..MaxClicks
NoPush == [st |-> "idle", subject |-> NoSubject, left |-> {}, mounted |-> FALSE]
\* renewed: rows inserted or deleted since they were read; overtaken: rows others updated in place.
NoAssign == [st |-> "idle", app |-> Nothing, config |-> Nothing, read |-> [c \in Templates |-> "none"],
             renewed |-> {}, overtaken |-> {}, mounted |-> FALSE]

Click == spent.clicks < MaxClicks /\ spent' = [spent EXCEPT !.clicks = @ + 1]
AppFault == spent.faults < MaxAppFaults /\ spent' = [spent EXCEPT !.faults = @ + 1]

DeployInit ==
    /\ inLibrary = Seeds
    /\ links \in [AllApps -> [Templates -> LinkActions]]
    /\ \A f \in Files \cup Named : links[f] = [c \in Templates |-> "none"]
    /\ apps = {} /\ source = "library"
    /\ form = EmptyForm /\ uploads = {} /\ adding = Nothing
    /\ resolving = {} /\ deploy = NoSubject /\ picked = {} /\ tab = "device" /\ config = Nothing
    /\ pushes = [n \in Press |-> NoPush] /\ assign = NoAssign /\ installs = {}
    /\ query = 0 /\ asked = {} /\ results = -1
    /\ spent = [clicks |-> 0, faults |-> 0, replacements |-> 0]

-----------------------------------------------------------------------------
(* The page and its library tab. The dialog covers everything else. *)

Uncovered == deploy = NoSubject

\* Leaving a tab drops what it holds; what it already sent still reaches the server.
setSource(s) ==
    /\ Uncovered /\ source # s /\ Click
    /\ source' = s /\ apps' = {} /\ form' = EmptyForm /\ uploads' = {} /\ adding' = Nothing
    /\ query' = 0 /\ asked' = {} /\ results' = -1
    /\ UNCHANGED <<inLibrary, links, resolving, dialogVars>>

LibraryLoad ==
    /\ source = "library" /\ apps # inLibrary /\ apps' = inLibrary
    /\ UNCHANGED <<inLibrary, links, source, formVars, resolving, dialogVars, fdroidVars, spent>>

\* The server refuses an app that a configuration refers to.
doDelete(a) ==
    /\ source = "library" /\ Uncovered /\ a \in apps /\ Click
    /\ inLibrary' = IF \E c \in Templates : links[a][c] # "none" THEN inLibrary ELSE inLibrary \ {a}
    /\ UNCHANGED <<links, apps, source, formVars, resolving, dialogVars, fdroidVars>>

onDeploy(a) ==
    /\ source = "library" /\ Uncovered /\ a \in apps /\ Click
    /\ resolving' = resolving \cup {a}
    /\ UNCHANGED <<inLibrary, links, apps, source, formVars, dialogVars, fdroidVars>>

\* A dialog that opens is new, one that gets another subject keeps what was chosen.
Show(s) ==
    /\ deploy' = s
    /\ IF deploy = NoSubject THEN picked' = {} /\ tab' = "device" /\ config' = Nothing
                             ELSE UNCHANGED <<picked, tab, config>>
    /\ UNCHANGED <<pushes, assign, installs>>

\* The latest version that can be installed, or the app's own fields; without either no
\* dialog opens.
resolveApp(a) ==
    /\ a \in resolving /\ resolving' = resolving \ {a}
    /\ \/ /\ a \notin Named
          /\ Show([pkg |-> a, url |-> IF a \in Bundles THEN Nothing ELSE a,
                   parts |-> IF a \in Bundles THEN a ELSE Nothing, app |-> a])
          /\ UNCHANGED spent
       \/ a \in Named /\ UNCHANGED <<dialogVars, spent>>
       \/ UNCHANGED dialogVars /\ AppFault
    /\ UNCHANGED <<inLibrary, links, apps, source, formVars, fdroidVars>>

\* Add by package name; a package that is there already is found there.
PackageNameSource(a) ==
    /\ source = "pkg" /\ Uncovered /\ Click /\ inLibrary' = inLibrary \cup {a}
    /\ UNCHANGED <<links, apps, source, formVars, resolving, dialogVars, fdroidVars>>

-----------------------------------------------------------------------------
(* A dropped file. *)

\* What a fresh file resets before anything is known of it.
ForgetsFile(f) == [form EXCEPT !.saved = Nothing, !.bundle = IF f \in Bundles THEN @ ELSE Nothing]

\* Another drop is taken while a file is being handled.
onFile(f) ==
    /\ source = "custom" /\ Uncovered /\ Click
    /\ form' = ForgetsFile(f)
    /\ uploads' = uploads \cup {[file |-> f, step |-> "upload"]}
    /\ UNCHANGED <<inLibrary, links, apps, source, adding, resolving, dialogVars, fdroidVars>>

Advance(u, step) == uploads' = (uploads \ {u}) \cup {[u EXCEPT !.step = step]}
UploadEnds(u) == uploads' = uploads \ {u}

uploadApk(u) ==
    /\ u \in uploads /\ u.step = "upload" /\ u.file \in Apks
    /\ \/ Advance(u, "commit") /\ form' = [form EXCEPT !.pkg = u.file] /\ UNCHANGED spent
       \/ UploadEnds(u) /\ UNCHANGED form /\ AppFault
    /\ UNCHANGED <<inLibrary, links, apps, source, adding, resolving, dialogVars, fdroidVars>>

\* When the file cannot be hosted the URL stays what it was.
commitUpload(u) ==
    /\ u \in uploads /\ u.step = "commit"
    /\ \/ Advance(u, "save") /\ form' = [form EXCEPT !.url = u.file] /\ UNCHANGED spent
       \/ UploadEnds(u) /\ UNCHANGED form /\ AppFault
    /\ UNCHANGED <<inLibrary, links, apps, source, adding, resolving, dialogVars, fdroidVars>>

BundleFields(u) == [form EXCEPT !.bundle = u.file, !.pkg = u.file, !.url = Nothing]

onBundle(u) ==
    /\ u \in uploads /\ u.step = "upload" /\ u.file \in Bundles
    /\ \/ Advance(u, "save") /\ form' = BundleFields(u) /\ UNCHANGED spent
       \/ UploadEnds(u) /\ UNCHANGED form /\ AppFault
    /\ UNCHANGED <<inLibrary, links, apps, source, adding, resolving, dialogVars, fdroidVars>>

\* Added to the library by itself; an APK that is there already is looked up.
AutoAdd(u) ==
    /\ u \in uploads /\ u.step = "save" /\ UploadEnds(u)
    /\ \/ /\ inLibrary' = inLibrary \cup {u.file} /\ form' = [form EXCEPT !.saved = u.file]
          /\ UNCHANGED spent
       \/ UNCHANGED <<inLibrary, form>> /\ AppFault
    /\ UNCHANGED <<links, apps, source, adding, resolving, dialogVars, fdroidVars>>

TypeField ==
    /\ source = "custom" /\ Uncovered /\ Click
    /\ \/ form' = [form EXCEPT !.pkg = "typed"]
       \/ form.bundle = Nothing /\ form' = [form EXCEPT !.url = "typed"]
    /\ UNCHANGED <<inLibrary, links, apps, source, uploads, adding, resolving, dialogVars, fdroidVars>>

\* Add to Library: enabled with a package and a URL, or a bundle.
saveToLibrary ==
    /\ source = "custom" /\ Uncovered /\ adding = Nothing /\ Click
    /\ form.pkg # Nothing /\ (form.url # Nothing \/ form.bundle # Nothing)
    /\ adding' = IF form.pkg = "typed" THEN Nothing ELSE form.pkg
    /\ UNCHANGED <<inLibrary, links, apps, source, form, uploads, resolving, dialogVars, fdroidVars>>

\* Its answer sets the library id of whatever the form holds by then.
Added ==
    /\ adding # Nothing /\ adding' = Nothing
    /\ \/ inLibrary' = inLibrary \cup {adding} /\ form' = [form EXCEPT !.saved = adding] /\ UNCHANGED spent
       \/ UNCHANGED <<inLibrary, form>> /\ AppFault
    /\ UNCHANGED <<links, apps, source, uploads, resolving, dialogVars, fdroidVars>>

\* Deploy... is not held back by an upload. A bundle goes without its library id.
submit ==
    /\ source = "custom" /\ Uncovered /\ Click /\ form.pkg # Nothing
    /\ \/ /\ form.bundle # Nothing
          /\ Show([pkg |-> form.pkg, url |-> Nothing, parts |-> form.bundle, app |-> Nothing])
       \/ /\ form.bundle = Nothing /\ form.url # Nothing
          /\ Show([pkg |-> form.pkg, url |-> form.url, parts |-> Nothing, app |-> form.saved])
    /\ UNCHANGED <<inLibrary, links, apps, source, formVars, resolving, fdroidVars>>

-----------------------------------------------------------------------------
(* The F-Droid tab: 350 ms after the last keystroke it asks for the query. *)

setQ ==
    /\ source = "fdroid" /\ Uncovered /\ Click /\ query' = query + 1
    /\ UNCHANGED <<inLibrary, links, apps, source, formVars, resolving, dialogVars, asked, results>>

Debounced ==
    /\ source = "fdroid" /\ query \notin asked /\ results # query /\ asked' = asked \cup {query}
    /\ UNCHANGED <<inLibrary, links, apps, source, formVars, resolving, dialogVars, query, results, spent>>

ShowsLast(k) == k
ShowsCurrent(k) == IF k = query THEN k ELSE results

\* An answer, or a failure, that belongs to an older query is dropped.
searchFdroid(k) ==
    /\ k \in asked /\ asked' = asked \ {k} /\ results' = ShowsCurrent(k)
    /\ UNCHANGED <<inLibrary, links, apps, source, formVars, resolving, dialogVars, query, spent>>

deployFdroid ==
    /\ source = "fdroid" /\ Uncovered /\ results # -1 /\ Click
    /\ Show([pkg |-> "fdroid", url |-> "fdroid", parts |-> Nothing, app |-> Nothing])
    /\ UNCHANGED <<inLibrary, links, apps, source, formVars, resolving, fdroidVars>>

-----------------------------------------------------------------------------
(* The deploy dialog. *)

isUp == deploy # NoSubject
\* busy belongs to the dialog that pressed; a new dialog is free.
busy == (\E n \in Press : pushes[n].st = "going" /\ pushes[n].mounted) \/ (assign.st # "idle" /\ assign.mounted)
Gone(ps) == [n \in Press |-> [ps[n] EXCEPT !.mounted = FALSE]]
AssignGone == assign' = [assign EXCEPT !.mounted = FALSE]
Close == deploy' = NoSubject /\ picked' = {} /\ tab' = "device" /\ config' = Nothing

\* Cancel waits for a busy dialog, a click beside it does not.
onClose ==
    /\ isUp /\ Click /\ Close /\ pushes' = Gone(pushes) /\ AssignGone
    /\ UNCHANGED <<inLibrary, links, apps, source, formVars, resolving, installs, fdroidVars>>

toggle(d) ==
    /\ isUp /\ tab = "device" /\ Click
    /\ picked' = IF d \in picked THEN picked \ {d} ELSE picked \cup {d}
    /\ UNCHANGED <<inLibrary, links, apps, source, formVars, resolving, deploy, tab, config, pushes, assign,
                   installs, fdroidVars>>

chooseConfig(c) ==
    /\ isUp /\ deploy.app # Nothing /\ Click /\ tab' = "config" /\ config' = c
    /\ UNCHANGED <<inLibrary, links, apps, source, formVars, resolving, deploy, picked, pushes, assign,
                   installs, fdroidVars>>

pushNow(n) ==
    /\ isUp /\ tab = "device" /\ picked # {} /\ ~busy /\ Click
    /\ pushes[n].st = "idle" /\ \A m \in 1..(n - 1) : pushes[m].st # "idle"
    /\ pushes' = [pushes EXCEPT ![n] = [st |-> "going", subject |-> deploy, left |-> picked, mounted |-> TRUE]]
    /\ UNCHANGED <<inLibrary, links, apps, source, formVars, resolving, deploy, picked, tab, config, assign,
                   installs, fdroidVars>>

\* One device after the other; one that fails is counted and passed over.
installApp(n) ==
    /\ pushes[n].st = "going"
    /\ \E d \in pushes[n].left :
        /\ pushes' = [pushes EXCEPT ![n].left = @ \ {d}]
        /\ \/ installs' = installs \cup {<<d, pushes[n].subject>>} /\ UNCHANGED spent
           \/ UNCHANGED installs /\ AppFault
    /\ UNCHANGED <<inLibrary, links, apps, source, formVars, resolving, deploy, picked, tab, config, assign,
                   fdroidVars>>

\* The end of a push closes whichever dialog is up.
PushEnds(n) ==
    /\ pushes[n].st = "going" /\ pushes[n].left = {}
    /\ pushes' = Gone([pushes EXCEPT ![n].st = "ended"]) /\ AssignGone /\ Close
    /\ UNCHANGED <<inLibrary, links, apps, source, formVars, resolving, installs, fdroidVars, spent>>

\* assignConfig reads the links of the app, then posts them all back with one changed. One
\* assignment at a time is modelled, also across dialogs.
assignConfig ==
    /\ isUp /\ tab = "config" /\ config # Nothing /\ deploy.app # Nothing /\ ~busy /\ Click
    /\ assign.st = "idle"
    /\ assign' = [NoAssign EXCEPT !.st = "read", !.app = deploy.app, !.config = config, !.mounted = TRUE]
    /\ UNCHANGED <<inLibrary, links, apps, source, formVars, resolving, deploy, picked, tab, config, pushes,
                   installs, fdroidVars>>

getAppConfigLinks ==
    /\ assign.st = "read"
    /\ \/ assign' = [assign EXCEPT !.st = "post", !.read = links[assign.app]] /\ UNCHANGED spent
       \/ assign' = NoAssign /\ AppFault
    /\ UNCHANGED <<inLibrary, links, apps, source, formVars, resolving, deploy, picked, tab, config, pushes,
                   installs, fdroidVars>>

updated(read, to) == [read EXCEPT ![to] = "install"]

\* What the server makes of the posted links: action 0 deletes the row of that id, another
\* action updates it, a link without an id is inserted; an id that is gone hits nothing.
Linked(a, c) ==
    LET sent == updated(assign.read, assign.config)[c] IN
    IF assign.read[c] = "none" THEN IF sent = "none" THEN links[a][c] ELSE sent
    ELSE IF c \in assign.renewed THEN links[a][c]
    ELSE IF sent = "hide" THEN "none" ELSE sent

updateAppConfigLinks ==
    /\ assign.st = "post" /\ assign' = NoAssign
    /\ \/ /\ links' = [links EXCEPT ![assign.app] = [c \in Templates |-> Linked(assign.app, c)]]
          /\ Close /\ pushes' = Gone(pushes) /\ UNCHANGED spent
       \/ UNCHANGED <<links, deploy, picked, tab, config, pushes>> /\ AppFault
    /\ UNCHANGED <<inLibrary, apps, source, formVars, resolving, installs, fdroidVars>>

\* Another admin saves a configuration: its rows are deleted and inserted again. It matters
\* while an assignment is under way; before one, another start leads to the same links.
ConfigReplaced(c) ==
    /\ assign.st # "idle" /\ spent.replacements < MaxReplacements
    /\ spent' = [spent EXCEPT !.replacements = @ + 1]
    /\ \E a \in inLibrary, to \in LinkActions : links' = [links EXCEPT ![a][c] = to]
    /\ assign' = IF assign.st = "post"
                 THEN [assign EXCEPT !.renewed = @ \cup {c}, !.overtaken = @ \ {c}] ELSE assign
    /\ UNCHANGED <<inLibrary, apps, source, formVars, resolving, deploy, picked, tab, config, pushes,
                   installs, fdroidVars>>

NewRows(c) == {t \in Templates : links[assign.app][t] = IF t = c THEN "none" ELSE "hide"}
Overtaken(c) == [assign EXCEPT !.renewed = @ \cup NewRows(c),
                               !.overtaken = (@ \cup {c}) \ (assign.renewed \cup NewRows(c))]

\* Another admin assigns app a to c, from links read at once: a row keeps its id when its
\* action changes, hidden ones are deleted, a missing one is inserted.
LinksPosted(a, c) ==
    /\ assign.st # "idle" /\ spent.replacements < MaxReplacements
    /\ spent' = [spent EXCEPT !.replacements = @ + 1]
    /\ links' = [links EXCEPT ![a] = [t \in Templates |->
           IF t = c THEN "install" ELSE IF links[a][t] = "hide" THEN "none" ELSE links[a][t]]]
    /\ assign' = IF assign.st = "post" /\ a = assign.app THEN Overtaken(c) ELSE assign
    /\ UNCHANGED <<inLibrary, apps, source, formVars, resolving, deploy, picked, tab, config, pushes,
                   installs, fdroidVars>>

DeployNext ==
    \/ \E s \in Sources : setSource(s)
    \/ LibraryLoad \/ TypeField \/ saveToLibrary \/ Added \/ submit
    \/ setQ \/ Debounced \/ deployFdroid
    \/ \E a \in AllApps : doDelete(a) \/ onDeploy(a) \/ resolveApp(a)
    \/ \E a \in Named : PackageNameSource(a)
    \/ \E f \in Files : onFile(f)
    \/ \E u \in uploads : uploadApk(u) \/ commitUpload(u) \/ onBundle(u) \/ AutoAdd(u)
    \/ \E k \in asked : searchFdroid(k)
    \/ onClose \/ assignConfig \/ getAppConfigLinks \/ updateAppConfigLinks
    \/ \E d \in Targets : toggle(d)
    \/ \E c \in Templates : chooseConfig(c) \/ ConfigReplaced(c) \/ \E a \in inLibrary : LinksPosted(a, c)
    \/ \E n \in Press : pushNow(n) \/ installApp(n) \/ PushEnds(n)

-----------------------------------------------------------------------------
DeployTypeOK ==
    /\ inLibrary \subseteq AllApps /\ apps \subseteq AllApps /\ resolving \subseteq AllApps
    /\ links \in [AllApps -> [Templates -> LinkActions]]
    /\ source \in Sources
    /\ uploads \subseteq [file : Files, step : {"upload", "commit", "save"}]
    /\ deploy \in Subject \cup {NoSubject} /\ picked \subseteq Targets
    /\ tab \in {"device", "config"} /\ config \in Templates \cup {Nothing}
    /\ asked \subseteq 0..MaxClicks /\ query \in 0..MaxClicks /\ results \in -1..MaxClicks

\* Results that appear are those of the query in the field (FDroidSource 802-821).
ResultsOfQuery == results' # results /\ results' # -1 => results' = query

AssignLeaves(c) ==
    assign.st = "post" /\ assign'.st = "idle" /\ c # assign.config
        => links'[assign.app][c] = links[assign.app][c]

\* Adding an app to a configuration leaves alone what the others do with it that install or
\* remove it (applications.ts 39), also where a configuration was saved since the links were
\* read. Not so a row that another admin's assignment updated in place since: the post knows
\* it by its id and puts back, or deletes, what it had read (ApplicationDAO 484-496).
AssignLeavesActive ==
    \A c \in Templates \ assign.overtaken :
        assign.st = "post" /\ links[assign.app][c] # "hide" => AssignLeaves(c)
=============================================================================
