------------------------------ MODULE FleetList ------------------------------
(***************************************************************************)
(* The devices page of the web console: the list with its search and        *)
(* filters, the selection, and what is done with it in bulk: move to a      *)
(* configuration, delete, queue a command, install an app, enter kiosk.     *)
(* A dialog closes on its backdrop while its request is still in flight.    *)
(***************************************************************************)
EXTENDS Integers, FiniteSets

CONSTANTS
    FleetDevices,   \* devices of the customer
    Matching,       \* those the search text finds
    LibraryApps,    \* apps of the library
    MaxSearches,    \* list requests
    MaxFleetSteps,  \* what the admin does
    MaxFleetFaults  \* failed requests, and devices another admin deletes

VARIABLES
    fleet,          \* server: the devices there are
    rows,           \* useDevices: the list
    listing,        \* useDevices: its loading flag
    needle,         \* page: whether there is a search text
    debounce,       \* page: the search timer runs
    hidden,         \* page: devices the chips and menus filter out
    searches,       \* list requests
    selected,       \* page
    opened,         \* page: the dialog that is open
    target,         \* page: a configuration is chosen
    busy,           \* page: busy with a move or a deletion
    changes,        \* moves and deletions in flight, at which step they were sent
    modal,          \* the modal of bulk actions
    bulks,          \* its requests in flight
    queued,         \* server: bulk commands accepted
    used            \* steps and faults so far

listVars == <<fleet, rows, listing, needle, debounce, hidden, searches>>
bulkVars == <<opened, target, busy, changes, modal, bulks, queued>>

BulkTemplates == {"safe", "form", "kiosk-enter", "destructive"}
Searches == 1..MaxSearches
NoSearch == [st |-> "none", text |-> FALSE, found |-> {}, ends |-> FALSE]
\* screen: what the modal shows; busy: of the modal, picking: of the kiosk modal inside it
NoModal == [screen |-> "catalog", busy |-> FALSE, filled |-> FALSE, apps |-> FALSE,
            single |-> FALSE, picked |-> {}, picking |-> FALSE]
FleetStep == used.steps < MaxFleetSteps /\ used' = [used EXCEPT !.steps = @ + 1]
FleetFault == used.faults < MaxFleetFaults /\ used' = [used EXCEPT !.faults = @ + 1]

FleetInit ==
    /\ fleet = FleetDevices /\ rows = {} /\ listing = TRUE
    /\ needle = FALSE /\ debounce = FALSE /\ hidden = {}
    /\ searches = [s \in Searches |-> IF s = 1 THEN [NoSearch EXCEPT !.st = "sent"] ELSE NoSearch]
    /\ selected = {} /\ opened = "none" /\ target = FALSE /\ busy = FALSE /\ changes = {}
    /\ modal = NoModal /\ bulks = {} /\ queued = {} /\ used = [steps |-> 0, faults |-> 0]

-----------------------------------------------------------------------------
(* The list. *)

Free == {s \in Searches : searches[s].st = "none"}

\* reload(value) asks; ends says that a change waits for this answer.
Ask(text, ends) ==
    /\ listing' = TRUE
    /\ \E s \in Free : searches' = [searches EXCEPT ![s] =
           [st |-> "sent", text |-> text, found |-> {}, ends |-> ends]]

\* Typing restarts the timer of 300 ms; only when it ends the server is asked.
TypeSearch ==
    /\ opened = "none" /\ FleetStep /\ needle' = ~needle /\ debounce' = TRUE
    /\ UNCHANGED <<fleet, rows, listing, hidden, searches, selected, bulkVars>>

Debounced ==
    /\ debounce /\ debounce' = FALSE /\ Ask(needle, FALSE)
    /\ UNCHANGED <<fleet, rows, needle, hidden, selected, bulkVars, used>>

searchDevices(s) ==
    /\ searches[s].st = "sent"
    /\ searches' = [searches EXCEPT ![s].st = "served",
           ![s].found = IF searches[s].text THEN fleet \cap Matching ELSE fleet]
    /\ UNCHANGED <<fleet, rows, listing, needle, debounce, hidden, selected, bulkVars, used>>

\* Answers are taken in the order they come, an older one too. A failed one empties the
\* list. A change waits for the reload it has asked for, failed or not.
Listed(s) ==
    /\ searches[s].st = "served"
    /\ \/ rows' = searches[s].found /\ UNCHANGED used
       \/ rows' = {} /\ FleetFault
    /\ listing' = FALSE /\ searches' = [searches EXCEPT ![s] = NoSearch]
    /\ busy' = (busy /\ ~searches[s].ends)
    /\ UNCHANGED <<fleet, needle, debounce, hidden, selected, opened, target, changes, modal, bulks, queued>>

\* Chips and menus; a device also changes between online and offline by itself.
SetFilter(h) ==
    /\ opened = "none" /\ FleetStep /\ h # hidden /\ hidden' = h
    /\ UNCHANGED <<fleet, rows, listing, needle, debounce, searches, selected, bulkVars>>

Elsewhere(d) ==
    /\ d \in fleet /\ FleetFault /\ fleet' = fleet \ {d}
    /\ UNCHANGED <<rows, listing, needle, debounce, hidden, searches, selected, bulkVars>>

-----------------------------------------------------------------------------
(* The selection. *)

filtered == (IF needle THEN rows \cap Matching ELSE rows) \ hidden

AllFiltered == filtered
Chosen(ids) == selected' = ids /\ UNCHANGED <<listVars, bulkVars>>

\* The box of a row; with a selection the row itself does the same. A row is there when the
\* list is.
toggle(d) ==
    /\ opened = "none" /\ ~listing /\ d \in filtered /\ FleetStep
    /\ Chosen(IF d \in selected THEN selected \ {d} ELSE selected \cup {d})

selectAllFiltered ==
    /\ opened = "none" /\ FleetStep /\ selected # {} /\ Cardinality(selected) < Cardinality(filtered)
    /\ Chosen(AllFiltered)

toggleAll ==
    /\ opened = "none" /\ ~listing /\ filtered # {} /\ FleetStep
    /\ Chosen(IF filtered \subseteq selected THEN {} ELSE AllFiltered)

clearSel ==
    /\ opened = "none" /\ selected # {} /\ FleetStep /\ Chosen({})

-----------------------------------------------------------------------------
(* Move and delete. *)

\* The buttons of the bar.
OpenDialog(x) ==
    /\ opened = "none" /\ selected # {} /\ FleetStep /\ opened' = x
    /\ UNCHANGED <<listVars, selected, target, busy, changes, modal, bulks, queued>>

setTarget ==
    /\ opened = "move" /\ ~target /\ FleetStep /\ target' = TRUE
    /\ UNCHANGED <<listVars, selected, opened, busy, changes, modal, bulks, queued>>

\* Cancel waits while busy, the backdrop does not.
CloseDialog ==
    /\ opened \in {"move", "delete"} /\ FleetStep /\ opened' = "none"
    /\ UNCHANGED <<listVars, selected, target, busy, changes, modal, bulks, queued>>

MayChange == ~busy /\ opened \in {"delete", "move"} /\ (opened = "move" => target)

\* applyMove and applyDelete.
Apply ==
    /\ MayChange /\ FleetStep /\ busy' = TRUE
    /\ changes' = changes \cup {[kind |-> opened, ids |-> selected, at |-> used.steps]}
    /\ UNCHANGED <<listVars, selected, opened, target, modal, bulks, queued>>

\* After it the page has no selection, whatever it was by then, and reloads the whole list.
Applied(c) ==
    /\ c \in changes /\ changes' = changes \ {c}
    /\ fleet' = IF c.kind = "delete" THEN fleet \ c.ids ELSE fleet
    /\ opened' = IF opened = c.kind THEN "none" ELSE opened
    /\ target' = (target /\ c.kind # "move")
    /\ selected' = {} /\ Ask(FALSE, TRUE)
    /\ UNCHANGED <<rows, needle, debounce, hidden, busy, modal, bulks, queued, used>>

\* It failed, or only its answer did.
ApplyFails(c) ==
    /\ c \in changes /\ FleetFault /\ changes' = changes \ {c} /\ busy' = FALSE
    /\ fleet' \in {fleet, IF c.kind = "delete" THEN fleet \ c.ids ELSE fleet}
    /\ UNCHANGED <<rows, listing, needle, debounce, hidden, searches, selected, opened, target, modal,
                   bulks, queued>>

-----------------------------------------------------------------------------
(* Bulk actions. *)

InModal(m) == modal' = m /\ UNCHANGED <<listVars, selected, opened, target, busy, changes, bulks, queued>>
Screen(x) == opened = "actions" /\ modal.screen = x

\* A request of the modal's catalog, form or apps, or of the kiosk modal inside it. mine: the
\* modal that sent it is still there.
BulkSend(kind, packages) ==
    /\ bulks' = bulks \cup {[kind |-> kind, ids |-> selected, packages |-> packages, mine |-> TRUE,
                             at |-> used.steps]}
    /\ UNCHANGED <<listVars, selected, opened, target, busy, changes, queued>>

bulkable(t) == t \notin {"destructive", "kiosk-enter"}

onPick(t) ==
    /\ Screen("catalog") /\ ~modal.busy /\ bulkable(t) /\ FleetStep
    /\ IF t = "form" THEN InModal([modal EXCEPT !.screen = "form", !.filled = FALSE])
                     ELSE modal' = [modal EXCEPT !.busy = TRUE] /\ BulkSend(t, {})

GoTo(x) ==
    /\ Screen("catalog") /\ ~modal.busy /\ FleetStep
    /\ InModal([modal EXCEPT !.screen = x, !.single = FALSE, !.picked = {}, !.picking = FALSE,
                             !.apps = @ /\ x = "apps"])

FillForm == Screen("form") /\ ~modal.filled /\ FleetStep /\ InModal([modal EXCEPT !.filled = TRUE])

\* Back; from the kiosk modal its backdrop, too, though its request is in flight: what it
\* still has to say only reaches the page.
Back ==
    /\ opened = "actions" /\ modal.screen # "catalog" /\ FleetStep
    /\ modal.screen # "kiosk" => ~modal.busy
    /\ modal' = [modal EXCEPT !.screen = "catalog", !.picking = FALSE]
    /\ bulks' = {[b EXCEPT !.mine = @ /\ (modal.screen = "kiosk" => b.kind # "kiosk")] : b \in bulks}
    /\ UNCHANGED <<listVars, selected, opened, target, busy, changes, queued>>

\* listApplications; an answer that comes after Back is dropped.
AppsListed ==
    /\ modal.screen \in {"apps", "kiosk"} /\ opened = "actions" /\ ~modal.apps /\ UNCHANGED used
    /\ InModal([modal EXCEPT !.apps = TRUE])

runForm ==
    /\ Screen("form") /\ ~modal.busy /\ modal.filled /\ FleetStep
    /\ modal' = [modal EXCEPT !.busy = TRUE] /\ BulkSend("form", {})

runInstall(a) ==
    /\ Screen("apps") /\ modal.apps /\ ~modal.busy /\ FleetStep
    /\ modal' = [modal EXCEPT !.busy = TRUE] /\ BulkSend("install", {a})

togglePkg(a) ==
    /\ Screen("kiosk") /\ modal.apps /\ ~modal.picking /\ FleetStep
    /\ InModal([modal EXCEPT !.picked = IF modal.single THEN IF a \in @ THEN {} ELSE {a}
                                        ELSE IF a \in @ THEN @ \ {a} ELSE @ \cup {a}])

\* Single mode keeps the first of the apps picked.
switchMode ==
    /\ Screen("kiosk") /\ FleetStep
    /\ IF modal.single \/ modal.picked = {}
       THEN InModal([modal EXCEPT !.single = ~modal.single])
       ELSE \E first \in modal.picked : InModal([modal EXCEPT !.single = TRUE, !.picked = {first}])

canApply == modal.picked # {} /\ (modal.single => Cardinality(modal.picked) = 1)

applyKiosk ==
    /\ Screen("kiosk") /\ ~modal.picking /\ canApply /\ FleetStep
    /\ modal' = [modal EXCEPT !.picking = TRUE] /\ BulkSend("kiosk", modal.picked)

\* Close, or the backdrop.
CloseActions ==
    /\ opened = "actions" /\ modal.screen # "kiosk" /\ FleetStep /\ opened' = "none"
    /\ modal' = NoModal /\ bulks' = {[b EXCEPT !.mine = FALSE] : b \in bulks}
    /\ UNCHANGED <<listVars, selected, target, busy, changes, queued>>

\* The server queues the command for each device it still has and skips the others. onDone
\* and onClose then clear the selection and close the modal, whichever is open by then.
queueCommandBulk(b) ==
    /\ b \in bulks
    /\ b.ids # {} /\ b.kind # "destructive"
    /\ queued' = queued \cup {<<d, b.kind>> : d \in b.ids \cap fleet}
    /\ selected' = {} /\ opened' = IF opened = "actions" THEN "none" ELSE opened
    /\ modal' = NoModal /\ bulks' = {[x EXCEPT !.mine = FALSE] : x \in bulks \ {b}}
    /\ UNCHANGED <<listVars, target, busy, changes, used>>

BulkFails(b) ==
    /\ b \in bulks /\ bulks' = bulks \ {b}
    /\ IF b.ids = {} \/ b.kind = "destructive"
       THEN UNCHANGED <<used, queued>>
       ELSE FleetFault /\ queued' \in {queued, queued \cup {<<d, b.kind>> : d \in b.ids \cap fleet}}
    /\ modal' = IF ~b.mine THEN modal
                ELSE IF b.kind = "kiosk" THEN [modal EXCEPT !.picking = FALSE]
                ELSE [modal EXCEPT !.busy = FALSE]
    /\ UNCHANGED <<listVars, selected, opened, target, busy, changes>>

FleetNext ==
    \/ TypeSearch \/ Debounced \/ selectAllFiltered \/ toggleAll \/ clearSel
    \/ setTarget \/ CloseDialog \/ Apply
    \/ FillForm \/ Back \/ AppsListed \/ runForm \/ switchMode \/ applyKiosk \/ CloseActions
    \/ \E s \in Searches : searchDevices(s) \/ Listed(s)
    \/ \E h \in SUBSET FleetDevices : SetFilter(h)
    \/ \E d \in FleetDevices : Elsewhere(d) \/ toggle(d)
    \/ \E x \in {"actions", "move", "delete"} : OpenDialog(x)
    \/ \E c \in changes : Applied(c) \/ ApplyFails(c)
    \/ \E t \in BulkTemplates : onPick(t)
    \/ \E x \in {"apps", "kiosk"} : GoTo(x)
    \/ \E a \in LibraryApps : runInstall(a) \/ togglePkg(a)
    \/ \E b \in bulks : queueCommandBulk(b) \/ BulkFails(b)

-----------------------------------------------------------------------------
FleetTypeOK ==
    /\ fleet \cup rows \cup hidden \cup selected \subseteq FleetDevices
    /\ {listing, needle, debounce, target, busy} \subseteq BOOLEAN
    /\ \A s \in Searches : searches[s].st \in {"none", "sent", "served"}
    /\ opened \in {"none", "actions", "move", "delete"}
    /\ modal.screen \in {"catalog", "form", "apps", "kiosk"} /\ modal.picked \subseteq LibraryApps
    /\ \A c \in changes : c.kind \in {"move", "delete"} /\ c.ids \subseteq FleetDevices

\* A deletion never runs against a move, nor either against another: a dialog that was
\* dismissed while its request is in flight does not let the next one send, until the list
\* was reloaded (DevicesPage 167-198, 383-384, 399-400).
OneChange == Cardinality(changes) <= 1 /\ (changes # {} => busy)

\* Nothing destructive is queued for many devices at once, and a bulk kiosk in single mode
\* pins one app (BulkActionModal 17-22, BulkKioskModal 39-44).
BulkIsSafe ==
    /\ \A b \in bulks : b.kind # "destructive"
    /\ opened = "actions" /\ modal.single => Cardinality(modal.picked) <= 1

\* A device only gets selected while its row is on the screen: a filter or a search never
\* lets Select all take in devices the admin does not see (DevicesPage 134-165).
SelectedIsShown == selected' \ selected \subseteq filtered
=============================================================================
