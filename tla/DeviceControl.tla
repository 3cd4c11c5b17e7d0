----------------------------- MODULE DeviceControl -----------------------------
(***************************************************************************)
(* The device page of the web console: the device it shows, the buttons of  *)
(* its rail, the command templates with their dialogs, and the kiosk picker *)
(* with its scan of the device. Moving between two device pages through the *)
(* browser's history keeps the page mounted, with the loads it has started. *)
(***************************************************************************)
EXTENDS Integers, FiniteSets

CONSTANTS
    Devices,        \* devices of the customer
    Pickable,       \* apps the kiosk picker lists
    MaxSteps,       \* what the admin does in one session
    MaxLost         \* requests that fail

VARIABLES
    route,          \* page: the device number in the address
    loads,          \* page: loads whose answer is awaited
    device,         \* page: the device it shows, or Absent
    loading,        \* page
    railBusy,       \* rail: one of its requests is in flight
    panel,          \* page: the device whose state and telemetry it shows, or Absent
    reads,          \* page: one-time reads of the state that are in flight
    active,         \* console: the template whose dialog is open, or "none"
    dialog,         \* console: what the dialog holds
    consoleSent,    \* console: the command its buttons wait for, or NoCommand
    picker,         \* console: the kiosk picker
    queries,        \* console: the scan and the icon fetch of the picker
    inflight,       \* commands sent, not answered
    commands,       \* server: commands queued
    wipes,          \* history: each wipe sent, with what became of the page under its dialog
    steps           \* admin's steps and lost requests so far

railVars == <<route, loads, device, loading, railBusy, panel, reads>>
consoleVars == <<active, dialog, consoleSent, picker, queries>>
sentVars == <<inflight, commands, wipes>>

Absent == "absent"
ACTION_TEMPLATES == {"safe", "form", "wipe"}   \* sent at once, with a required field, WIPE to be typed
Step == steps.taken < MaxSteps /\ steps' = [steps EXCEPT !.taken = @ + 1]
Lost == steps.lost < MaxLost /\ steps' = [steps EXCEPT !.lost = @ + 1]

Command(d, kind, packages) == [dev |-> d, kind |-> kind, packages |-> packages]
NoCommand == Command(Absent, "none", {})
\* typed: the device shown when WIPE was typed; swapped: a load changed the device under it.
NoDialog == [filled |-> FALSE, confirmText |-> FALSE, typed |-> Absent, swapped |-> FALSE]
NoPicker == [open |-> FALSE, mode |-> "launcher", selected |-> {}, sent |-> NoCommand, apps |-> {}, known |-> FALSE]
Queries == {"scan", "icons"}
NoQuery == [st |-> "none", dev |-> Absent, left |-> {}, aborted |-> FALSE]

ControlInit ==
    /\ route \in Devices /\ loads = {route} /\ device = Absent /\ loading = TRUE
    /\ railBusy = FALSE /\ panel = Absent /\ reads = {}
    /\ active = "none" /\ dialog = NoDialog /\ consoleSent = NoCommand /\ picker = NoPicker
    /\ queries = [k \in Queries |-> NoQuery]
    /\ inflight = {} /\ commands = {} /\ wipes = {}
    /\ steps = [taken |-> 0, lost |-> 0]

-----------------------------------------------------------------------------
(* The page. *)

\* While it loads the page shows a spinner: the console and its dialogs are unmounted, and
\* the picker's requests are told to stop.
Unmounted ==
    /\ active' = "none" /\ dialog' = NoDialog /\ consoleSent' = NoCommand /\ picker' = NoPicker
    /\ queries' = [k \in Queries |-> [queries[k] EXCEPT !.aborted = TRUE]]

\* Another entry of the browser's history.
Jump(d) ==
    /\ d # route /\ Step
    /\ route' = d /\ loads' = loads \cup {d} /\ loading' = TRUE /\ Unmounted
    /\ UNCHANGED <<device, railBusy, panel, reads, sentVars>>

\* load of any earlier route lands, too: the page shows that device, and a dialog that is
\* open stays open over it. A failure leaves the device there was.
load(d) ==
    /\ d \in loads /\ loads' = loads \ {d} /\ loading' = FALSE
    /\ \/ device' = d /\ UNCHANGED steps
       \/ UNCHANGED device /\ Lost
    /\ dialog' = [dialog EXCEPT !.swapped = @ \/ (active # "none" /\ device' # device)]
    /\ UNCHANGED <<route, railBusy, panel, reads, active, consoleSent, picker, queries, sentVars>>

\* The self-scheduling poll of the device shown; it restarts with every new device.
poll ==
    /\ device # Absent /\ panel # device /\ panel' = device
    /\ UNCHANGED <<route, loads, device, loading, railBusy, reads, consoleVars, sentVars, steps>>

Shown == device # Absent /\ ~loading
Uncovered == active = "none" /\ ~picker.open

\* Pressing sends to the device the handler was rendered with.
Send(kind, packages) == inflight' = inflight \cup {Command(device, kind, packages)}

\* Lock and Install config apps.
RailSends(kind) ==
    /\ Shown /\ Uncovered /\ ~railBusy /\ Step /\ railBusy' = TRUE
    /\ Send(kind, {})
    /\ UNCHANGED <<route, loads, device, loading, panel, reads, consoleVars, commands, wipes>>

\* Sync now forces a check-in, then reads the state once more.
syncNow ==
    /\ Shown /\ Uncovered /\ ~railBusy /\ Step /\ reads' = reads \cup {device}
    /\ UNCHANGED <<route, loads, device, loading, railBusy, panel, consoleVars, sentVars>>

\* That answer is shown whatever device the page is on by then.
StateRead(d) ==
    /\ d \in reads /\ reads' = reads \ {d} /\ panel' = d
    /\ UNCHANGED <<route, loads, device, loading, railBusy, consoleVars, sentVars, steps>>

\* The server queues it; the button is free again, and the picker closes when it was its.
queueCommand(c) ==
    /\ c \in inflight /\ inflight' = inflight \ {c}
    /\ \/ commands' = commands \cup {c} /\ UNCHANGED steps
       \/ UNCHANGED commands /\ Lost
    /\ railBusy' = (railBusy /\ c.kind \notin {"lock", "apps"})
    /\ consoleSent' = IF consoleSent = c THEN NoCommand ELSE consoleSent
    /\ IF picker.sent = c
       THEN IF steps' # steps THEN picker' = [picker EXCEPT !.sent = NoCommand] /\ UNCHANGED queries
            ELSE picker' = NoPicker /\ queries' = [k \in Queries |-> [queries[k] EXCEPT !.aborted = TRUE]]
       ELSE UNCHANGED <<picker, queries>>
    /\ UNCHANGED <<route, loads, device, loading, panel, reads, active, dialog, wipes>>

-----------------------------------------------------------------------------
(* The command templates. *)

needsModal(t) == t # "safe"

DialogKept(t) == [NoDialog EXCEPT !.confirmText = dialog.confirmText]
DialogFresh(t) == NoDialog

start(t) ==
    /\ Shown /\ Uncovered /\ consoleSent = NoCommand /\ Step /\ needsModal(t)
    /\ active' = t /\ dialog' = DialogFresh(t)
    /\ UNCHANGED <<railVars, consoleSent, picker, queries, sentVars>>

\* A template without parameters or confirmation goes out at once.
onClick(t) ==
    /\ Shown /\ Uncovered /\ consoleSent = NoCommand /\ Step /\ ~needsModal(t)
    /\ Send(t, {}) /\ consoleSent' = Command(device, t, {})
    /\ UNCHANGED <<railVars, active, dialog, picker, queries, commands, wipes>>

FillIn ==
    /\ active # "none" /\ Step
    /\ dialog' = IF active = "wipe" THEN [dialog EXCEPT !.confirmText = TRUE, !.typed = device]
                                    ELSE [dialog EXCEPT !.filled = TRUE]
    /\ UNCHANGED <<railVars, active, consoleSent, picker, queries, sentVars>>

CancelDialog ==
    /\ active # "none" /\ consoleSent = NoCommand /\ active' = "none" /\ Step
    /\ UNCHANGED <<railVars, dialog, consoleSent, picker, queries, sentVars>>

canSend == IF active = "wipe" THEN dialog.confirmText ELSE dialog.filled

confirmAndSend ==
    /\ active # "none" /\ consoleSent = NoCommand /\ canSend /\ Step
    /\ active' = "none" /\ Send(active, {}) /\ consoleSent' = Command(device, active, {})
    /\ wipes' = IF active = "wipe" THEN wipes \cup {[dev |-> device, typed |-> dialog.typed, swapped |-> dialog.swapped]}
                                   ELSE wipes
    /\ UNCHANGED <<railVars, dialog, picker, queries, commands>>

-----------------------------------------------------------------------------
(* The kiosk picker. *)

OpenPicker ==
    /\ Shown /\ Uncovered /\ consoleSent = NoCommand /\ Step /\ picker' = [NoPicker EXCEPT !.open = TRUE]
    /\ UNCHANGED <<railVars, active, dialog, consoleSent, queries, sentVars>>

\* Cancel waits for the request; unmounting aborts what the picker asked the device.
ClosePicker ==
    /\ picker.open /\ picker.sent = NoCommand /\ Step /\ picker' = NoPicker
    /\ queries' = [k \in Queries |-> [queries[k] EXCEPT !.aborted = TRUE]]
    /\ UNCHANGED <<railVars, active, dialog, consoleSent, sentVars>>

\* Any app of the library, or of the scan: what is selected stays when the list changes.
toggle(p) ==
    /\ picker.open /\ Step
    /\ picker' = [picker EXCEPT !.selected =
           IF picker.mode = "single" THEN IF p \in @ THEN {} ELSE {p}
           ELSE IF p \in @ THEN @ \ {p} ELSE @ \cup {p}]
    /\ UNCHANGED <<railVars, active, dialog, consoleSent, queries, sentVars>>

KeptIn(m) == IF m = "single" /\ Cardinality(picker.selected) > 1 THEN {} ELSE picker.selected
ModeSwitched(m) == [picker EXCEPT !.mode = m, !.selected = KeptIn(m)]

switchMode ==
    /\ picker.open /\ Step
    /\ picker' = ModeSwitched(IF picker.mode = "single" THEN "launcher" ELSE "single")
    /\ UNCHANGED <<railVars, active, dialog, consoleSent, queries, sentVars>>

canApply == picker.selected # {} /\ (picker.mode = "launcher" \/ Cardinality(picker.selected) = 1)

\* In single mode the first of the packages is pinned.
apply ==
    /\ picker.open /\ picker.sent = NoCommand /\ canApply /\ Step
    /\ Send("kiosk.enter", picker.selected)
    /\ picker' = [picker EXCEPT !.sent = Command(device, "kiosk.enter", picker.selected)]
    /\ UNCHANGED <<railVars, active, dialog, consoleSent, queries, commands, wipes>>

\* A saved scan may come back at any time after the device tab was opened.
getLatestScan ==
    /\ picker.open /\ ~picker.known /\ picker' = [picker EXCEPT !.known = TRUE, !.apps = Pickable]
    /\ UNCHANGED <<railVars, active, dialog, consoleSent, queries, sentVars, steps>>

\* Only one scan and one fetch of icons are followed at a time.
StartQuery(k) ==
    /\ picker.open /\ queries[k].st = "none" /\ Step
    /\ k = "icons" => picker.apps # {}
    /\ queries' = [queries EXCEPT ![k] = [st |-> "next", dev |-> device, aborted |-> FALSE,
                                          left |-> IF k = "icons" THEN picker.apps ELSE {}]]
    /\ UNCHANGED <<railVars, active, dialog, consoleSent, picker, sentVars>>

GoesOn(k) == queries[k].st = "next" /\ ~queries[k].aborted

\* runForResult queues a command, the signal in hand; icons go in batches.
AskDevice(k) ==
    /\ GoesOn(k) /\ queries' = [queries EXCEPT ![k].st = "asked"]
    /\ UNCHANGED <<railVars, active, dialog, consoleSent, picker, sentVars, steps>>

Without(q, batch) == IF batch = q.left THEN NoQuery ELSE [q EXCEPT !.st = "next", !.left = @ \ batch]

\* The result is found by a poll, or the device fails or times out.
DeviceResult(k) ==
    /\ queries[k].st = "asked" /\ ~queries[k].aborted
    /\ \/ /\ picker' = IF k = "scan" THEN [picker EXCEPT !.apps = Pickable, !.known = TRUE] ELSE picker
          /\ \/ /\ k = "icons"
                /\ \E batch \in SUBSET queries[k].left :
                    /\ batch # {}
                    /\ queries' = [queries EXCEPT ![k] = Without(queries[k], batch)]
             \/ k = "scan" /\ queries' = [queries EXCEPT ![k] = NoQuery]
          /\ UNCHANGED steps
       \/ queries' = [queries EXCEPT ![k] = NoQuery] /\ UNCHANGED picker /\ Lost
    /\ UNCHANGED <<railVars, active, dialog, consoleSent, sentVars>>

\* Cancelled: thrown at the next look at the signal, and nothing is reported.
QueryStops(k) ==
    /\ queries[k].st # "none" /\ queries[k].aborted /\ queries' = [queries EXCEPT ![k] = NoQuery]
    /\ UNCHANGED <<railVars, active, dialog, consoleSent, picker, sentVars, steps>>

ControlNext ==
    \/ poll \/ syncNow \/ FillIn \/ CancelDialog \/ confirmAndSend
    \/ OpenPicker \/ ClosePicker \/ switchMode \/ apply \/ getLatestScan
    \/ \E d \in Devices : Jump(d) \/ load(d) \/ StateRead(d)
    \/ \E kind \in {"lock", "apps"} : RailSends(kind)
    \/ \E c \in inflight : queueCommand(c)
    \/ \E t \in ACTION_TEMPLATES : start(t) \/ onClick(t)
    \/ \E p \in Pickable : toggle(p)
    \/ \E k \in Queries : StartQuery(k) \/ AskDevice(k) \/ DeviceResult(k) \/ QueryStops(k)

-----------------------------------------------------------------------------
ControlTypeOK ==
    /\ route \in Devices /\ loads \subseteq Devices /\ {device, panel} \subseteq Devices \cup {Absent}
    /\ {loading, railBusy} \subseteq BOOLEAN /\ reads \subseteq Devices
    /\ active \in {"none"} \cup ACTION_TEMPLATES
    /\ picker.selected \subseteq Pickable /\ picker.apps \subseteq Pickable
    /\ \A k \in Queries : queries[k].st \in {"none", "next", "asked"}

\* No device is wiped without WIPE typed into the very dialog that wiped it, while the page
\* showed that device: not with what an earlier dialog, or a dialog for another device, was
\* told (ActionConsole 49-53, 87-91). The exception is a dialog under which a load that was
\* still under way when it opened put another device (DeviceDetailPage 131-159): then WIPE
\* was typed, but not for the device the command goes to.
WipeTyped == \A w \in wipes : w.typed # Absent /\ (w.typed = w.dev \/ w.swapped)

\* A picker in single mode never sends more than the app to pin, whatever was selected
\* before the mode was switched (KioskEnterModal 178-192).
PinsOne == picker.open /\ picker.mode = "single" => Cardinality(picker.selected) <= 1

\* A closed picker asks the device nothing more (KioskEnterModal 90-96).
PickerStaysStopped ==
    \A k \in Queries : queries[k].aborted /\ queries'[k].aborted =>
        (queries'[k].st = "asked" => queries[k].st = "asked")
=============================================================================
