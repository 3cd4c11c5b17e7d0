------------------------------- MODULE AppFetch -------------------------------
(***************************************************************************)
(* Fetch applications from devices: the modal of the apps page that scans   *)
(* the devices one after the other and adds to the library what it lacks.   *)
(* A run of it goes on in the background, whatever became of the modal,     *)
(* until it ends or sees that its controller was aborted.                   *)
(***************************************************************************)
EXTENDS Integers, FiniteSets

CONSTANTS
    ScanDevices,    \* devices of the customer
    Packages,       \* packages a device may have installed
    MaxRuns,        \* fetches started
    MaxScanFaults   \* failed requests and failed or late scans

VARIABLES
    library,            \* server: packages of the library
    devices,            \* modal: its list of devices, "loading", "ready" or "failed"
    targetMode,         \* modal: all devices or the selected ones
    selectedDeviceIds,  \* modal
    status,             \* modal: idle, running or done; "closed" when it is not open
    current,            \* modal: the run whose controller abortRef holds, or 0
    runs,               \* every call of startFetch
    hidden,             \* history: runs that went on when an older one's end was shown
    scanFaults          \* faults so far

modalVars == <<devices, targetMode, selectedDeviceIds>>

Runs == 1..MaxRuns
NoPkg == "none"
\* st: idle, scan, list, add or ended. todo: devices left, the first of them asked when cmd
\* is not "none". saving: the save in flight. mounted: the modal that started it is open.
Run == [st : {"idle", "scan", "list", "add", "ended"}, todo : SUBSET ScanDevices,
        cmd : {"none", "queued", "done", "failed"}, at : ScanDevices \cup {NoPkg},
        scanned : SUBSET Packages, missing : SUBSET Packages, saving : Packages \cup {NoPkg},
        aborted : BOOLEAN, mounted : BOOLEAN]
NoRun == [st |-> "idle", todo |-> {}, cmd |-> "none", at |-> NoPkg, scanned |-> {}, missing |-> {},
          saving |-> NoPkg, aborted |-> FALSE, mounted |-> FALSE]

ScanFault == scanFaults < MaxScanFaults /\ scanFaults' = scanFaults + 1

FetchInit ==
    /\ library \in SUBSET Packages
    /\ devices = "loading" /\ targetMode = "all" /\ selectedDeviceIds = {}
    /\ status = "closed" /\ current = 0
    /\ runs = [r \in Runs |-> NoRun] /\ hidden = {} /\ scanFaults = 0

-----------------------------------------------------------------------------
(* The modal. *)

Open ==
    /\ status = "closed" /\ status' = "idle"
    /\ devices' = "loading" /\ targetMode' = "all" /\ selectedDeviceIds' = {} /\ current' = 0
    /\ UNCHANGED <<library, runs, hidden, scanFaults>>

\* An answer that comes after the modal was closed is dropped.
DevicesLoaded ==
    /\ status # "closed" /\ devices = "loading"
    /\ \/ devices' = "ready" /\ selectedDeviceIds' = ScanDevices /\ UNCHANGED scanFaults
       \/ devices' = "failed" /\ ScanFault /\ UNCHANGED selectedDeviceIds
    /\ UNCHANGED <<library, targetMode, status, current, runs, hidden>>

\* The form is there while idle and the devices are loaded; the filter only hides rows.
Form == status = "idle" /\ devices = "ready"

toggleDevice(d) ==
    /\ Form /\ targetMode = "selected"
    /\ selectedDeviceIds' = IF d \in selectedDeviceIds THEN selectedDeviceIds \ {d}
                                                       ELSE selectedDeviceIds \cup {d}
    /\ UNCHANGED <<library, devices, targetMode, status, current, runs, hidden, scanFaults>>

toggleSelectAll ==
    /\ Form /\ targetMode = "selected"
    /\ selectedDeviceIds' = IF selectedDeviceIds = ScanDevices THEN {} ELSE ScanDevices
    /\ UNCHANGED <<library, devices, targetMode, status, current, runs, hidden, scanFaults>>

setTargetMode ==
    /\ Form /\ targetMode' = IF targetMode = "all" THEN "selected" ELSE "all"
    /\ UNCHANGED <<library, devices, selectedDeviceIds, status, current, runs, hidden, scanFaults>>

targetDevices == IF targetMode = "all" THEN ScanDevices ELSE selectedDeviceIds

startFetch(r) ==
    /\ Form /\ targetDevices # {}
    /\ runs[r].st = "idle" /\ \A s \in 1..(r - 1) : runs[s].st # "idle"
    /\ runs' = [runs EXCEPT ![r] = [NoRun EXCEPT !.st = "scan", !.todo = targetDevices, !.mounted = TRUE]]
    /\ status' = "running" /\ current' = r
    /\ UNCHANGED <<library, modalVars, hidden, scanFaults>>

AbortCurrent(rs) == IF current = 0 THEN rs ELSE [rs EXCEPT ![current].aborted = TRUE]

\* The Cancel button of a running fetch: only the latest run can be told.
CancelFetch ==
    /\ status = "running" /\ status' = "idle" /\ runs' = AbortCurrent(runs)
    /\ UNCHANGED <<library, modalVars, current, hidden, scanFaults>>

\* Also a click beside the modal. No state of a closed modal outlives it.
handleClose ==
    /\ status # "closed" /\ status' = "closed" /\ current' = 0
    /\ runs' = [r \in Runs |-> [AbortCurrent(runs)[r] EXCEPT !.mounted = FALSE]]
    /\ devices' = "loading" /\ targetMode' = "all" /\ selectedDeviceIds' = {}
    /\ UNCHANGED <<library, hidden, scanFaults>>

-----------------------------------------------------------------------------
(* One run. *)

\* setStatus of a closed modal changes nothing; that of an older run, told to
\* stop, changes what the modal shows of the latest (130, 176).
SetStatus(r, to) ==
    /\ status' = IF runs[r].mounted THEN to ELSE status
    /\ hidden' = IF runs[r].mounted /\ r # current THEN hidden \cup {current} ELSE hidden

QueueScan(r) ==
    /\ runs[r].st = "scan" /\ runs[r].cmd = "none" /\ ~runs[r].aborted
    /\ \E d \in runs[r].todo :
        \/ runs' = [runs EXCEPT ![r].cmd = "queued", ![r].at = d] /\ UNCHANGED scanFaults
        \/ runs' = [runs EXCEPT ![r].todo = @ \ {d}] /\ ScanFault
    /\ UNCHANGED <<library, modalVars, status, current, hidden>>

\* The device answers the command, or it fails, expires or is not supported there.
DeviceAnswers(r) ==
    /\ runs[r].cmd = "queued"
    /\ \/ runs' = [runs EXCEPT ![r].cmd = "done"] /\ UNCHANGED scanFaults
       \/ runs' = [runs EXCEPT ![r].cmd = "failed"] /\ ScanFault
    /\ UNCHANGED <<library, modalVars, status, current, hidden>>

\* A poll of the history finds the result, with some of the packages; or 75 s have passed.
runForResult(r) ==
    /\ runs[r].st = "scan" /\ ~runs[r].aborted
    /\ \E found \in SUBSET Packages :
        /\ \/ runs[r].cmd = "done" /\ UNCHANGED scanFaults
           \/ runs[r].cmd = "failed" /\ found = {} /\ UNCHANGED scanFaults
           \/ runs[r].cmd = "queued" /\ found = {} /\ ScanFault
        /\ runs' = [runs EXCEPT ![r].cmd = "none", ![r].at = NoPkg, ![r].scanned = @ \cup found,
                                ![r].todo = @ \ {runs[r].at}]
    /\ UNCHANGED <<library, modalVars, status, current, hidden>>

\* The check before the next device or poll, and after the loop.
Cancelled(r) ==
    /\ runs[r].st = "scan" /\ runs[r].aborted
    /\ runs' = [runs EXCEPT ![r].st = "ended", ![r].cmd = "none", ![r].at = NoPkg]
    /\ SetStatus(r, "idle")
    /\ UNCHANGED <<library, modalVars, current, scanFaults>>

Compare(r) ==
    /\ runs[r].st = "scan" /\ runs[r].todo = {} /\ ~runs[r].aborted
    /\ runs' = [runs EXCEPT ![r].st = "list"]
    /\ UNCHANGED <<library, modalVars, status, current, hidden, scanFaults>>

listApplications(r) ==
    /\ runs[r].st = "list"
    /\ \/ /\ runs' = [runs EXCEPT ![r].st = "add", ![r].missing = runs[r].scanned \ library]
          /\ UNCHANGED <<status, hidden, scanFaults>>
       \/ runs' = [runs EXCEPT ![r].st = "ended"] /\ SetStatus(r, "done") /\ ScanFault
    /\ UNCHANGED <<library, modalVars, current>>

MayAdd(r) == runs[r].st = "add" /\ runs[r].saving = NoPkg /\ runs[r].missing # {} /\ ~runs[r].aborted

AddMissing(r) ==
    /\ MayAdd(r)
    /\ \E p \in runs[r].missing :
        runs' = [runs EXCEPT ![r].saving = p, ![r].missing = @ \ {p}]
    /\ UNCHANGED <<library, modalVars, status, current, hidden, scanFaults>>

\* A failed save is noted and the loop goes on; it may have been stored.
saveAndroidApplication(r) ==
    /\ runs[r].saving # NoPkg
    /\ runs' = [runs EXCEPT ![r].saving = NoPkg]
    /\ \/ library' = library \cup {runs[r].saving} /\ UNCHANGED scanFaults
       \/ UNCHANGED library /\ ScanFault
    /\ UNCHANGED <<modalVars, status, current, hidden>>

\* A run told to stop while it adds says done all the same.
Finish(r) ==
    /\ runs[r].st = "add" /\ runs[r].saving = NoPkg /\ (runs[r].missing = {} \/ runs[r].aborted)
    /\ runs' = [runs EXCEPT ![r].st = "ended"] /\ SetStatus(r, "done")
    /\ UNCHANGED <<library, modalVars, current, scanFaults>>

FetchNext ==
    \/ Open \/ DevicesLoaded \/ toggleSelectAll \/ setTargetMode \/ CancelFetch \/ handleClose
    \/ \E d \in ScanDevices : toggleDevice(d)
    \/ \E r \in Runs : \/ startFetch(r) \/ QueueScan(r) \/ DeviceAnswers(r) \/ runForResult(r)
                       \/ Cancelled(r) \/ Compare(r) \/ listApplications(r)
                       \/ AddMissing(r) \/ saveAndroidApplication(r) \/ Finish(r)

-----------------------------------------------------------------------------
FetchTypeOK ==
    /\ library \subseteq Packages /\ devices \in {"loading", "ready", "failed"}
    /\ targetMode \in {"all", "selected"} /\ selectedDeviceIds \subseteq ScanDevices
    /\ status \in {"closed", "idle", "running", "done"} /\ current \in 0..MaxRuns
    /\ runs \in [Runs -> Run] /\ hidden \subseteq 0..MaxRuns /\ scanFaults \in 0..MaxScanFaults

\* Every fetch that goes on and was not told to stop can be told: the modal is open, shows it
\* running, and its Cancel reaches this run. The exception is a run hidden by the end of an
\* older one: a cancelled run that ends late sets the status of the modal to idle or done,
\* and the run started after it loses its Cancel (FetchFromDevicesModal 130, 148, 176).
CancelReaches ==
    \A r \in Runs \ hidden :
        runs[r].st \in {"scan", "list", "add"} /\ ~runs[r].aborted => status = "running" /\ current = r

\* A fetch that was told to stop asks no further device and adds no further application,
\* wherever it was when it was told (the checks at 101, 123, 129 and 149).
FetchStaysStopped ==
    \A r \in Runs : runs[r].aborted =>
        /\ runs'[r].cmd = "queued" => runs[r].cmd = "queued"
        /\ runs'[r].saving \in {NoPkg, runs[r].saving}
=============================================================================
