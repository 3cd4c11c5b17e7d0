--------------------------- MODULE KioskControl ---------------------------
(* The device applies desired-state documents and enters and leaves kiosk. Three   *)
(* threads share the persisted document, the persisted kiosk payload, the          *)
(* lock-task policy and the HOME claim:                                            *)
(*                                                                                 *)
(*   "cycle"     the check-in cycle, dispatching config.apply, kiosk.enter and     *)
(*               kiosk.exit one after the other;                                   *)
(*   "boot"      the worker that re-applies the persisted document after a boot    *)
(*               or a self-update;                                                 *)
(*   "launcher"  the kiosk HOME activity: exit by the user, crash-loop bail-out.   *)
(*                                                                                 *)
(* Only ConfigApplier has a mutex. KioskApplier, which everybody enters kiosk      *)
(* through, has none, and the launcher bypasses it: their steps interleave.        *)
(*                                                                                 *)
(* A document is its number in the order of saving; the payload of its kiosk       *)
(* section is named by the same number, that of a kiosk.enter command is AdHoc.    *)
(* The agent is device owner; a policy or location mode the device does not        *)
(* support counts as applied, as in the code.                                      *)
EXTENDS Naturals

CONSTANTS MaxDoc,        \* bound: documents 1..MaxDoc
          WithKiosk,     \* the documents that assert kiosk
          Actors,        \* the threads that take part
          MaxDeaths      \* bound: process deaths in the middle of an operation

ASSUME KioskAssumption ==
    /\ MaxDoc \in Nat
    /\ WithKiosk \subseteq 1..MaxDoc
    /\ Actors \subseteq {"cycle", "boot", "launcher"}
    /\ MaxDeaths \in Nat

Docs == 1..MaxDoc
AdHoc == MaxDoc + 1
Payloads == 0..AdHoc     \* 0: none

VARIABLES cstore,        \* the last fully applied document (ConfigStateStore)
          disk,          \* what of it has reached the flash
          kstore,        \* the persisted kiosk payload (KioskStateStore)
          lock,          \* the payload of the lock-task policy, kept by the system
          claim,         \* the HOME alias is enabled
          setting,       \* the document the policy toggles were last set from
          place,         \* the document the location mode was last set from
          mutex,         \* the threads inside ConfigApplier
          job,           \* what each thread is doing
          boot,          \* the re-apply work is enqueued (WorkManager keeps it)
          newest,        \* the newest document delivered
          deaths

vars == <<cstore, disk, kstore, lock, claim, setting, place, mutex, job, boot,
          newest, deaths>>

Config == {"apply", "reapply"}
Ops == Config \cup {"none", "enter", "exit", "leave", "bail"}
Stages == {"idle", "lock", "policies", "kiosk", "claim", "pin", "keep", "unpin",
           "clear", "disclaim", "location", "persist"}
Jobs == [op : Ops, at : Stages, doc : 0..MaxDoc, ok : BOOLEAN]
Idle == [op |-> "none", at |-> "idle", doc |-> 0, ok |-> TRUE]

TypeOK ==
    /\ cstore \in 0..MaxDoc /\ disk \in 0..MaxDoc
    /\ setting \in 0..MaxDoc /\ place \in 0..MaxDoc
    /\ newest \in 0..MaxDoc
    /\ kstore \in Payloads /\ lock \in Payloads
    /\ claim \in BOOLEAN /\ boot \in BOOLEAN
    /\ mutex \subseteq Actors
    /\ job \in [Actors -> Jobs]
    /\ deaths \in Nat

Init ==
    /\ cstore = 0
    /\ disk = 0
    /\ kstore = 0
    /\ lock = 0
    /\ claim = FALSE
    /\ setting = 0
    /\ place = 0
    /\ mutex = {}
    /\ job = [t \in Actors |-> Idle]
    /\ boot = FALSE
    /\ newest = 0
    /\ deaths = 0
---------------------------------------------------------------------------
(* Threads. *)

At(t, stage) == job[t].at = stage

Goto(t, stage) == job' = [job EXCEPT ![t].at = stage]

\* KioskApplier returns: ConfigApplier goes on with the next section.
Return(t, ok) ==
    job' = [job EXCEPT ![t] = IF job[t].op \in Config
                              THEN [job[t] EXCEPT !.at = "location",
                                                  !.ok = ok /\ job[t].ok]
                              ELSE Idle]

Start(t, op, stage, doc) ==
    /\ job[t] = Idle
    /\ job' = [job EXCEPT ![t] = [op |-> op, at |-> stage, doc |-> doc, ok |-> TRUE]]
    /\ UNCHANGED <<cstore, disk, kstore, lock, claim, setting, place, mutex, boot, deaths>>

\* The server queues documents in the order of saving, and may queue one again.
ConfigCommand(d) ==
    /\ "cycle" \in Actors
    /\ d >= newest
    /\ newest' = d
    /\ Start("cycle", "apply", "lock", d)

EnterCommand ==
    /\ "cycle" \in Actors
    /\ Start("cycle", "enter", "claim", 0)
    /\ UNCHANGED newest

ExitCommand ==
    /\ "cycle" \in Actors
    /\ Start("cycle", "exit", "unpin", 0)
    /\ UNCHANGED newest

Reapply ==
    /\ "boot" \in Actors
    /\ boot
    /\ Start("boot", "reapply", "lock", 0)
    /\ UNCHANGED newest

\* The user leaves kiosk at the device, or the crash-loop guard has tripped.
Launcher(op) ==
    /\ "launcher" \in Actors
    /\ kstore # 0
    /\ Start("launcher", op, "unpin", 0)
    /\ UNCHANGED newest
---------------------------------------------------------------------------
(* ConfigApplier. *)

\* The re-apply loads the persisted document; without one it is done.
Acquire(t) ==
    /\ At(t, "lock")
    /\ LET doc == IF job[t].op = "reapply" THEN cstore ELSE job[t].doc
       IN  IF doc = 0
           THEN /\ job' = [job EXCEPT ![t] = Idle]
                /\ boot' = FALSE
                /\ UNCHANGED mutex
           ELSE /\ mutex' = mutex \cup {t}
                /\ job' = [job EXCEPT ![t] = [job[t] EXCEPT !.at = "policies", !.doc = doc]]
                /\ UNCHANGED boot
    /\ UNCHANGED <<cstore, disk, kstore, lock, claim, setting, place, newest, deaths>>

\* Mutant: the mutex is missing.
LockAtOnce(t) == Acquire(t)

\* withLock, around the loading too.
Lock(t) == mutex = {} /\ Acquire(t)

Policies(t, ok) ==
    /\ At(t, "policies")
    /\ setting' = IF ok THEN job[t].doc ELSE setting
    /\ job' = [job EXCEPT ![t] = [job[t] EXCEPT !.at = "kiosk", !.ok = ok]]
    /\ UNCHANGED <<cstore, disk, kstore, lock, claim, place, mutex, boot, newest, deaths>>

\* A document without kiosk ends a kiosk only when the last applied one asserted it.
Lifts == cstore \in WithKiosk /\ kstore # 0

Kiosk(t) ==
    /\ At(t, "kiosk")
    /\ Goto(t, IF job[t].doc \in WithKiosk THEN "claim"
               ELSE IF Lifts THEN "unpin" ELSE "location")
    /\ UNCHANGED <<cstore, disk, kstore, lock, claim, setting, place, mutex, boot, newest,
                   deaths>>

Location(t, ok) ==
    /\ At(t, "location")
    /\ place' = IF ok THEN job[t].doc ELSE place
    /\ job' = [job EXCEPT ![t] = [job[t] EXCEPT !.at = "persist", !.ok = ok /\ job[t].ok]]
    /\ UNCHANGED <<cstore, disk, kstore, lock, claim, setting, mutex, boot, newest, deaths>>

\* Mutant: only the last section decides.
SucceededLast(t) == place = job[t].doc

\* No section failed.
Succeeded(t) == job[t].ok

Persist(t) ==
    /\ At(t, "persist")
    /\ cstore' = IF Succeeded(t) THEN job[t].doc ELSE cstore
    /\ mutex' = mutex \ {t}
    /\ boot' = (boot /\ job[t].op # "reapply")
    /\ job' = [job EXCEPT ![t] = Idle]
    /\ UNCHANGED <<disk, kstore, lock, claim, setting, place, newest, deaths>>

\* SharedPreferences.apply writes in the background.
Flush ==
    /\ disk # cstore
    /\ disk' = cstore
    /\ UNCHANGED <<cstore, kstore, lock, claim, setting, place, mutex, job, boot,
                   newest, deaths>>
---------------------------------------------------------------------------
(* KioskApplier.enter: claim, pin, keep, or disclaim after a failure. *)

\* Mutant: the command's payload is numbered past the last.
PayloadPastLast(t) == IF job[t].op = "enter" THEN AdHoc + 1 ELSE job[t].doc

Payload(t) == IF job[t].op = "enter" THEN AdHoc ELSE job[t].doc

Claim(t) ==
    /\ At(t, "claim")
    /\ claim' = TRUE
    /\ Goto(t, "pin")
    /\ UNCHANGED <<cstore, disk, kstore, lock, setting, place, mutex, boot, newest, deaths>>

\* Mutant: a failed enter leaves the claim.
PinFailsClaiming(t) ==
    /\ At(t, "pin")
    /\ lock' \in {lock, Payload(t)}
    /\ Return(t, FALSE)
    /\ UNCHANGED <<cstore, disk, kstore, claim, setting, place, mutex, boot, newest, deaths>>

\* The policy calls throw, before or after the allowlist was set.
PinFails(t) ==
    /\ At(t, "pin")
    /\ lock' \in {lock, Payload(t)}
    /\ job' = [job EXCEPT ![t] = [job[t] EXCEPT !.at = "disclaim", !.ok = FALSE]]
    /\ UNCHANGED <<cstore, disk, kstore, claim, setting, place, mutex, boot, newest, deaths>>

Pin(t) ==
    /\ At(t, "pin")
    /\ lock' = Payload(t)
    /\ Goto(t, "keep")
    /\ UNCHANGED <<cstore, disk, kstore, claim, setting, place, mutex, boot, newest, deaths>>

Keep(t) ==
    /\ At(t, "keep")
    /\ kstore' = Payload(t)
    /\ Return(t, TRUE)
    /\ UNCHANGED <<cstore, disk, lock, claim, setting, place, mutex, boot, newest, deaths>>
---------------------------------------------------------------------------
(* KioskApplier.exit: unpin, clear, disclaim. The launcher unpins whatever comes of *)
(* it; on a user's exit it then disclaims before it clears, on a bail-out it only   *)
(* clears.                                                                          *)

Unpin(t) ==
    /\ At(t, "unpin")
    /\ lock' = 0
    /\ Goto(t, IF job[t].op = "leave" THEN "disclaim" ELSE "clear")
    /\ UNCHANGED <<cstore, disk, kstore, claim, setting, place, mutex, boot, newest, deaths>>

UnpinFails(t) ==
    /\ At(t, "unpin")
    /\ lock' \in {lock, 0}
    /\ CASE job[t].op = "leave" -> Goto(t, "disclaim")
         [] job[t].op = "bail" -> Goto(t, "clear")
         [] OTHER -> Return(t, FALSE)
    /\ UNCHANGED <<cstore, disk, kstore, claim, setting, place, mutex, boot, newest, deaths>>

Clear(t) ==
    /\ At(t, "clear")
    /\ kstore' = 0
    /\ IF job[t].op \in {"leave", "bail"} THEN Return(t, TRUE) ELSE Goto(t, "disclaim")
    /\ UNCHANGED <<cstore, disk, lock, claim, setting, place, mutex, boot, newest, deaths>>

\* The claim is given up, after a failed enter or an exit.
Disclaim(t) ==
    /\ At(t, "disclaim")
    /\ claim' = FALSE
    /\ IF job[t].op = "leave" THEN Goto(t, "clear") ELSE Return(t, job[t].ok)
    /\ UNCHANGED <<cstore, disk, kstore, lock, setting, place, mutex, boot, newest, deaths>>
---------------------------------------------------------------------------
\* The process ends, by a reboot or not. Preferences on the flash, the kiosk payload
\* and what the system keeps survive.
Quiet == \A t \in Actors : job[t] = Idle

Death(rebooted) ==
    /\ Quiet \/ deaths < MaxDeaths
    /\ deaths' = IF Quiet THEN deaths ELSE deaths + 1
    /\ job' = [t \in Actors |-> Idle]
    /\ mutex' = {}
    /\ cstore' = disk
    /\ boot' = (boot \/ rebooted)
    /\ UNCHANGED <<disk, kstore, lock, claim, setting, place, newest>>

Command == (\E d \in Docs : ConfigCommand(d)) \/ EnterCommand \/ ExitCommand

Step(t) ==
    \/ Lock(t)
    \/ \E ok \in BOOLEAN : Policies(t, ok) \/ Location(t, ok)
    \/ Kiosk(t)
    \/ Persist(t)
    \/ Claim(t)
    \/ Pin(t)
    \/ PinFails(t)
    \/ Keep(t)
    \/ Unpin(t)
    \/ UnpinFails(t)
    \/ Clear(t)
    \/ Disclaim(t)

Next ==
    \/ Command
    \/ Reapply
    \/ \E op \in {"leave", "bail"} : Launcher(op)
    \/ \E t \in Actors : Step(t)
    \/ Flush
    \/ \E rebooted \in BOOLEAN : Death(rebooted)

Spec == Init /\ [][Next]_vars
---------------------------------------------------------------------------
(* Properties. *)

\* "Otherwise an older persisted document could finish last and overwrite the newer
\* one": however the boot worker and a delivered config.apply meet, a persisted
\* document is replaced by a newer one only (or lost with its background write).
NewestWins == [][cstore' < cstore => deaths' # deaths \/ Quiet]_vars

\* The revision the device reports is that of a document whose policies and location
\* are in force at that moment, not overwritten by another thread half way.
ReportedIsInForce ==
    [][cstore' > cstore => setting' = cstore' /\ place' = cstore']_vars

\* A configuration ends kiosk only by replacing: when its applier clears the payload,
\* the document applied before is still the persisted one, asserted kiosk, and is
\* older than its own. So neither the re-apply after a boot nor the first document
\* after an upgrade lifts a kiosk entered by command, whatever another thread persists
\* meanwhile. (The applier does not know who entered the kiosk it ends: a kiosk
\* entered by command over a document with kiosk goes with that document.)
LiftsByNewer ==
    [][\A t \in Actors : job[t].op \in Config /\ Clear(t) =>
          cstore \in WithKiosk /\ cstore < job[t].doc]_vars

\* A thread that has yet to keep a payload for the claim it made, or to give it up.
Resolving(t) == job[t].at \in {"pin", "keep", "disclaim"}

\* Out of kiosk and claiming HOME, with no thread about to settle it.
Stray == claim /\ kstore = 0 /\ ~\E t \in Actors : Resolving(t)

\* The thread leaves kiosk at the device, without KioskApplier.
Local(t) == job[t].op \in {"leave", "bail"}

\* "Never leave a non-kiosk device claiming HOME": although KioskApplier has no mutex,
\* only a step of the launcher, or a death half way, leaves a stray claim behind.
ClaimSettled ==
    [][~Stray /\ Stray' =>
          deaths' # deaths \/ \E t \in Actors : Local(t) /\ Step(t)]_vars

\* A device that reports a document without kiosk has left the kiosk that an earlier
\* document put it in ("saving a configuration makes its devices converge to it").
TurnedOff == [][cstore' > cstore /\ cstore' \notin WithKiosk => kstore' \notin Docs]_vars
===========================================================================
