# MDMesh in TLA+

MDMesh is a self-hosted Android device management system: a Java server (a fork
of Headwind MDM with a new agent API), a Kotlin device-owner agent, a web
console, and a small Node supervisor that updates the server containers. This
directory holds TLA+ modules for the parts of it whose correctness rests on the
order of events, the TLC configurations that check them on small instances, and
TLAPS proofs for every size. Paths below are relative to the repository
(`src/`); `A/` stands for `agent-android/core/src/main/kotlin/com/mdmesh/core/`,
`R/` for `server/src/main/java/com/hmdm/rest/resource/` and `W/` for `web/src/`.

## 1. The system

| Component | State it keeps | Operations | Interacts through |
|---|---|---|---|
| Agent command channel (`R/AgentResource.java` check-in, `R/AgentAdminResource.java`, `AgentCommandMapper`, `A/sync/CheckInCoordinator.kt`, `A/command/CommandDispatcher.kt`, `A/sync/PendingResults.kt`) | `agentCommand` rows (status, timestamps); on the device the result buffer and the executed-id filter, both in memory | queue, list, claim, record results, expire; check in, dispatch, restore on failure | HTTP check-in request and response |
| Desired-state configuration (`R/support/ConfigReconciler.java`, `common/.../ConfigReconcileDecision.java`, `DesiredConfigBuilder.java`, `device_state`) | the configuration row, the revision a device last reported, the `config.apply` rows | save, reconcile during a check-in, back off | the command channel |
| Config application and kiosk (`A/config/ConfigApplier.kt`, `A/kiosk/KioskApplier.kt`, `A/sync/ConfigReapplyWorker.kt`, kiosk handlers, `KioskLauncherActivity.kt`, `kiosk/.../CrashLoopGuard.kt`) | persisted document, persisted kiosk payload, lock-task policy, HOME claim, fault counter | apply a document section by section, enter, exit, re-apply after boot, on-device exit, crash-loop bail-out | command handlers, a boot worker and the launcher activity share the same stores |
| Enrollment (`R/AgentResource.java` enroll, `AgentEnrollmentTokenMapper`, `A/sync/EnrollmentManager.kt`, `A/sync/CheckInWorker.kt`) | one-time tokens, device rows and secrets; on the device the token and the identity | mint, claim, create, release; retry; save the identity | HTTP enroll request |
| Supervisor (`supervisor/server.js`, `lib.js`, `apply.sh`, `rollback.sh`) | last manifest, offer, current task, unattended toggle; `.env`, the container, the database and its backup | poll releases, apply, health-check, roll back; mirror the agent APK | child processes and their pipes; Docker Compose; the server's admin check |
| Staged agent rollout (`R/RolloutResource.java`, `RolloutProgress.java`, `RolloutMapper.java`, `W/components/RolloutPanel.tsx`) | rollout row (stage, canary set), install commands | create, promote, cancel, classify progress | the command channel, reported versions, the supervisor's APK mirror |
| Console: configurations (`W/pages/ConfigurationsPage.tsx`, `W/api/configurations.ts`) | list, sync summary, draft, baseline, late app matrix | load, copy, delete, edit, confirm, save | one PUT that replaces a whole configuration |
| Console: applications (`W/pages/AppsPage.tsx`, `W/components/FetchFromDevicesModal.tsx`, `DeployModal.tsx`) | library, form of a dropped file, uploads and searches under way, a device scan | add, upload, search, fetch from devices, deploy, assign | applications and devices on the server |
| Console: device and fleet (`W/pages/DeviceDetailPage.tsx`, `DevicesPage.tsx`, `W/components/ActionConsole.tsx`, `BulkActionModal.tsx`) | the device shown, dialogs, selection, list filters | queue one or many commands, move, delete, pick kiosk apps | the command channel |
| Console: updates, session (`W/components/UpdateBanner.tsx`, `W/pages/SettingsPage.tsx`, `W/auth/`, `W/api/client.ts`, the server's `AuthFilter.java`) | last status and its timer; the user in storage, the cookie; the server's sessions | poll, start an update; sign in and out, change the first password | the supervisor; the server |
| Wake channel (`AgentWakeHub.java`, `AgentWakeEndpoint.java`, `A/transport/TransportManager.kt`, `CheckInService.kt`) | server: socket per device; device: socket, retry job, state | register, replace, unregister, wake; connect, back off, stop | WebSocket; a lost ping only costs latency |
| App install (`A/install/`) | PackageInstaller sessions, one result slot per package | install, uninstall, await the system's callback | a broadcast receiver completes a waiting coroutine |
| Telemetry and events (`A/telemetry/`) | event log in preferences, location mode, usage counters | record, drain, restore | the check-in request |
| Policy code (`agent-android/policy`, `capability`) and device actions | none beyond the operating system's | set one restriction, probe capabilities, one-shot calls | called by handlers and `ConfigApplier` |
| Wire protocol (`proto/`, `agent-android/proto`) | none | JSON shapes, golden contract tests | both ends |
| Inherited Headwind MDM (`server`, `common`, `plugins`, `notification`, `swagger`, `jwt`) | users, groups, files, applications, legacy devices | CRUD, legacy sync, long polling | the same database |

The hard behaviour: the server's handlers are sequences of SQL statements
**without a transaction**, so two check-ins of one device (a timed-out attempt
whose handler still runs, and its retry), two enrollments, or two promotions
interleave statement by statement; requests and replies are lost; the agent's
process is killed by Android at any moment and keeps only what it persisted;
expiry is lazy and races late results; kiosk state is changed by four actors; a
one-time token must survive failures without enrolling two devices; the
supervisor knows of its scripts only what it has read from their pipes; a page
of the console decides from rows it read earlier, and its answers arrive in any
order, after the dialog that asked is gone.

What makes each component correct:

* commands: a handler runs at most once, a command travels in one response,
  no decided outcome is lost except with its process, commands run in queue
  order but for one the capability gate held back, every command ends;
* configuration: drift is never invented, the queue of `config.apply` commands
  stays as short as the check-ins that overlap, a failing document is retried no
  faster than hourly, a device never falls back to an older document, and it
  converges;
* kiosk: what is persisted, what is pinned and who claims HOME agree; a kiosk
  the configuration turned on is turned off by it, and only by a newer document;
* enrollment: one token enrolls one device, and is not burnt by a failure;
* supervisor: one script at a time (the code keeps this but for a late close
  event), every update ends with `.env`, container and database at one version,
  "done" is the truth, and a failed version is not retried unattended but the next
  one is;
* rollout: one at a time, nothing reaches the fleet before the canary has
  proved it, a promotion forgets no device;
* console: a save never wipes what it did not show, kiosk does not change
  unasked, what goes out is what the screen stands for, a late answer leaves alone
  what it should, a session does not outlive its password. The code breaks several
  of these at its edges; the properties name the exceptions, section 7 tells how
  each comes about.

## 2. Plan

| # | Module | Subject | Composes or refines | State |
|---|---|---|---|---|
| 1 | `CommandLifecycle` | what the command channel promises of each command | abstract specification | done |
| 2 | `CommandDelivery` | the command channel of a device, statement by statement | implements 1 | done, proved |
| 3 | `ConfigSync` | desired-state reconcile on top of the channel | uses the channel's exchange, coarser | done, proved |
| 4 | `KioskControl` | the device applies documents, enters and leaves kiosk | consumes the documents 3 delivers | done, proved |
| 5 | `Enrollment` | one-time tokens | precedes 2 for every device | done, proved |
| 6 | `UpdateLifecycle` | what `/update/status` promises of the deployment | abstract specification | done |
| 7 | `Updater` | supervisor: polls, toggle, scripts, restarts | implements 6 | done, proved |
| 8 | `Rollout` | staged rollout against device progress and the APK mirror | queues commands of 2; serves what 7 released | done, proved |
| 9 | `ConfigEditor`, `AppFetch`, `AppDeploy`, `DeviceControl`, `FleetList`, `UpdateConsole`, `Session` | the pages of the console, each over a server others change | `UpdateConsole` shows what 7 does | done, proved |
| 10 | `Console` | a tab of the console on one of these pages | composes 9 | done, proved |

"Proved" says that every safety invariant, action property and refinement a run
checks of the module is a theorem for every value of the constants that the
module's assumptions allow, without a further hypothesis; liveness stays with TLC.

## 3. The modules

Each model variable has a comment naming the column, field or file it stands
for; `PROJECT.json` maps every definition to its lines. What follows says how
the state and the actions correspond to the code, and what is abstracted.
A definition called "Mutant" in a comment is a plausible bug of the definition
below it; no specification uses it. `PROJECT.json` names, for each property, the
mutant that violates it.

### 3.1 `CommandDelivery`, `CommandLifecycle`

The rows of `agentCommand` are `status` (column `status`), `handed`
(`deliveredAt IS NOT NULL`) and `stale` (the limit of the row's status has
passed: 60 minutes pending, 6 hours delivered; one bit instead of a clock). An
HTTP exchange is a record `ex[c]` with its stage and the locals of its handler:
the request's capabilities and results, the ids still to claim, the ids claimed.
`AgentResource.checkin` is not transactional, so its statements are actions of
their own: `Receive`, one `MarkResult` per reported result, `ExpireStale`,
`ListPending` with the capability gate, one `Claim` per listed row in id order,
`Reply`. `Break` ends an exchange at any stage and keeps what its statements
did: a lost request, an exception, a stopped server, a lost reply.

The device is `CheckInCoordinator.cycle`, single flight: `Send` drains the
buffer, `Resend` is the HTTP client's silent retry on a new connection,
`CycleFails` is the catch block with its restore, `Deliver` the response,
`Dispatch` one command of the batch (duplicate filter, unknown type, handler),
`CycleEnds` the return. `Crash` is process death, also inside a handler; it
clears buffer, batch and the executed set, which are in memory only. `skipped` is
a history variable: the pairs of commands of which some handler listed the later
one and left the earlier one out because of its capability. `InOrder` exempts these
pairs and nothing else, a gated command that was never held back included.
Enforcement of `ttlSeconds` is left out because the server never sends one.

`CommandLifecycle` is what an administrator may rely on, with none of this
machinery: a command is queued, handed out once, run at most once, decided at
most once, given up at any time, and recorded with the decided outcome only.

### 3.2 `ConfigSync`

A document is the number of the save that produced it; its revision is the hash
of its content, and the `Content` of the runs makes the third save revert the
first, so that a revision comes back. `desired` is the configuration row, `known`
`device_state.appliedConfigRevision`, `row` and `rank` the `config.apply` rows
and their id order. The handler's steps are `Receive` (state upsert, with
COALESCE), `Record` (results, then expiry), `Reconcile`, `Look`
(`hasOpenOfType`), `Decide` (`findLatestOfType` and the backoff), `Insert`,
`Claim`: each reads the table anew, and two handlers interleave. Two fields of an
exchange are history: `held`, the revisions the server knew of the device while the
handler was at work, and `news`, the rows other handlers wrote since it decided;
`DriftIsReal` and `BackoffKept` use them to say what a handler can be held to
whatever others do in between. Recording with
expiry, and listing with claiming, are one step each; `CommandDelivery` has them
apart. The device persists a document with `SharedPreferences.apply`, a
background write (`Flush`) that process death can precede (`Crash`).

A row that is closed, not the latest and not referred to by anything decides
nothing any more; its name is used again for the next insert, so three names
stand for any number of rows (`Rows`).

### 3.3 `KioskControl`

Three threads: the check-in cycle with its command handlers, the worker that
re-applies the persisted document after a boot, the launcher activity. `cstore`
and `disk` are `ConfigStateStore` and its flash copy, `kstore` the
`KioskStateStore` payload, `lock` the lock-task policy (the system keeps it over
process death), `claim` the HOME alias, `setting` and `place` the document from
which policies and location mode were last set, `mutex` `ConfigApplier`'s mutex,
`boot` the enqueued unique work. `ConfigApplier` is `Lock`, `Policies`, `Kiosk`,
`Location`, `Persist`; `KioskApplier.enter` is `Claim`, `Pin` (or `PinFails`,
`Disclaim`), `Keep`; `exit` is `Unpin` (or `UnpinFails`), `Clear`, `Disclaim`.
The launcher repeats parts of the exit in its own order. Every one of these
steps of one thread can fall between two of another, and `Death` between any two.

`LiftsByNewer` says when a configuration may end kiosk: only to replace the
persisted document with kiosk by a newer one. It does not say that a kiosk entered
by command survives, since the applier does not know who entered the kiosk it ends
(section 7).

Assumed: the agent is device owner, switching the HOME alias succeeds, and the
server's documents arrive in the order of saving (a repeat is allowed). The
crash-loop guard may trip at any moment.

### 3.4 `Enrollment`

`used` and `expired` are columns of `agentEnrollmentToken`; `rows` counts the
device rows made with a token and `secrets` those of them that got a secret hash
and hence can check in. The handler is `Lookup`, `Claim` (one atomic UPDATE),
`Create`, `StoreSecret`, `Finish`, with `CreateFails` leading to `Release` and
`StepFails` not. A device posts until it has saved its credentials (`Post`,
`Answer`); `GiveUp` is a timeout, a cancelled worker or process death, and leaves
the handler running. `wasted` records tokens spent on credentials that no device
can save. Minting is the initial state: all tokens exist from the start.

### 3.5 `Updater`, `UpdateLifecycle`

A version is its rank among the releases. `currentVersion`, `lastManifest`,
`apply`, `lastAutoFailed` are the variables of `server.js` of those names;
`updateAvailable` is the offer computed when the status was last rebuilt, so it
may be stale; `env`, `running`, `db` and `latest` are `.env`, the container, the
schema and data of the database, and the backup the pointer file names. A poll
reads the release list (`PollList`) and ends in `PollVerified` or `PollRefused`,
both, as in the code, with `setStatus`, which may start an unattended update; one
that cannot read the list changes nothing. Two may be under way at once.
`ManualApply`, `ManualRollback` and the toggle are the requests.

A child process is a slot of `script`: the lines of `apply.sh` and `rollback.sh`
that change the host are one action each, with what `set -e` and the traps do when
one fails; each PHASE line goes into the slot's `pipe`, which the supervisor reads
later (`PhaseLine`), and the process's exit reaches it later still (`CloseApply`,
`CloseRollback`). A restart of the supervisor kills its scripts between two of
their lines and forgets everything that is not in the environment or the toggle's
file. Between the last PHASE line and the close event anything may be served: the
supervisor takes the task to be over, accepts the next one, and the close event
then speaks of that one. `crossed` counts the close events that came while a later
script was there, until none is left; `seen` records whether such a close event, a
rollback by hand, an undoing that failed, a script killed by a restart or an
update begun for a version older than the database ever happened. The properties
name them where they make an exception.

`UpdateLifecycle` is the promise: one task at a time, the container is replaced
only by a task, and a task reported as "done" leaves its target running. `muddled`
is the time in which the end of one task has been taken for that of a later one; it
then promises nothing.

### 3.6 `Rollout`

`rollout[r]` is a row of `agentRollout` with its canary rows; the partial unique
index on active stages is the guard of `Insert` and of `PromoteStage`. `handler`
is what a request of the server is about to do: `create` checks, inserts the row,
inserts the canary rows and queues the installs; `promote` reads the stage,
writes it unconditionally, reads what is pending, and queues the rest. Panels are
`offered`: the rollouts some panel has shown with its promote button enabled; a
button, once shown, may be pressed at any later time. The mirror keeps `file` by
versionCode, and compares a finished download with the checksum that is current
by then. A device installs what the mirror serves when the install runs, not what
was current when it was queued. `missed` records installs that failed, or were
not queued because another one was outstanding.

### 3.7 The pages of the console

Each page module holds the page's React state, the requests in flight with the
values their closures captured, and the part of the server the page reads and
writes, which other administrators change under it. An answer is an action
separate from its request, so answers overtake each other and arrive after a
dialog was closed, reopened, or showed something else; unless a component
remounts, its state survives.

* `ConfigEditor`: the list (a row whose apps could not be fetched is listed with
  none), the editor with draft and baseline, `appsReady`, the late fetch of the
  assigned apps, background upload, kiosk confirmation and the PUT. `entrusted`
  is a history variable: the apps the row had at opening that nobody removed.
* `AppFetch`: the runs of `startFetch` over the devices, each with its own abort
  signal; `abortRef` holds the latest one only. `hidden` is history: the runs that
  were under way when the end of an older run set the status of the modal.
* `AppDeploy`: the four sources of the apps page, the form of a dropped file with
  uploads that overlap, the F-Droid search, the deploy dialog with its press
  loop, and the assignment, which rewrites all links of an application. Others save
  a configuration, which deletes and inserts its rows (`ConfigReplaced`), or assign
  the same application, which updates rows in place (`LinksPosted`, read and posted
  at once); `renewed` and `overtaken` are the rows this happened to since the
  assignment read them. One assignment of this tab is under way at a time.
* `DeviceControl`: one mounted page under a changing address, its loads, the
  action dialogs, and the kiosk picker with its scan and icon queries. `wipes` is
  history: of each wipe the device it went to, the one shown when WIPE was typed,
  and whether a load swapped the device under the dialog.
* `FleetList`: search with its debounce timer, filters, selection, move and
  deletion, the bulk dialogs, which close while their request is in flight.
* `UpdateConsole`: the banner, which every page mounts anew, with its chain of
  timers and polls, and the updates section of the settings page.
* `Session`: the tabs of a browser share a cookie and a stored hint; the server
  keeps sessions with the token the account had; `AuthFilter` checks each call.
  `outlived` is a history variable, the sessions that were there when another
  admin set the password of their account, and so is `served`, what was served.

`Console` is a tab on one of these pages. The pages share no state of the browser
but the session, and the console keeps nothing when a page is left, so a
behaviour is one of one page, with what that page leaves running; what one page
does to another goes through the server, which each module lets change.

## 4. The runs

| Run | Question | Result |
|---|---|---|
| `command_safety` | does anything make a command run twice, travel twice, lose its outcome or run out of order but for the gate, and is the lifecycle implemented? | nothing does; it is |
| `command_liveness` | does every command end, does every decided outcome arrive? | holds |
| `config_single` | convergence to the last save through lost results, expiries, deaths and a reverted edit, with exchanges that do not overlap | holds |
| `config_race` | how far can racing handlers overshoot: at most one open command per handler, no invented drift, the backoff kept but for an attempt the other handler made in between? | holds |
| `kiosk_all` | all threads and one death: the newest document wins, reported is in force, a configuration ends kiosk only by a newer document, no stray HOME claim but by the launcher or a death half way | holds |
| `kiosk_off` | does turning kiosk off in the configuration turn it off? | violated |
| `enroll_fair` | one token, one device, one row with credentials, no row beside it; does a refused or failed enrollment heal? | holds |
| `enroll_burnt` | does a server-side failure never burn a token? | violated |
| `update` | overlapping polls, requests at any moment: one script at a time, a coherent end and a truthful status but for the cases `seen` and `crossed` name; does an unattended deployment keep up, and retry nothing for ever? | holds |
| `rollout` | one active rollout, canary first, a genuine mirror, nobody forgotten | holds |
| `console` | on every page: no app wiped, no silent kiosk change, what goes out is what the screen stands for, late answers leave alone what they should (each with its named exceptions), outdated sessions are refused | holds |
| `editor_locked` | are the seeded default configurations view-only? | violated |

### Bounds

* `command_safety`: `MaxId = 2` commands, the first gated on a capability that a
  check-in may report or not, so that the second may pass it or follow it; `Conns
  = 2` exchanges, an abandoned one whose handler still runs and its retry. Losses,
  deaths and resends are unbounded. `command_liveness` takes one command: no
  property of it relates two.
* `ConfigSync`: `MaxEdits = 3` with the third save going back to the first is the
  shortest sequence in which an old revision becomes current while a newer one
  is under way; `Rows = 3` allows an open row, a second one inserted by a race,
  and the latest closed one. `config_single` takes one exchange for the size of its
  liveness check. The race takes two exchanges and one edit.
* `KioskControl`: `MaxDoc = 3`, documents with kiosk, without and with again; any
  document may be sent again. One death in the middle of an operation (deaths at
  rest are unbounded). The violation takes two documents, the cycle alone and no
  death.
* `Enrollment`: two devices shown the same token, and three open exchanges, one
  for each device and an abandoned one. `MaxRows = 1` bounds the rows that a
  failing creation leaves behind. One token is enough: no statement reads the row
  of another, and the proofs are for any number.
* `Updater`: three releases, of which the first is installed and the second never
  answers its health check, so that an update fails and a later one must still
  follow; two polls, which may overlap; two slots, so that a second script can
  exist; one PHASE line in a pipe, which already lets the script be ahead of what
  the supervisor knows. `MaxEvents = 2` is one budget for failures, requests by
  hand, uses of the toggle (which starts on or off), restarts, overlaps of polls,
  and updates begun before the close event of the script before: any two of them,
  in any order. One lets a close event be late; two let something follow it, or an
  older offer be installed over a newer one.
* `Rollout`: two devices, both able to install silently, one of them or both in a
  canary; two requests at once (two of `create` and `promote` in any
  combination); two rollouts of two releases, so that one follows another and the
  mirror changes under it; one failed download or server restart. Promotions and
  panels are not bounded.
* `Console`: per page two of what can be confused (devices, configurations,
  tabs, apps to pick, overlapping uploads and searches), two edits, one save, one
  save by somebody else and one failed request in the editor, two scans, five or
  six clicks where clicks are counted, three status requests of the banner. One
  library app is enough in the editor: no property relates two apps.

Symmetry is used in runs that check no liveness only: over exchanges and rows
(`command_safety`, `config_race`), devices and requests (`rollout`),
configurations to deploy to (`console`). Deadlock is checked except where the
system may really stop: a rollout is over and its releases are spent, a page is
left alone with its requests answered.

### Fairness

Liveness is checked under weak fairness of: every handler that has accepted a
request (the servlet container runs it), the device's cycle (WorkManager's
periodic work is persistent and its backoff retries for ever), the passing of
time limits, and the end of exchanges nobody awaits (socket timeouts). Failures
(lost messages, failing applications, deaths) may come in any number, but end:
`<>[][~Failure]_vars`. Nothing requires a failure, an administrator or a crash
to happen. In `ConfigSync` the background write is assumed to be over before the
next check-in: a device that reports no revision after losing a document it had
already reported would be taken, through the stored one, for up to date.

`KeepsUp` and `NoEndlessRetry` of `Updater` assume that polls are repeated and
answered or fail (`setInterval`, request timeouts), that a script makes progress
(each of its commands ends), and that the supervisor handles the lines and the
close event it is sent. Releases, requests, the toggle, failures and restarts may
never come. `KeepsUp` lets the newest release be missing only where the supervisor
failed on it, or takes it to be running and is wrong: after a rollback by hand,
which does not change `currentVersion` (section 7), a late close event, or an
undoing that failed.

## 5. The proofs

All theorems hold for every value of the constants allowed by each module's
assumptions (finite sets of commands, exchanges, rows and devices where
cardinalities are involved; every bound any natural number).

`CommandDeliveryProofs`. `TypeCorrect`; `RunsAtMostOnce`, `DeliveredToOne` and
`ResultsSurvive` from the inductive invariant `IInv`; `Implementation`, the
refinement of `CommandLifecycle`. No single property is inductive: that a command
runs once rests on who carries it (`CarriedIsUndecided`: the carrier is alone, and
neither decided nor run), which rests on the claim (`QuietBeforeHandover`,
`HandoverRecorded`: a pending row was never handed out). That no outcome is lost
rests on where the waiting cycle's results are (`DrainedIsTravelling`: recorded or
still in the awaited request), since at delivery the device forgets them, and on
`ResultsFirst`: a handler past its result loop has no result left. `RunsInOrder`
rests on `Ordered`: what precedes a listed row is listed with it, already past or
left out, nothing is handed over before an earlier row that no handler left out is
past, and what the device may still run has nothing later behind it, except for
the pairs in `skipped`; the last holds because a cycle that does not wait awaits
no exchange, so that an abandoned one delivers to nobody. `SettledIsTold` and
`ResultsAreTold` give the refinement's only delicate step, recording.

`ConfigSyncProofs`. `TypeCorrect`; `RaceBounded` from `Balance`: the open commands
plus the handlers that have seen none and not inserted yet never outnumber the
exchanges. `RealDrift` and `BackoffHeld` hold for any number of overlapping
exchanges. For the first, what a handler compares is a revision the server had
stored for the device while this handler was at work, also where the request
omitted it (`Informed`). For the second, a handler about to insert has read from
the latest row of its time that the backoff is over, and a row above it since is
one that another wrote (`Rested`).

`KioskControlProofs`. `TypeCorrect`; `ClaimSafe`: in every interleaving of the
three threads with any number of deaths, a claim of HOME without kiosk, and
without a thread about to settle it, comes from a step of the launcher or from a
death half way, never from `KioskApplier`, mutex or not. The invariant it needs
is that a thread on its way to kiosk has a payload to keep (`Armed`).
`PersistsInOrder`, `ReportsWhatIsInForce` and `LiftsInOrder` rest on `Serial`: the
mutex is held by the one thread inside a section it guards, only the cycle applies
a new document, the newest, and what the thread inside has passed is its
document's already (`InOrder`). A step outside those sections leaves settings,
place and the stored document alone (`SerialAdvance`), however the boot worker,
the cycle, the launcher and deaths interleave.

`EnrollmentProofs`. `EnrollmentSafe`, `DeviceSafe`, `NoGhost`: the claim makes an
exchange the only owner of its token until its answer (`OneOwner`), the owner
knows whether the secret is stored (`SecretInOrder`), a token with a secret stays
used (`SecretIsUsed`), and a device is enrolled by the last owner there is
(`EnrolledIsLast`).

`UpdaterProofs`. `TypeCorrect`, `OneAtATime`, `TruthfulStatus` and `EndsClean`, for
any number of overlapping polls, slots, releases, failures, requests and restarts
and any depth of the pipes. `Sound` says what a script's program counter implies of
its pipe, its target and its exit code; `Followed` relates the scripts to the
supervisor: while no close event has been late at most one script is at work, the
others have exited and only their close event is to come, the last line the
supervisor read plus those in the pipe tell where it is (`Told`), `.env` and the
container are as it has set them (`Placed`), and the status is busy with its task
(`Tracked`). A late close event sets `crossed`, and
what is said of the status and of overlapping scripts is said for `crossed = 0`
only; it is 0 again when the last script has closed. "done" is true because a script
emits it only after its health check, and nothing touches the container between
that line and its reading. `EndsClean` adds what the versions are at each line of a
script (`Course`) and that a backup is of one version and not ahead of the
deployment; its exceptions are events the model records (`seen`), not hypotheses:
an offer that an older poll has set back starts an update `"behind"` the database.

`RolloutProofs`. `OneRollout` from `SameActive` (the unique index as an invariant
of all interleavings); `MirrorStoresItsOwn`; `CanaryFirst` from `Proven`: a panel
shows an enabled button only for a rollout a canary device of which has reported,
canary rows and reported versions only grow (`Grows`, a device never reports less
than before), so the proof outlives any age of the panel; `WholeFleet` from
`Worked`: a device that is neither on a request's list nor queued has the release,
a command, or a recorded miss.

`ConfigEditorProofs` and `ConsoleProofs`. `AppsSurvive` and `KioskAskedFor`, of
the editor and hence of the console. A save is as good as the draft, and the draft
as good as the answer that filled it: `Kept` (the entrusted apps are on the
server, and in the draft once it can be saved), `Compared` (unless the row changed
behind the editor, its baseline is the row, but for late apps), `Asked` (a save
under way that was not confirmed changes nothing kiosk depends on), with `Wired`
and `RowsNamed` for which row the draft is of. `KioskAskedFor` has three exceptions,
each a thing the code does: the page knew that no device would re-apply the row; the
row had changed behind the editor; the editor takes the save for one of a new
configuration (section 7 for the last two). `EditorTypesHold` is the type
invariant, with the editor's promise that what its Save waits for can still come.

`ConsoleProofs` has one invariant for each of the other pages, and composes them
in `ConsoleInv`: a tab stays on its page, and a step of another page is none of
this one. `TypesHold`, `ScreenTells`, `LateAnswersHarmless` and `SessionsEnd` say
of the console what the run `console` checks of it.

* the session page: a live session has a token its account had, and one that
  outlived a password an older one than its account has now (`Entitled`); a token
  only grows, so the filter refuses it for ever;
* the fetch modal: a run that goes on, was not told to stop and was not hidden by
  the end of an older one is the one `abortRef` holds and is shown (`Reaches`);
* the deploy dialog: the links an assignment read are the server's, but for rows
  inserted, deleted (`renewed`) or updated in place (`overtaken`) since
  (`LinksInv`);
* the device page: a dialog holds WIPE only if it was typed there, for the device
  shown unless a load has swapped it (`TypedHere`), and one app at most is picked in
  single mode, whichever modes were tried (`PickerInv`);
* the device list: one change at a time (`OneAtATime`), and a bulk dialog for one
  device holds one (`ModalInv`);
* the banner: the timer that can be cleared is the only one (`OneTimer`), and there
  is always it or a live poll.

They assume `ConsoleAssumption`: the bounds are numbers, one slot at least for the
banner's polls, no file is both an APK and a bundle (the page tells them by their
extension), the "nothing" of the form is no app's name, and "absent" no device's.

Only model-checked: the liveness properties (`EveryCommandSettles`,
`OutcomeReachesServer`, `Converges`, `Enrolls`, `KeepsUp`), which the prover
cannot reach. The three runs that expect a violation prove their point by a
counterexample.

## 6. Where the code and its words disagree

1. `kiosk_off`: a kiosk document that failed in another section leaves kiosk on
   without a trace, and the next document without kiosk reports success.
2. `enroll_burnt`: an SQL error after the device row exists burns the token.
3. `editor_locked`: "Duplicate to edit" on a locked default opens an editor whose
   draft is still the template's row; saving it overwrites the template.

## 7. Seen while modelling, without a run of its own

* Two overlapping check-ins can queue two `config.apply` commands, although
  `ConfigReconciler.java:22-27` says that drift queues one: both handlers look
  (`Look`, line 67) before either inserts. `OpenBounded` limits what comes of it to
  one per overlapping exchange; the device applies one document twice.
* "Kiosk entered by an ad-hoc kiosk.enter is never lifted here"
  (`ConfigApplier.kt:57-58`) does not hold where a document with kiosk is persisted:
  a kiosk entered by command after that document's own kiosk was left goes with the
  document, when the next one has none. Whose kiosk it is, is inferred from the last
  document (line 63). `LiftsByNewer` says what does hold.
* `kiosk.exit` against the boot worker, which re-applies a document with kiosk:
  the cycle unpins, the worker claims HOME, pins and stores its payload, the cycle
  clears the payload and gives up HOME. The device is pinned with no payload, and
  the exit has reported success (`KioskApplier.kt:30-47` has no mutex).
* A command whose process died before its result was delivered is not sent again
  as `PendingResults.kt:11-14` says: its row is `delivered` and expires.
* The crash-loop bail-out leaves the HOME alias enabled
  (`KioskLauncherActivity.kt:124-132`, against `KioskApplier.kt:33`);
  `ClaimSettled` names the launcher as an exception for that reason. The other
  exception is a death between `Pin` and `Keep` (`KioskApplier.kt:32`).
* After `kiosk.exit` a reboot re-applies the persisted document and enters kiosk
  again if it asserts kiosk (`KioskExitHandler.kt:11-12`).
* A device that lost its store reports no revision; the stored one stands in
  (`AgentResource.java:355`), so the loss is not noticed. `ConfigSync` excludes
  it (section 4, fairness).
* Between the last PHASE line of a script and its close event the supervisor takes
  the task to be over (`server.js:176-193`). A request served then starts a second
  script; the close event of the first one ends the status of the second, while it
  still runs, and a third can start beside it. `OneScript` and the refinement except
  that time.
* Polls of the supervisor overlap (interval, Check now, end of a script). An older
  poll that ends last sets the offer back; an update by hand then installs the older
  release over the newer schema, and if its undoing fails the deployment is older
  than the supervisor believes. `CleanEnd` excepts updates begun in this way.
* A rollback by hand leaves `currentVersion` as it was, so that the version it
  removed is neither offered nor installed again. A failed spawn is not modelled.
* The status offers the version just installed until the poll after the update has
  answered (`server.js:207-212`), for hours if that poll fails (`server.js:170`).
  Setting the unattended toggle in between (`SetAuto` after `CloseApply`, before
  `PollVerified`) applies the same version again, against "once per version"
  (`server.js:142`), and the backup then taken replaces that of the version before.
* `promote` and `cancel` write the stage unconditionally: a cancel between the
  read and the write of a promotion is overwritten, and two promotions queue the
  installs twice (installing a version again is harmless). What is pending is
  read for every rollout and every app, so a device with any install under way is
  passed over by a promotion and not looked at again; `NobodyForgotten` counts it
  as missed.
* One failed or empty poll of `RolloutPanel.tsx:43-50` hides a running rollout
  and ends its polling.
* Assigning an application rewrites all its links; the ones that hide it
  (action 0) are dropped (`configurations.ts:21-22`, `DeployModal.tsx:112-132`).
  `AssignLeavesActive` is about install and remove. It excepts rows that another
  admin's assignment of the same application updates in place between the read and
  the post (`ApplicationDAO.java:484-496` goes by the id): a hidden one made
  "install" is deleted by the stale post, a changed one is put back.
* A cancelled fetch that ends late sets the status of the dialog
  (`FetchFromDevicesModal.tsx:130`, `176`): a run started since loses its Cancel,
  and once a third is started nothing reaches it. `CancelReaches` excepts such
  runs.
* The form of the applications page mixes two files (`AppsPage.tsx:488-553`):
  dropped while the first still uploads or is added, or one after the other, since
  the new file's package stands beside the former one's address until its commit
  has ended; a library id may come late, too, against "drop any prior Library id".
  Deploy sends what the form holds. The model has all this; no property of the
  form says more than its assignments do, so none is claimed.
* A load of an address left behind puts its device under an open dialog
  (`DeviceDetailPage.tsx:131-159`): the command, the kiosk pick or the typed WIPE
  then goes to that device. `WipeTyped` excepts it.
* Whether a save must be confirmed is decided against the editor's own baseline
  (`ConfigurationsPage.tsx:503-505`). After another admin's save, or an own one
  whose answer was lost, a save that the editor sees as leaving kiosk alone
  switches it back without the dialog. A duplicated default is taken for a new
  configuration and saved without it.
* `LocationPanel` has no guard against an answer for the device shown before.

## 8. Not modelled

* Wake channel: a ping only shortens the wait for a check-in that the models let
  happen at any moment; no property depends on it.
* App installation on the device: one step that succeeds or fails, in `Rollout`
  and in the handlers of `CommandDelivery`.
* Telemetry, event log: nothing else depends on an event; that a process which
  dies between the drain and the answer loses events is listed as a hazard.
* Crash-loop guard: its counter decides when the launcher bails out, which
  `KioskControl` lets happen at any moment.
* Policies, capability probing, device actions: single calls of the operating
  system, whose delivery is the command channel.
* Wire protocol, inherited server, plugins, build scripts: data shapes, CRUD and
  straight-line scripts without an order to get wrong.
* Dashboard, enrollment page, read-only panels: they show rows and decide nothing.
* Within modelled components: minting of tokens and the apps a new device gets
  (`Enrollment`); the dialog that edits one application's metadata (`AppDeploy`);
  the name field and read-only panels (`DeviceControl`); the other sections of
  the settings page (`UpdateConsole`); two-factor login (`Session`). A check-in's
  telemetry, event and capability payloads are left out of `CommandDelivery`
  except for the tokens the gate reads; only one device is modelled there, since
  no row of one is read for another.
