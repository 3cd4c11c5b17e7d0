------------------------------- MODULE Updater -------------------------------
(***************************************************************************)
(* The supervisor's self-update: polls of the release list, the offer they *)
(* make, the unattended toggle, and the two scripts (apply.sh, rollback.sh)*)
(* whose PHASE lines and exit it follows, with restarts of the supervisor. *)
(* A version is its rank among the releases; 0 stands for "none".          *)
(***************************************************************************)
EXTENDS Naturals, Sequences, FiniteSets

CONSTANTS
    MaxVersion,   \* the newest version ever published
    Installed,    \* CURRENT_VERSION in the container's environment
    Broken,       \* versions whose server never answers the health check
    Polls,        \* polls that may overlap
    Slots,        \* script processes that may coexist
    PipeDepth,    \* PHASE lines a script may be ahead of the supervisor
    MaxEvents     \* failures outside, requests of an administrator, restarts, polls that overlap, and
                  \* unattended updates begun before the close event of an earlier script, together

ASSUME VersionAssumption ==
    /\ MaxVersion \in Nat /\ Installed \in 1..MaxVersion
    /\ Broken \subseteq 1..MaxVersion
ASSUME BoundAssumption == PipeDepth \in Nat \ {0} /\ MaxEvents \in Nat

VARIABLES
    published,        \* the newest release on the channel
    currentVersion,   \* server.js: what the supervisor takes to be running
    lastManifest,     \* the last verified manifest's version
    updateAvailable,  \* state.updateAvailable, computed when the status was last rebuilt
    apply,            \* the in-flight or last task: [phase, to, trigger]
    autoUpdate,       \* the unattended toggle; the file on the volume holds the same value
    lastAutoFailed,   \* version whose unattended update failed; memory only
    poll,             \* per poll in flight: the release it has read from the list; 0 if none
    script,           \* per slot: the child process
    env,              \* SERVER_VERSION in .env
    running,          \* the version the server container runs
    db,               \* the version whose schema and data the database holds
    latest,           \* the backup the pointer file names: [ver, db]; ver 0 if none
    used,             \* how much of MaxEvents has been used
    crossed,          \* history: close events that came while a later script was there; 0 once none is left
    seen              \* history: what has ever happened of "late" (such a close event), "rollback" (asked
                      \* for by hand), "undo" (a step back that failed), "killed" (a script that a restart
                      \* ended), "behind" (an update begun for a version older than the database)

supVars == <<currentVersion, lastManifest, updateAvailable, apply, autoUpdate, lastAutoFailed>>
hostVars == <<env, running, db, latest>>
history == <<crossed, seen>>
vars == <<published, supVars, poll, script, hostVars, used, history>>

Versions == 0..MaxVersion
ActivePhases == {"authorizing", "backup", "pull", "recreate", "healthcheck", "rollback"}
APPLY_TERMINAL == {"done", "rolled_back", "failed"}
isTerminal(p) == p \in APPLY_TERMINAL

NoApply == [phase |-> "none", to |-> 0, trigger |-> "none"]
NoScript == [kind |-> "none", pc |-> "off", to |-> 0, old |-> 0, oldDb |-> 0, pipe |-> <<>>, code |-> 0]
NoBackup == [ver |-> 0, db |-> 0]

Busy == apply # NoApply /\ ~isTerminal(apply.phase)
Newer(a, b) == IF a > b THEN a ELSE b

Spend == used < MaxEvents /\ used' = used + 1
Fault == Spend
Note(what, happened) == seen' = IF happened THEN seen \cup {what} ELSE seen

Init ==
    /\ published = Installed /\ currentVersion = Installed
    /\ lastManifest = 0 /\ updateAvailable = FALSE /\ apply = NoApply
    /\ autoUpdate \in BOOLEAN /\ lastAutoFailed = 0
    /\ poll = [p \in Polls |-> 0]
    /\ script = [s \in Slots |-> NoScript]
    /\ env = Installed /\ running = Installed /\ db = Installed /\ latest = NoBackup
    /\ used = 0
    /\ crossed = 0 /\ seen = {}

-----------------------------------------------------------------------------
(* Starting a task. *)

spawnPhases(kind, to) ==
    LET free == {s \in Slots : script[s] = NoScript}
    IN /\ free # {}
       /\ script' = [script EXCEPT ![CHOOSE s \in free : TRUE] =
                        [NoScript EXCEPT !.kind = kind, !.pc = "start", !.to = to]]

\* startApply, once its refusals (a task in progress, nothing verified to apply) are passed.
startApply(trigger, to) ==
    /\ apply' = [phase |-> "authorizing", to |-> to, trigger |-> trigger]
    /\ spawnPhases("apply", to)

\* Mutant: any failure of the past stops unattended updates.
AutoAppliesOnce(auto, avail, manifest) ==
    auto /\ avail /\ ~Busy /\ manifest # 0 /\ lastAutoFailed = 0

\* Mutant: a version that failed is tried again.
AutoRetries(auto, avail, manifest) == auto /\ avail /\ ~Busy /\ manifest # 0

\* maybeAutoApply: the unattended update of `manifest`, unless it already failed on it.
AutoApplies(auto, avail, manifest) ==
    auto /\ avail /\ ~Busy /\ manifest # 0 /\ manifest # lastAutoFailed
maybeAutoApply(auto, avail, manifest) ==
    IF AutoApplies(auto, avail, manifest)
    THEN startApply("auto", manifest)
    ELSE UNCHANGED <<apply, script>>

\* setStatus: the status is rebuilt from a poll's manifest (0: none or not verified).
setStatus(manifest) ==
    LET avail == manifest # 0 /\ manifest > currentVersion
    IN /\ updateAvailable' = avail
       /\ maybeAutoApply(autoUpdate, avail, manifest)

-----------------------------------------------------------------------------
(* Polls: the release list, then the manifest and its signature. *)

\* poll, pickRelease: the newest release of the channel that ships a manifest. Until the list has
\* been read a poll has done nothing, and when it cannot be read nothing changes.
PollList(p) ==
    /\ poll[p] = 0
    /\ poll' = [poll EXCEPT ![p] = published]
    /\ IF \E q \in Polls : poll[q] # 0 THEN Spend ELSE UNCHANGED used
    /\ UNCHANGED <<published, supVars, script, hostVars, history>>

PollVerified(p) ==
    /\ poll[p] # 0
    /\ poll' = [poll EXCEPT ![p] = 0]
    /\ lastManifest' = poll[p]
    /\ setStatus(poll[p])
    /\ IF apply' # apply /\ (\E s \in Slots : script[s] # NoScript) THEN Spend ELSE UNCHANGED used
    /\ UNCHANGED <<published, currentVersion, autoUpdate, lastAutoFailed, hostVars, history>>

\* No matching release, or a manifest that is missing, unreachable or badly signed.
PollRefused(p) ==
    /\ Fault
    /\ poll' = [poll EXCEPT ![p] = 0]
    /\ lastManifest' = 0
    /\ setStatus(0)
    /\ UNCHANGED <<published, currentVersion, autoUpdate, lastAutoFailed, hostVars, history>>

-----------------------------------------------------------------------------
(* Requests of an administrator. *)

ServerUp == running \notin Broken

\* POST /update/apply, authorised by the running server.
ManualApply ==
    /\ ServerUp /\ Spend
    /\ ~Busy /\ updateAvailable /\ lastManifest # 0
    /\ startApply("manual", lastManifest)
    /\ UNCHANGED <<published, currentVersion, lastManifest, updateAvailable, autoUpdate,
                   lastAutoFailed, poll, hostVars, history>>

\* Mutant: the rollback does not look whether a task is in progress.
ManualRollbackAnyTime ==
    /\ Spend
    /\ apply' = [phase |-> "rollback", to |-> 0, trigger |-> "rollback"]
    /\ spawnPhases("rollback", 0)
    /\ Note("rollback", TRUE)
    /\ UNCHANGED <<published, currentVersion, lastManifest, updateAvailable, autoUpdate,
                   lastAutoFailed, poll, hostVars, crossed>>

\* POST /update/rollback, authorised by the server or by the recovery token.
ManualRollback ==
    /\ Spend /\ ~Busy
    /\ apply' = [phase |-> "rollback", to |-> 0, trigger |-> "rollback"]
    /\ spawnPhases("rollback", 0)
    /\ Note("rollback", TRUE)
    /\ UNCHANGED <<published, currentVersion, lastManifest, updateAvailable, autoUpdate,
                   lastAutoFailed, poll, hostVars, crossed>>

\* POST /update/auto: saved, and applied to the offer as it stands.
SetAuto(on) ==
    /\ ServerUp /\ Spend
    /\ autoUpdate' = on
    /\ maybeAutoApply(on, updateAvailable, lastManifest)
    /\ UNCHANGED <<published, currentVersion, lastManifest, updateAvailable, lastAutoFailed,
                   poll, hostVars, history>>

-----------------------------------------------------------------------------
(* The scripts. A step writes at most one line to the pipe. *)

Becomes(s, c) == script' = [script EXCEPT ![s] = c]
Emit(s, line, next) ==
    /\ Len(script[s].pipe) < PipeDepth
    /\ Becomes(s, [script[s] EXCEPT !.pipe = Append(script[s].pipe, line), !.pc = next])
ExitWith(s, line, code) ==
    /\ Len(script[s].pipe) < PipeDepth
    /\ Becomes(s, [script[s] EXCEPT !.pipe = Append(script[s].pipe, line), !.pc = "exited",
                                    !.old = 0, !.oldDb = 0, !.code = code])
ScriptOnly == UNCHANGED <<published, supVars, poll, crossed>>
Quietly == ScriptOnly /\ UNCHANGED seen
Live(s) == script[s].pc \notin {"off", "exited"}
At(s, kind, pc) == script[s].kind = kind /\ script[s].pc = pc

ApplyBegin(s) ==
    /\ At(s, "apply", "start")
    /\ Len(script[s].pipe) < PipeDepth
    /\ Becomes(s, [script[s] EXCEPT !.pipe = Append(script[s].pipe, "backup"), !.pc = "backup", !.old = env])
    /\ Note("behind", script[s].to < db)
    /\ ScriptOnly /\ UNCHANGED <<hostVars, used>>

\* The dump, then the pointer to it.
Backup(s) ==
    /\ At(s, "apply", "backup")
    /\ Len(script[s].pipe) < PipeDepth
    /\ Becomes(s, [script[s] EXCEPT !.pipe = Append(script[s].pipe, "pull"), !.pc = "pull", !.oldDb = db])
    /\ latest' = [ver |-> script[s].old, db |-> db]
    /\ Quietly /\ UNCHANGED <<env, running, db, used>>

BackupFails(s) ==
    /\ At(s, "apply", "backup") /\ Fault
    /\ ExitWith(s, "failed", 1)
    /\ Quietly /\ UNCHANGED hostVars

Pull(s) ==
    /\ At(s, "apply", "pull")
    /\ env' = script[s].to
    /\ \/ Emit(s, "recreate", "recreate") /\ UNCHANGED used
       \/ Emit(s, "rollback", "rollback") /\ Fault
    /\ Quietly /\ UNCHANGED <<running, db, latest>>

\* Mutant: an error of the recreate is not looked at.
RecreateFailsUnnoticed(s) ==
    /\ At(s, "apply", "recreate") /\ Fault
    /\ UNCHANGED <<running, db>>
    /\ Emit(s, "healthcheck", "healthcheck")
    /\ Quietly /\ UNCHANGED <<env, latest>>

\* A started server migrates the database to its own schema.
Recreate(s) ==
    /\ At(s, "apply", "recreate")
    /\ running' = env /\ db' = Newer(db, env)
    /\ Emit(s, "healthcheck", "healthcheck")
    /\ Quietly /\ UNCHANGED <<env, latest, used>>

\* The recreate reports an error, with the new server started or not.
RecreateFails(s) ==
    /\ At(s, "apply", "recreate") /\ Fault
    /\ \/ UNCHANGED <<running, db>>
       \/ running' = env /\ db' = Newer(db, env)
    /\ Emit(s, "rollback", "rollback")
    /\ Quietly /\ UNCHANGED <<env, latest>>

Healthcheck(s) ==
    /\ At(s, "apply", "healthcheck")
    /\ \/ ServerUp /\ ExitWith(s, "done", 0) /\ UNCHANGED used
       \/ ~ServerUp /\ Emit(s, "rollback", "rollback") /\ UNCHANGED used
       \/ ServerUp /\ Emit(s, "rollback", "rollback") /\ Fault
    /\ Quietly /\ UNCHANGED hostVars

\* Mutant: no check that there is a backup.
RollbackBeginBlind(s) ==
    /\ At(s, "rollback", "start")
    /\ Len(script[s].pipe) < PipeDepth
    /\ Becomes(s, [script[s] EXCEPT !.pipe = Append(script[s].pipe, "rollback"), !.pc = "rollback",
                                    !.old = latest.ver, !.oldDb = latest.db])
    /\ Quietly /\ UNCHANGED <<hostVars, used>>

\* rollback.sh says it rolls back, and looks the last backup up.
RollbackBegin(s) ==
    /\ At(s, "rollback", "start")
    /\ IF latest = NoBackup
       THEN Emit(s, "rollback", "nobackup")
       ELSE /\ Len(script[s].pipe) < PipeDepth
            /\ Becomes(s, [script[s] EXCEPT !.pipe = Append(script[s].pipe, "rollback"), !.pc = "rollback",
                                            !.old = latest.ver, !.oldDb = latest.db])
    /\ Quietly /\ UNCHANGED <<hostVars, used>>

\* There is none to go back to.
RollbackRefused(s) ==
    /\ At(s, "rollback", "nobackup")
    /\ ExitWith(s, "failed", 1)
    /\ Quietly /\ UNCHANGED <<hostVars, used>>

\* Both scripts: the old version into .env and up again; an error is only reported.
RestoreVersion(s) ==
    /\ script[s].pc = "rollback"
    /\ env' = script[s].old
    /\ \/ running' = script[s].old /\ UNCHANGED <<used, seen>>
       \/ running' = running /\ Fault /\ Note("undo", TRUE)
    /\ Becomes(s, [script[s] EXCEPT !.pc = "restore"])
    /\ ScriptOnly /\ UNCHANGED <<db, latest>>

\* Mutant: the versions are restored, the database is not.
RestoreNoDatabase(s) ==
    /\ script[s].pc = "restore"
    /\ Becomes(s, [script[s] EXCEPT !.pc = "recheck"])
    /\ Quietly /\ UNCHANGED <<hostVars, used>>

RestoreDatabase(s) ==
    /\ script[s].pc = "restore"
    /\ \/ db' = script[s].oldDb /\ UNCHANGED <<used, seen>>
       \/ db' = db /\ Fault /\ Note("undo", TRUE)
    /\ Becomes(s, [script[s] EXCEPT !.pc = "recheck"])
    /\ ScriptOnly /\ UNCHANGED <<env, running, latest>>

Recheck(s) ==
    /\ script[s].pc = "recheck"
    /\ \/ /\ ServerUp /\ UNCHANGED used
          /\ ExitWith(s, "rolled_back", IF script[s].kind = "rollback" THEN 0 ELSE 1)
       \/ ~ServerUp /\ ExitWith(s, "failed", 1) /\ UNCHANGED used
       \/ ServerUp /\ ExitWith(s, "failed", 1) /\ Fault
    /\ Quietly /\ UNCHANGED hostVars

-----------------------------------------------------------------------------
(* What the supervisor sees of a script. *)

\* A PHASE line: it goes to whatever task `apply` is at that moment.
PhaseLine(s) ==
    /\ script[s].pipe # <<>>
    /\ apply' = [apply EXCEPT !.phase = Head(script[s].pipe)]
    /\ Becomes(s, [script[s] EXCEPT !.pipe = Tail(script[s].pipe)])
    /\ UNCHANGED <<published, currentVersion, lastManifest, updateAvailable, autoUpdate,
                   lastAutoFailed, poll, hostVars, used, history>>

\* The slot is free; a script started since the last line is still there: its status is the
\* one this close event ends.
Closed(s) ==
    /\ Becomes(s, NoScript)
    /\ crossed' = IF \E t \in Slots \ {s} : script[t] # NoScript THEN crossed + 1 ELSE 0
    /\ Note("late", crossed' # 0)

\* The close event: the last word on the task; the poll it starts is one that may come (PollList).
CloseApply(s) ==
    /\ At(s, "apply", "exited") /\ script[s].pipe = <<>>
    /\ LET c == script[s] IN
       /\ currentVersion' = IF c.code = 0 THEN c.to ELSE currentVersion
       /\ apply' = IF c.code = 0 THEN [apply EXCEPT !.phase = "done"]
                   ELSE IF isTerminal(apply.phase) THEN apply
                   ELSE [apply EXCEPT !.phase = "failed"]
       /\ lastAutoFailed' = IF c.code # 0 /\ apply.trigger = "auto" THEN c.to ELSE lastAutoFailed
    /\ Closed(s)
    /\ UNCHANGED <<published, lastManifest, updateAvailable, autoUpdate, poll, hostVars, used>>

CloseRollback(s) ==
    /\ At(s, "rollback", "exited") /\ script[s].pipe = <<>>
    /\ apply' = IF isTerminal(apply.phase) THEN apply
                ELSE [apply EXCEPT !.phase = IF script[s].code = 0 THEN "rolled_back" ELSE "failed"]
    /\ Closed(s)
    /\ UNCHANGED <<published, currentVersion, lastManifest, updateAvailable, autoUpdate,
                   lastAutoFailed, poll, hostVars, used>>

-----------------------------------------------------------------------------
(* The world outside. *)

Publish ==
    /\ published < MaxVersion /\ published' = published + 1
    /\ UNCHANGED <<supVars, poll, script, hostVars, used, history>>

\* The supervisor's container restarts: its memory and its children are gone.
Restart ==
    /\ Spend
    /\ currentVersion' = Installed /\ lastManifest' = 0 /\ updateAvailable' = FALSE
    /\ apply' = NoApply /\ lastAutoFailed' = 0
    /\ poll' = [p \in Polls |-> 0]
    /\ script' = [s \in Slots |-> NoScript]
    /\ crossed' = 0 /\ Note("killed", \E s \in Slots : Live(s))
    /\ UNCHANGED <<published, autoUpdate, hostVars>>

PollStep(p) == PollList(p) \/ PollVerified(p)
ScriptStep(s) ==
    \/ ApplyBegin(s) \/ Backup(s) \/ Pull(s) \/ Recreate(s) \/ Healthcheck(s)
    \/ RollbackBegin(s) \/ RollbackRefused(s) \/ RestoreVersion(s) \/ RestoreDatabase(s) \/ Recheck(s)
    \/ PhaseLine(s) \/ CloseApply(s) \/ CloseRollback(s)

Next ==
    \/ \E p \in Polls : PollStep(p) \/ PollRefused(p)
    \/ \E s \in Slots : ScriptStep(s) \/ BackupFails(s) \/ RecreateFails(s)
    \/ ManualApply \/ ManualRollback \/ \E on \in BOOLEAN : SetAuto(on)
    \/ Publish \/ Restart

\* setInterval polls for ever; a script that runs goes on; events are handled.
Fairness ==
    /\ \A p \in Polls : WF_vars(PollStep(p))
    /\ \A s \in Slots : WF_vars(ScriptStep(s))

Spec == Init /\ [][Next]_vars /\ Fairness

-----------------------------------------------------------------------------
(* Properties. *)

Lines == ActivePhases \cup APPLY_TERMINAL
Process == [kind : {"none", "apply", "rollback"},
            pc : {"off", "start", "backup", "pull", "recreate", "healthcheck", "rollback", "nobackup", "restore", "recheck", "exited"},
            to : Versions, old : Versions, oldDb : Versions, pipe : Seq(Lines), code : 0..1]

TypeOK ==
    /\ published \in 1..MaxVersion /\ currentVersion \in 1..MaxVersion
    /\ lastManifest \in Versions /\ updateAvailable \in BOOLEAN /\ autoUpdate \in BOOLEAN
    /\ lastAutoFailed \in Versions
    /\ apply \in [phase : {"none"} \cup ActivePhases \cup APPLY_TERMINAL, to : Versions,
                 trigger : {"none", "manual", "auto", "rollback"}]
    /\ poll \in [Polls -> Versions]
    /\ env \in 1..MaxVersion /\ running \in 1..MaxVersion /\ db \in 1..MaxVersion
    /\ latest \in [ver : Versions, db : Versions]
    /\ script \in [Slots -> Process]
    /\ used \in Nat /\ crossed \in Nat /\ seen \subseteq {"late", "rollback", "undo", "killed", "behind"}

\* Two scripts never work on the deployment at once, though the refusal of a second task rests on
\* the phase last read from the first one's pipe (server.js startApply, startRollback); unless a
\* close event came so late that it ended the status of a script started since: from then on, until
\* the last of them has closed, nothing refuses another.
OneScript == crossed = 0 => \A s, t \in Slots : Live(s) /\ Live(t) => s = t

\* A deployment no script works on is coherent: .env, the container and the database are of one
\* version, whichever step of an update failed (apply.sh, rollback.sh); unless a step of the undoing
\* failed too, a restart ended a script midway, a late close event let two scripts work at once, or
\* an update was begun for a version older than the database.
CleanEnd ==
    seen \subseteq {"rollback"} /\ (\A s \in Slots : ~Live(s)) => env = running /\ db = running

\* Left unattended, the deployment gets to the newest release or the supervisor has failed on it;
\* only a release the supervisor takes to be running may be missing, after a rollback by hand, a late
\* close event or an undoing that failed (server.js maybeAutoApply, poll).
KeepsUp ==
    <>[]autoUpdate => <>[](\/ running = published \/ lastAutoFailed = published
                           \/ currentVersion = published /\ seen \cap {"rollback", "late", "undo"} # {})

\* No release is tried for ever unattended: one that fails is remembered (server.js lastAutoFailed,
\* "don't auto-retry a bad version"), one that is in place is no longer offered; so when no more
\* releases come, unattended updates end.
StartsAuto == ~Busy /\ Busy' /\ apply'.trigger = "auto"
NoEndlessRetry == <>[][~StartsAuto]_vars

Lifecycle == INSTANCE UpdateLifecycle WITH
    task <- IF Busy THEN [kind |-> IF apply.trigger = "rollback" THEN "rollback" ELSE "apply",
                          to |-> apply.to]
            ELSE [kind |-> "none", to |-> 0],
    outcome <- IF apply.phase \in APPLY_TERMINAL THEN apply.phase ELSE "none",
    deployed <- running,
    muddled <- crossed # 0

\* The status tells the truth about the deployment, but from a late close event until the last
\* script has closed (UpdateLifecycle).
ImplementsLifecycle == Lifecycle!LifeSpec

=============================================================================
