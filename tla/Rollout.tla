------------------------------- MODULE Rollout -------------------------------
(***************************************************************************)
(* The staged agent rollout: administrators start a canary, promote it to  *)
(* the fleet or cancel it (RolloutResource, one statement at a time) from  *)
(* any number of panels, each of which may show an older state; the        *)
(* supervisor mirrors the released APK; devices install what the mirror    *)
(* serves and report their version.                                        *)
(***************************************************************************)
EXTENDS Naturals, FiniteSets

CONSTANTS
    Devices,      \* devices of the customer
    Capable,      \* those that advertise app.silentInstall
    Requests,     \* requests the server may work on at once
    MaxRollouts,  \* rollouts ever inserted
    MaxVersion,   \* agent releases; every device starts at an older one, 0
    MaxFaults     \* failed downloads and server restarts

ASSUME RolloutAssumption ==
    /\ Capable \subseteq Devices /\ IsFiniteSet(Devices)
    /\ MaxRollouts \in Nat /\ MaxVersion \in Nat \ {0} /\ MaxFaults \in Nat

VARIABLES
    rollout,   \* per id: the row of agentRollout and its agentRolloutCanary rows
    cmds,      \* app.install commands not yet acknowledged: [r, d, ran]
    handler,   \* per request: what the server is about to do
    offered,   \* rollouts that some panel has shown with an enabled promote button
    version,   \* the agent version a device runs
    reported,  \* the version device_state holds
    lastApk,   \* supervisor: the release the mirror offers
    file,      \* supervisor: per versionCode, whose bytes the cached file holds; 0 if none
    fetching,  \* supervisor: the version being downloaded; 0 if none
    missed,    \* history: [r, d] whose install failed, or was not queued for another's sake
    faults     \* faults so far

serverVars == <<rollout, cmds, handler>>
deviceVars == <<version, reported>>
mirrorVars == <<lastApk, file, fetching>>
vars == <<serverVars, offered, deviceVars, mirrorVars, missed, faults>>

Ids == 1..MaxRollouts
Versions == 1..MaxVersion
NoRow == [stage |-> "none", target |-> 0, canary |-> {}]
Idle == [pc |-> "idle", r |-> 0, target |-> 0, todo |-> {}]

ActiveStages == {"canary", "fleet"}
Active == {r \in Ids : rollout[r].stage \in ActiveStages}
\* findActiveByCustomer: the newest active row, 0 for null.
findActiveByCustomer == IF Active = {} THEN 0 ELSE CHOOSE r \in Active : \A q \in Active : q <= r

Init ==
    /\ rollout = [r \in Ids |-> NoRow] /\ cmds = {}
    /\ handler = [a \in Requests |-> Idle] /\ offered = {}
    /\ version = [d \in Devices |-> 0] /\ reported = [d \in Devices |-> 0]
    /\ lastApk = 1 /\ file = [v \in Versions |-> 0] /\ fetching = 0
    /\ missed = {} /\ faults = 0

Fault == faults < MaxFaults /\ faults' = faults + 1

-----------------------------------------------------------------------------
(* Progress. *)

\* listPendingInstallNumbers: an app.install of any rollout is outstanding.
Pending(d) == \E c \in cmds : c.d = d

classify(target, d, hasPending) ==
    IF reported[d] = target THEN "UPDATED"
    ELSE IF d \notin Capable THEN "INELIGIBLE"
    ELSE IF hasPending THEN "PENDING" ELSE "OUTSTANDING"

\* counts of the canary cohort, as far as the promote button looks at them.
CanaryCount(r, status) ==
    Cardinality({d \in rollout[r].canary : classify(rollout[r].target, d, Pending(d)) = status})

\* Mutant: one updated canary device is not asked for.
CanPromoteEmpty(r) == CanaryCount(r, "PENDING") = 0 /\ CanaryCount(r, "OUTSTANDING") = 0

\* The promote button is enabled: nobody left to wait for, and at least one updated.
CanPromote(r) ==
    /\ CanaryCount(r, "PENDING") = 0 /\ CanaryCount(r, "OUTSTANDING") = 0
    /\ CanaryCount(r, "UPDATED") >= 1

-----------------------------------------------------------------------------
(* The panels. *)

\* A poll shows the active rollout with its button enabled; it may stay on screen for long.
Offer(r) ==
    /\ r = findActiveByCustomer /\ rollout[r].stage = "canary" /\ CanPromote(r)
    /\ offered' = offered \cup {r}
    /\ UNCHANGED <<serverVars, deviceVars, mirrorVars, missed, faults>>

Send(a, request) ==
    /\ handler[a] = Idle
    /\ handler' = [handler EXCEPT ![a] = request]
    /\ UNCHANGED <<rollout, cmds, offered, deviceVars, mirrorVars, missed, faults>>

\* start: the release of the status read when the panel was opened, to the chosen devices.
\* The server refuses it while a rollout is active.
Start(a, v, canary) ==
    /\ v <= lastApk /\ file[v] # 0 /\ canary # {}
    /\ findActiveByCustomer = 0
    /\ Send(a, [pc |-> "insert", r |-> 0, target |-> v, todo |-> canary])

\* promote: of the rollout shown, which the server wants in its canary stage.
Promote(a, r) ==
    /\ r \in offered /\ rollout[r].stage = "canary"
    /\ Send(a, [pc |-> "stage", r |-> r, target |-> 0, todo |-> {}])

\* Mutant: a stage the type does not have.
CancelAsDone(r) ==
    /\ rollout[r] # NoRow
    /\ rollout' = [rollout EXCEPT ![r].stage = "done"]
    /\ UNCHANGED <<cmds, handler, offered, deviceVars, mirrorVars, missed, faults>>

\* finish: of the rollout shown; the stage is overwritten whatever it is by now.
Cancel(r) ==
    /\ rollout[r] # NoRow
    /\ rollout' = [rollout EXCEPT ![r].stage = "cancelled"]
    /\ UNCHANGED <<cmds, handler, offered, deviceVars, mirrorVars, missed, faults>>

-----------------------------------------------------------------------------
(* The server's handlers, from statement to statement. *)

\* Mutant: no such index.
IndexMissing(r) == r \in Ids

\* The partial unique index: the stage of r may be written as an active one.
IndexAllows(r) == Active \subseteq {r}

Fails(a) == handler' = [handler EXCEPT ![a] = Idle] /\ UNCHANGED <<rollout, cmds>>
AtPc(a, pc) == handler[a].pc = pc
HandlerOnly == UNCHANGED <<offered, deviceVars, mirrorVars, faults>>

\* insertRollout, which may lose the race for the only active row.
Insert(a) ==
    /\ AtPc(a, "insert")
    /\ \E r \in Ids :
        /\ rollout[r] = NoRow /\ \A q \in 1..(r - 1) : rollout[q] # NoRow
        /\ \/ /\ IndexAllows(r)
              /\ rollout' = [rollout EXCEPT ![r] = [stage |-> "canary", target |-> handler[a].target,
                                                    canary |-> {}]]
              /\ handler' = [handler EXCEPT ![a].pc = "canary", ![a].r = r]
              /\ UNCHANGED cmds
           \/ ~IndexAllows(r) /\ Fails(a)
    /\ HandlerOnly /\ UNCHANGED missed

\* Past MaxRollouts the insert is refused, to keep the model finite.
InsertRefused(a) ==
    /\ AtPc(a, "insert") /\ \A r \in Ids : rollout[r] # NoRow
    /\ Fails(a) /\ HandlerOnly /\ UNCHANGED missed

\* insertCanary, a row at a time; with the last one the rows of the cohort are filtered.
InsertCanary(a) ==
    /\ AtPc(a, "canary")
    /\ LET r == handler[a].r
           left == handler[a].todo \ rollout[r].canary
       IN \E d \in left :
            /\ rollout' = [rollout EXCEPT ![r].canary = rollout[r].canary \cup {d}]
            /\ handler' = IF left = {d} THEN [handler EXCEPT ![a].pc = "pending"] ELSE handler
    /\ UNCHANGED cmds /\ HandlerOnly /\ UNCHANGED missed

\* Mutant: the cohort is the canary, not the rest.
PromoteStageCanary(a) ==
    /\ AtPc(a, "stage")
    /\ LET r == handler[a].r IN
       \/ /\ IndexAllows(r)
          /\ rollout' = [rollout EXCEPT ![r].stage = "fleet"]
          /\ handler' = [handler EXCEPT ![a].pc = "pending", ![a].target = rollout[r].target,
                                        ![a].todo = rollout[r].canary]
          /\ UNCHANGED cmds
       \/ ~IndexAllows(r) /\ Fails(a)
    /\ HandlerOnly /\ UNCHANGED missed

\* updateStage to "fleet", refused by the index, and the rows of the customer's devices.
PromoteStage(a) ==
    /\ AtPc(a, "stage")
    /\ LET r == handler[a].r IN
       \/ /\ IndexAllows(r)
          /\ rollout' = [rollout EXCEPT ![r].stage = "fleet"]
          /\ handler' = [handler EXCEPT ![a].pc = "pending", ![a].target = rollout[r].target,
                                        ![a].todo = Devices \ rollout[r].canary]
          /\ UNCHANGED cmds
       \/ ~IndexAllows(r) /\ Fails(a)
    /\ HandlerOnly /\ UNCHANGED missed

\* listPendingInstallNumbers and the classification of the cohort.
ReadPending(a) ==
    /\ AtPc(a, "pending")
    /\ LET h == handler[a]
           Is(status) == {d \in h.todo : classify(h.target, d, Pending(d)) = status}
           others == {d \in Is("PENDING") : ~\E c \in cmds : c.d = d /\ c.r = h.r}
       IN /\ handler' = [handler EXCEPT ![a].pc = "queue", ![a].todo = Is("OUTSTANDING")]
          /\ missed' = missed \cup {[r |-> h.r, d |-> d] : d \in others}
    /\ UNCHANGED <<rollout, cmds>> /\ HandlerOnly

\* enqueueInstall for each of them, and the answer.
Enqueue(a) ==
    /\ AtPc(a, "queue")
    /\ cmds' = cmds \cup {[r |-> handler[a].r, d |-> d, ran |-> FALSE] : d \in handler[a].todo}
    /\ handler' = [handler EXCEPT ![a] = Idle]
    /\ UNCHANGED <<rollout, offered, deviceVars, mirrorVars, missed, faults>>

\* The server restarts: requests in progress end where they are.
ServerRestart ==
    /\ Fault
    /\ \E a \in Requests : handler[a] # Idle
    /\ handler' = [a \in Requests |-> Idle]
    /\ UNCHANGED <<rollout, cmds, offered, deviceVars, mirrorVars, missed>>

-----------------------------------------------------------------------------
(* The mirror: ensureApk. *)

\* A poll verifies the next release.
Release ==
    /\ lastApk < MaxVersion /\ lastApk' = lastApk + 1
    /\ UNCHANGED <<serverVars, offered, deviceVars, file, fetching, missed, faults>>

MirrorOnly == UNCHANGED <<serverVars, offered, deviceVars, lastApk, missed>>

\* The first request or poll starts the one download; dest and url are of this lastApk.
FetchStart ==
    /\ fetching = 0 /\ file[lastApk] = 0
    /\ fetching' = lastApk
    /\ UNCHANGED file /\ MirrorOnly /\ UNCHANGED faults

\* Mutant: the file is named after the download, the bytes are not compared.
FetchEndUnchecked ==
    /\ fetching # 0 /\ fetching' = 0
    /\ file' = [file EXCEPT ![lastApk] = fetching]
    /\ MirrorOnly /\ UNCHANGED faults

\* The bytes are compared with the checksum of whatever lastApk is by then.
FetchEnd ==
    /\ fetching # 0 /\ fetching' = 0
    /\ file' = IF fetching = lastApk THEN [file EXCEPT ![fetching] = fetching] ELSE file
    /\ MirrorOnly /\ UNCHANGED faults

\* A download that fails or is corrupt: nothing is stored.
FetchFails ==
    /\ fetching # 0 /\ fetching' = 0 /\ Fault
    /\ UNCHANGED file /\ MirrorOnly

-----------------------------------------------------------------------------
(* The devices. *)

Missed(c) == missed' = missed \cup {[r |-> c.r, d |-> c.d]}
Ran(c) == cmds' = (cmds \ {c}) \cup {[c EXCEPT !.ran = TRUE]}
DeviceOnly == UNCHANGED <<rollout, handler, offered, mirrorVars>>

\* app.install: /update/agent.apk serves the current release whatever ?v= says; the
\* agent checks it against the checksum of the command, Android refuses an older version.
Install(c) ==
    /\ c \in cmds /\ ~c.ran
    /\ Ran(c)
    /\ LET target == rollout[c.r].target IN
       \/ /\ file[lastApk] = target /\ target >= version[c.d]
          /\ version' = [version EXCEPT ![c.d] = target]
          /\ UNCHANGED missed
       \/ /\ ~(file[lastApk] = target /\ target >= version[c.d])
          /\ Missed(c) /\ UNCHANGED version
    /\ DeviceOnly /\ UNCHANGED <<reported, faults>>

\* The result reaches the server: the command is outstanding no more.
Ack(c) ==
    /\ c \in cmds /\ c.ran
    /\ cmds' = cmds \ {c}
    /\ DeviceOnly /\ UNCHANGED <<deviceVars, missed, faults>>

\* A check-in reports the version.
Report(d) ==
    /\ reported[d] # version[d]
    /\ reported' = [reported EXCEPT ![d] = version[d]]
    /\ DeviceOnly /\ UNCHANGED <<cmds, version, missed, faults>>

-----------------------------------------------------------------------------
Handler(a) ==
    \/ Insert(a) \/ InsertRefused(a) \/ InsertCanary(a)
    \/ PromoteStage(a) \/ ReadPending(a) \/ Enqueue(a)

Next ==
    \/ \E r \in Ids : Offer(r) \/ Cancel(r) \/ \E a \in Requests : Promote(a, r)
    \/ \E a \in Requests : Handler(a)
    \/ \E a \in Requests, v \in Versions, canary \in SUBSET Devices : Start(a, v, canary)
    \/ \E c \in cmds : Install(c) \/ Ack(c)
    \/ \E d \in Devices : Report(d)
    \/ ServerRestart \/ Release \/ FetchStart \/ FetchEnd \/ FetchFails

Spec == Init /\ [][Next]_vars

-----------------------------------------------------------------------------
(* Properties. *)

Row == [stage : {"none"} \cup ActiveStages \cup {"cancelled"}, target : 0..MaxVersion, canary : SUBSET Devices]
Request == [pc : {"idle", "insert", "canary", "stage", "pending", "queue"}, r : 0..MaxRollouts,
            target : 0..MaxVersion, todo : SUBSET Devices]

\* Every variable keeps its type: only a device that can install silently gets a command.
TypeOK ==
    /\ rollout \in [Ids -> Row]
    /\ cmds \subseteq [r : Ids, d : Capable, ran : BOOLEAN]
    /\ handler \in [Requests -> Request]
    /\ offered \subseteq Ids
    /\ version \in [Devices -> 0..MaxVersion] /\ reported \in [Devices -> 0..MaxVersion]
    /\ lastApk \in Versions /\ file \in [Versions -> 0..MaxVersion] /\ fetching \in 0..MaxVersion
    /\ missed \subseteq [r : 0..MaxRollouts, d : Devices] /\ faults \in 0..MaxFaults

\* One rollout is active at a time, however creations, promotions and cancellations of
\* several administrators overlap (RolloutResource.create, promote).
OneActive == Cardinality(Active) <= 1

\* The update reaches a device outside the canary only after a canary device has
\* reported it, although every panel may show an old state and the canary rows are
\* written one by one (RolloutPanel's promote button, RolloutResource.promote).
ProvenFirst ==
    \A c \in cmds : c.d \notin rollout[c.r].canary =>
        \E d \in rollout[c.r].canary : reported[d] >= rollout[c.r].target

\* What the mirror stores under a versionCode is that version, although the checksum is
\* read after the download, when another release may be current (server.js ensureApk).
MirrorGenuine == \A v \in Versions : file[v] \in {0, v}

\* Once a promotion has been worked off, no device of the fleet is forgotten: it has this
\* update or a later one, or an install on its way, or its install failed, or another one was
\* outstanding when the rest was queued (RolloutResource.enqueueEligible); a restart may cut
\* it short.
NobodyForgotten ==
    \A r \in Ids : rollout[r].stage = "fleet" /\ faults = 0 /\ (\A a \in Requests : handler[a].r # r)
        => \A d \in Capable \ rollout[r].canary :
            \/ version[d] >= rollout[r].target
            \/ \E c \in cmds : c.r = r /\ c.d = d
            \/ [r |-> r, d |-> d] \in missed

=============================================================================
