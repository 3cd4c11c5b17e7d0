---------------------------- MODULE RolloutProofs ----------------------------
(* For any fleet, any number of administrators, requests and releases: one    *)
(* rollout is active, the mirror stores what it names, and nothing reaches a  *)
(* device outside the canary before a canary device has reported the release. *)
EXTENDS Rollout, FiniteSetTheorems, TLAPS

\* Each field a handler writes keeps the type of a request in progress.
LEMMA RequestSteps ==
    ASSUME NEW h \in Request
    PROVE  /\ \A r \in 0..MaxRollouts : [h EXCEPT !.pc = "canary", !.r = r] \in Request
           /\ [h EXCEPT !.pc = "pending"] \in Request
           /\ \A v \in 0..MaxVersion, S \in SUBSET Devices :
                 [h EXCEPT !.pc = "pending", !.target = v, !.todo = S] \in Request
           /\ \A S \in SUBSET Devices : [h EXCEPT !.pc = "queue", !.todo = S] \in Request
BY DEF Request

\* Each field a handler or a panel writes keeps the type of a row.
LEMMA RowSteps ==
    ASSUME NEW w \in Row
    PROVE  /\ [w EXCEPT !.stage = "cancelled"] \in Row
           /\ [w EXCEPT !.stage = "fleet"] \in Row
           /\ \A S \in SUBSET Devices : [w EXCEPT !.canary = S] \in Row
BY DEF Row, ActiveStages

\* So is a new row of a rollout.
LEMMA NewRow ==
    \A v \in 0..MaxVersion : [stage |-> "canary", target |-> v, canary |-> {}] \in Row
BY DEF Row, ActiveStages

\* No request, and no row.
LEMMA IdleRequest == Idle \in Request /\ NoRow \in Row /\ Idle.pc = "idle" /\ Idle.r = 0
BY RolloutAssumption DEF Idle, NoRow, Request, Row, ActiveStages

\* What is classified as outstanding can install silently.
LEMMA OutstandingCapable ==
    ASSUME NEW t, NEW d, NEW p, classify(t, d, p) = "OUTSTANDING"
    PROVE  d \in Capable
BY DEF classify

\* A handler that is about to queue knows its rollout and holds capable devices only.
HandlerOK ==
    \A a \in Requests :
        /\ handler[a].pc \in {"canary", "stage", "pending", "queue"} => handler[a].r \in Ids
        /\ handler[a].pc = "queue" => handler[a].todo \subseteq Capable
Typed == TypeOK /\ HandlerOK

LEMMA TypedInit == Init => Typed
<1> SUFFICES ASSUME Init PROVE Typed
    OBVIOUS
<1> USE RolloutAssumption, IdleRequest DEF Init
<1>1. rollout \in [Ids -> Row] /\ handler \in [Requests -> Request]
    OBVIOUS
<1>2. /\ cmds = {} /\ offered = {} /\ missed = {}
      /\ version \in [Devices -> 0..MaxVersion] /\ reported \in [Devices -> 0..MaxVersion]
      /\ lastApk \in Versions /\ file \in [Versions -> 0..MaxVersion]
      /\ fetching \in 0..MaxVersion /\ faults \in 0..MaxFaults
    BY DEF Versions
<1>3. HandlerOK
    BY DEF HandlerOK
<1> QED
    BY <1>1, <1>2, <1>3 DEF Typed, TypeOK

\* Panels, devices and the mirror keep the types.
LEMMA TypedSmall ==
    ASSUME Typed,
           \/ \E r \in Ids : Offer(r) \/ Cancel(r) \/ \E a \in Requests : Promote(a, r)
           \/ \E a \in Requests, v \in Versions, canary \in SUBSET Devices : Start(a, v, canary)
           \/ \E c \in cmds : Install(c) \/ Ack(c)
           \/ \E d \in Devices : Report(d)
           \/ ServerRestart \/ Release \/ FetchStart \/ FetchEnd \/ FetchFails
    PROVE  Typed'
<1> USE RolloutAssumption DEF Typed, TypeOK
<1>1. ASSUME NEW r \in Ids, Offer(r) PROVE Typed'
    BY <1>1 DEF Offer, HandlerOK, serverVars, deviceVars, mirrorVars
<1>2. ASSUME NEW r \in Ids, Cancel(r) PROVE Typed'
    BY <1>2, RowSteps DEF Cancel, HandlerOK, deviceVars, mirrorVars
<1>3. ASSUME NEW r \in Ids, NEW a \in Requests, Promote(a, r) PROVE Typed'
    <2>1. [pc |-> "stage", r |-> r, target |-> 0, todo |-> {}] \in Request
        BY DEF Request, Ids
    <2> QED
        BY <1>3, <2>1 DEF Promote, Send, HandlerOK, deviceVars, mirrorVars
<1>4. ASSUME NEW a \in Requests, NEW v \in Versions, NEW canary \in SUBSET Devices, Start(a, v, canary)
      PROVE Typed'
    <2>1. [pc |-> "insert", r |-> 0, target |-> v, todo |-> canary] \in Request
        BY DEF Request, Versions
    <2> QED
        BY <1>4, <2>1 DEF Start, Send, HandlerOK, deviceVars, mirrorVars
<1>5. ASSUME NEW c \in cmds, Install(c) PROVE Typed'
    <2>1. [c EXCEPT !.ran = TRUE] \in [r : Ids, d : Capable, ran : BOOLEAN]
        BY <1>5
    <2>2. cmds' \subseteq [r : Ids, d : Capable, ran : BOOLEAN]
        BY <1>5, <2>1 DEF Install, Ran
    <2>3. c.r \in Ids /\ c.d \in Devices /\ rollout[c.r].target \in 0..MaxVersion
        BY <1>5 DEF Row
    <2>4. [r |-> c.r, d |-> c.d] \in [r : 0..MaxRollouts, d : Devices]
        BY <2>3 DEF Ids
    <2>5. missed' \subseteq [r : 0..MaxRollouts, d : Devices]
        BY <1>5, <2>4 DEF Install, Missed
    <2>6. version' \in [Devices -> 0..MaxVersion]
        BY <1>5, <2>3 DEF Install
    <2> QED
        BY <1>5, <2>2, <2>5, <2>6 DEF Install, DeviceOnly, HandlerOK, mirrorVars
<1>6. ASSUME NEW c \in cmds, Ack(c) PROVE Typed'
    BY <1>6 DEF Ack, DeviceOnly, HandlerOK, mirrorVars, deviceVars
<1>7. ASSUME NEW d \in Devices, Report(d) PROVE Typed'
    BY <1>7 DEF Report, DeviceOnly, HandlerOK, mirrorVars
<1>8. ASSUME ServerRestart PROVE Typed'
    BY <1>8, IdleRequest DEF ServerRestart, Fault, HandlerOK, deviceVars, mirrorVars
<1>9. ASSUME Release PROVE Typed'
    BY <1>9 DEF Release, Versions, HandlerOK, serverVars, deviceVars
<1>10. ASSUME FetchStart PROVE Typed'
    BY <1>10 DEF FetchStart, MirrorOnly, Versions, HandlerOK, serverVars, deviceVars
<1>11. ASSUME FetchEnd PROVE Typed'
    BY <1>11 DEF FetchEnd, MirrorOnly, Versions, HandlerOK, serverVars, deviceVars
<1>12. ASSUME FetchFails PROVE Typed'
    BY <1>12 DEF FetchFails, Fault, MirrorOnly, HandlerOK, serverVars, deviceVars
<1> QED
    BY <1>1, <1>2, <1>3, <1>4, <1>5, <1>6, <1>7, <1>8, <1>9, <1>10, <1>11, <1>12

\* The statements of the handlers keep the types.
LEMMA TypedHandler ==
    ASSUME Typed, NEW a \in Requests, Handler(a)
    PROVE  Typed'
<1> USE RolloutAssumption, IdleRequest DEF Typed, TypeOK, HandlerOnly, AtPc, Fails
<1>0. handler[a] \in Request /\ handler[a].r \in 0..MaxRollouts /\ handler[a].target \in 0..MaxVersion
      /\ handler[a].todo \subseteq Devices
    BY DEF Request
<1>1. CASE Insert(a)
    <2> PICK r \in Ids : \/ /\ rollout' = [rollout EXCEPT ![r] = [stage |-> "canary", target |-> handler[a].target,
                                                    canary |-> {}]]
                            /\ handler' = [handler EXCEPT ![a] = [handler[a] EXCEPT !.pc = "canary", !.r = r]]
                            /\ UNCHANGED cmds
                         \/ Fails(a)
        BY <1>1 DEF Insert
    <2> DEFINE h2 == [handler[a] EXCEPT !.pc = "canary", !.r = r]
    <2>0. r \in 0..MaxRollouts
        BY DEF Ids
    <2>1. h2 \in Request
        BY <1>0, <2>0, RequestSteps
    <2>6. h2.pc = "canary" /\ h2.r = r
        BY <1>0 DEF Request
    <2> HIDE DEF h2
    <2>2. rollout' \in [Ids -> Row]
        BY <1>0, NewRow
    <2>4. handler' \in [Requests -> Request]
        BY <2>1 DEF h2
    <2>5. handler' = [handler EXCEPT ![a] = h2] \/ handler' = [handler EXCEPT ![a] = Idle]
        BY DEF h2
    <2>3. HandlerOK'
        BY <2>5, <2>6 DEF HandlerOK
    <2> QED
        BY <1>1, <2>2, <2>3, <2>4 DEF Insert, deviceVars, mirrorVars
<1>2. CASE InsertRefused(a)
    BY <1>2 DEF InsertRefused, HandlerOK, deviceVars, mirrorVars
<1>3. CASE InsertCanary(a)
    <2> DEFINE r == handler[a].r
    <2>1. r \in Ids
        BY <1>3 DEF InsertCanary, HandlerOK
    <2>2. PICK d \in handler[a].todo \ rollout[r].canary :
              /\ rollout' = [rollout EXCEPT ![r] = [rollout[r] EXCEPT !.canary = rollout[r].canary \cup {d}]]
              /\ handler' \in {handler, [handler EXCEPT ![a] = [handler[a] EXCEPT !.pc = "pending"]]}
        BY <1>3 DEF InsertCanary
    <2>3. rollout[r].canary \cup {d} \subseteq Devices
        BY <1>0, <2>1, <2>2 DEF Row
    <2> DEFINE w2 == [rollout[r] EXCEPT !.canary = rollout[r].canary \cup {d}]
    <2>7. w2 \in Row
        BY <2>1, <2>3, RowSteps
    <2>4. rollout' \in [Ids -> Row]
        BY <2>1, <2>2, <2>7
    <2>5. handler' \in [Requests -> Request]
        BY <1>0, <2>2, RequestSteps
    <2>6. HandlerOK'
        BY <1>0, <1>3, <2>1, <2>2 DEF HandlerOK, Request, InsertCanary
    <2> QED
        BY <1>3, <2>4, <2>5, <2>6 DEF InsertCanary, deviceVars, mirrorVars
<1>4. CASE PromoteStage(a)
    <2> DEFINE r == handler[a].r
               h2 == [handler[a] EXCEPT !.pc = "pending", !.target = rollout[r].target,
                                        !.todo = Devices \ rollout[r].canary]
    <2>1. r \in Ids
        BY <1>4 DEF PromoteStage, HandlerOK
    <2>2. \/ /\ rollout' = [rollout EXCEPT ![r] = [rollout[r] EXCEPT !.stage = "fleet"]]
             /\ handler' = [handler EXCEPT ![a] = h2]
             /\ UNCHANGED cmds
          \/ Fails(a)
        BY <1>4 DEF PromoteStage
    <2>3. h2 \in Request
        BY <1>0, <2>1, RequestSteps DEF Row
    <2>8. [rollout[r] EXCEPT !.stage = "fleet"] \in Row
        BY <2>1, RowSteps
    <2>4. rollout' \in [Ids -> Row]
        BY <2>1, <2>2, <2>8
    <2>5. handler' \in [Requests -> Request]
        BY <2>2, <2>3
    <2>6. h2.pc = "pending" /\ h2.r = r
        BY <1>0 DEF Request
    <2> HIDE DEF h2
    <2>7. HandlerOK'
        BY <2>1, <2>2, <2>6 DEF HandlerOK
    <2> QED
        BY <1>4, <2>2, <2>4, <2>5, <2>7 DEF PromoteStage, deviceVars, mirrorVars
<1>5. CASE ReadPending(a)
    <2> DEFINE h == handler[a]
               Is(status) == {d \in h.todo : classify(h.target, d, Pending(d)) = status}
               h2 == [h EXCEPT !.pc = "queue", !.todo = Is("OUTSTANDING")]
    <2>1. handler' = [handler EXCEPT ![a] = h2]
        BY <1>5 DEF ReadPending
    <2>2. Is("OUTSTANDING") \subseteq Capable
        BY OutstandingCapable
    <2>3. h2 \in Request
        BY <1>0, <2>2, RequestSteps
    <2>4. h2.pc = "queue" /\ h2.r = h.r /\ h2.todo = Is("OUTSTANDING")
        BY <1>0 DEF Request
    <2>5. h.r \in Ids
        BY <1>5 DEF ReadPending, HandlerOK
    <2>6. missed' \subseteq [r : 0..MaxRollouts, d : Devices]
        BY <1>0, <1>5 DEF ReadPending
    <2> HIDE DEF h2, Is
    <2>7. HandlerOK'
        BY <2>1, <2>2, <2>4, <2>5 DEF HandlerOK
    <2> QED
        BY <1>5, <2>1, <2>3, <2>6, <2>7 DEF ReadPending, deviceVars, mirrorVars
<1>6. CASE Enqueue(a)
    <2>1. handler[a].r \in Ids /\ handler[a].todo \subseteq Capable
        BY <1>6 DEF Enqueue, HandlerOK
    <2>3. \A d \in handler[a].todo :
              [r |-> handler[a].r, d |-> d, ran |-> FALSE] \in [r : Ids, d : Capable, ran : BOOLEAN]
        BY <2>1
    <2>2. cmds' \subseteq [r : Ids, d : Capable, ran : BOOLEAN]
        BY <1>6, <2>3 DEF Enqueue
    <2> QED
        BY <1>6, <2>2 DEF Enqueue, HandlerOK, deviceVars, mirrorVars
<1> QED
    BY <1>1, <1>2, <1>3, <1>4, <1>5, <1>6 DEF Handler

LEMMA TypedNext == Typed /\ [Next]_vars => Typed'
<1> SUFFICES ASSUME Typed, [Next]_vars PROVE Typed'
    OBVIOUS
<1>1. CASE UNCHANGED vars
    BY <1>1 DEF Typed, TypeOK, HandlerOK, vars, serverVars, deviceVars, mirrorVars
<1>2. CASE Next
    BY <1>2, TypedHandler, TypedSmall DEF Next
<1> QED
    BY <1>1, <1>2

\* Every reachable state is well typed, and a command is for a device that can install
\* silently, for any fleet and any number of rollouts, requests, releases and faults.
THEOREM TypeCorrect == Spec => []TypeOK
<1>1. Spec => []Typed
    BY TypedInit, TypedNext, PTL DEF Spec
<1> QED
    BY <1>1, PTL DEF Typed

-----------------------------------------------------------------------------
(* One active rollout: the index refuses what would make it two. *)

SameActive == \A p, q \in Active : p = q

LEMMA SameActiveNext == Typed /\ SameActive /\ [Next]_vars => SameActive'
<1> SUFFICES ASSUME Typed, SameActive, [Next]_vars PROVE SameActive'
    OBVIOUS
<1> USE DEF SameActive, Active
<1>1. CASE UNCHANGED rollout
    BY <1>1
<1>2. ASSUME NEW r \in Ids, Cancel(r) PROVE SameActive'
    BY <1>2 DEF Cancel, Typed, TypeOK, Row, ActiveStages
<1>3. ASSUME NEW a \in Requests, Insert(a), rollout' # rollout PROVE SameActive'
    <2>1. PICK r \in Ids : IndexAllows(r) /\ \A q \in Ids \ {r} : rollout'[q] = rollout[q]
        BY <1>3 DEF Insert, Fails, Typed, TypeOK
    <2> QED
        BY <2>1 DEF IndexAllows
<1>4. ASSUME NEW a \in Requests, PromoteStage(a), rollout' # rollout PROVE SameActive'
    <2>1. IndexAllows(handler[a].r) /\ \A q \in Ids \ {handler[a].r} : rollout'[q] = rollout[q]
        BY <1>4 DEF PromoteStage, Fails, Typed, TypeOK
    <2> QED
        BY <2>1 DEF IndexAllows
<1>5. ASSUME NEW a \in Requests, InsertCanary(a) PROVE SameActive'
    <2>1. PICK d : rollout' = [rollout EXCEPT ![handler[a].r] =
                         [rollout[handler[a].r] EXCEPT !.canary = rollout[handler[a].r].canary \cup {d}]]
        BY <1>5 DEF InsertCanary
    <2>2. \A r \in Ids : rollout'[r].stage = rollout[r].stage
        BY <2>1 DEF Typed, TypeOK, Row
    <2> QED
        BY <2>2
<1>6. UNCHANGED rollout \/ (\E r \in Ids : Cancel(r))
        \/ (\E a \in Requests : (Insert(a) /\ rollout' # rollout) \/ (PromoteStage(a) /\ rollout' # rollout)
                                \/ InsertCanary(a))
    BY DEF Next, Handler, Offer, Promote, Start, Send, InsertRefused, ReadPending, Enqueue, Fails, Install,
           Ack, Report, DeviceOnly, ServerRestart, Release, FetchStart, FetchEnd, FetchFails, MirrorOnly,
           vars, serverVars, HandlerOnly
<1> QED
    BY <1>1, <1>2, <1>3, <1>4, <1>5, <1>6

\* However the creations, promotions and cancellations of any number of administrators
\* overlap, one rollout is active.
THEOREM OneRollout == Spec => []OneActive
<1>1. Init => SameActive
    BY DEF Init, SameActive, Active, ActiveStages, NoRow
<1>2. SameActive => OneActive
    <2>1. CASE Active = {}
        BY <2>1, FS_EmptySet DEF OneActive
    <2>2. ASSUME SameActive, NEW p \in Active PROVE OneActive
        <3>1. Active = {p}
            BY <2>2 DEF SameActive
        <3>2. Cardinality({p}) = 1
            BY FS_Singleton
        <3> QED
            BY <3>1, <3>2 DEF OneActive
    <2> QED
        BY <2>1, <2>2
<1> QED
    BY <1>1, <1>2, TypedInit, TypedNext, SameActiveNext, PTL DEF Spec

-----------------------------------------------------------------------------
(* The mirror. *)

\* Whatever releases are verified while a download runs, the mirror stores the bytes of a
\* version under its own name only.
THEOREM MirrorStoresItsOwn == Spec => []MirrorGenuine
<1>1. Init => MirrorGenuine
    BY DEF Init, MirrorGenuine
<1>2. ASSUME Typed, MirrorGenuine, [Next]_vars PROVE MirrorGenuine'
    <2>1. CASE UNCHANGED file
        BY <1>2, <2>1 DEF MirrorGenuine
    <2>2. CASE FetchEnd
        BY <1>2, <2>2 DEF FetchEnd, MirrorGenuine, Typed, TypeOK
    <2> QED
        BY <1>2, <2>1, <2>2 DEF Next, Handler, Offer, Cancel, Promote, Start, Send, Insert, InsertRefused,
           InsertCanary, PromoteStage, ReadPending, Enqueue, Install, Ack, Report, DeviceOnly, ServerRestart,
           Release, FetchStart, FetchFails, vars, mirrorVars, HandlerOnly
<1> QED
    BY <1>1, <1>2, TypedInit, TypedNext, PTL DEF Spec

-----------------------------------------------------------------------------
(* The canary proves the release. *)

\* A canary device of r has reported its target, or a later release.
Backed(r) == rollout[r].stage # "none" /\ \E d \in rollout[r].canary : reported[d] >= rollout[r].target
\* An install of r may go to the devices of S.
Within(r, S) == rollout[r].stage # "none" /\ (S \subseteq rollout[r].canary \/ r \in offered)
\* A handler works on a row there is, and leaves the canary only for a rollout some panel offered.
Fits(h) ==
    /\ h.pc \in {"canary", "stage", "pending", "queue"} => h.r \in Ids /\ rollout[h.r].stage # "none"
    /\ h.pc = "stage" => h.r \in offered
    /\ h.pc \in {"pending", "queue"} => Within(h.r, h.todo)
Proven ==
    /\ \A d \in Devices : reported[d] <= version[d]
    /\ \A r \in offered : Backed(r)
    /\ \A c \in cmds : Within(c.r, {c.d})
    /\ \A a \in Requests : Fits(handler[a])

\* What no step undoes: a row stays, with its target; canary, versions and offers grow.
Grows ==
    /\ \A r \in Ids : rollout[r].stage # "none" =>
        /\ rollout'[r].stage # "none" /\ rollout'[r].target = rollout[r].target
        /\ rollout[r].canary \subseteq rollout'[r].canary
    /\ \A d \in Devices : reported[d] <= reported'[d]
    /\ offered \subseteq offered'

LEMMA AlwaysGrows == Typed /\ Proven /\ [Next]_vars => Grows
<1> SUFFICES ASSUME Typed, Proven, [Next]_vars PROVE Grows
    OBVIOUS
<1>1. \A d \in Devices : reported[d] \in 0..MaxVersion /\ version[d] \in 0..MaxVersion
    BY DEF Typed, TypeOK
<1>2. \A d \in Devices : reported[d] <= reported'[d]
    <2>1. CASE UNCHANGED reported
        BY <1>1, <2>1, RolloutAssumption
    <2>2. ASSUME NEW d \in Devices, Report(d) PROVE \A e \in Devices : reported[e] <= reported'[e]
        BY <1>1, <2>2, RolloutAssumption DEF Report, Proven, Typed, TypeOK
    <2> QED
        BY <2>1, <2>2 DEF Next, Handler, Offer, Cancel, Promote, Start, Send, Insert, InsertRefused,
           InsertCanary, PromoteStage, ReadPending, Enqueue, Install, Ack, DeviceOnly, ServerRestart,
           Release, FetchStart, FetchEnd, FetchFails, MirrorOnly, vars, deviceVars, HandlerOnly
<1>3. offered \subseteq offered'
    BY DEF Next, Handler, Offer, Cancel, Promote, Start, Send, Insert, InsertRefused,
           InsertCanary, PromoteStage, ReadPending, Enqueue, Install, Ack, Report, DeviceOnly, ServerRestart,
           Release, FetchStart, FetchEnd, FetchFails, MirrorOnly, vars, HandlerOnly
<1>4. ASSUME NEW r \in Ids, rollout[r].stage # "none"
      PROVE  /\ rollout'[r].stage # "none" /\ rollout'[r].target = rollout[r].target
             /\ rollout[r].canary \subseteq rollout'[r].canary
    <2> USE <1>4 DEF Typed, TypeOK
    <2> DEFINE Kept == /\ rollout'[r].stage # "none" /\ rollout'[r].target = rollout[r].target
                       /\ rollout[r].canary \subseteq rollout'[r].canary
    <2>0. rollout[r] \in Row
        OBVIOUS
    <2>1. CASE UNCHANGED rollout
        BY <2>1
    <2>2. ASSUME NEW q \in Ids, Cancel(q) PROVE Kept
        <3>1. rollout'[r] = rollout[r] \/ rollout'[r] = [rollout[r] EXCEPT !.stage = "cancelled"]
            BY <2>2 DEF Cancel
        <3> QED
            BY <2>0, <3>1 DEF Row
    <2>3. ASSUME NEW a \in Requests, Insert(a) PROVE Kept
        BY <2>3 DEF Insert, Fails, NoRow
    <2>4. ASSUME NEW a \in Requests, InsertCanary(a) PROVE Kept
        <3>1. PICK d : rollout' = [rollout EXCEPT ![handler[a].r] =
                         [rollout[handler[a].r] EXCEPT !.canary = rollout[handler[a].r].canary \cup {d}]]
            BY <2>4 DEF InsertCanary
        <3>2. rollout'[r] = rollout[r] \/ rollout'[r] = [rollout[r] EXCEPT !.canary = rollout[r].canary \cup {d}]
            BY <3>1
        <3> QED
            BY <2>0, <3>2 DEF Row
    <2>5. ASSUME NEW a \in Requests, PromoteStage(a) PROVE Kept
        <3>1. rollout'[r] = rollout[r] \/ rollout'[r] = [rollout[r] EXCEPT !.stage = "fleet"]
            BY <2>5 DEF PromoteStage, Fails
        <3> QED
            BY <2>0, <3>1 DEF Row
    <2>6. \/ UNCHANGED rollout
          \/ \E q \in Ids : Cancel(q)
          \/ \E a \in Requests : Insert(a) \/ InsertCanary(a) \/ PromoteStage(a)
        BY DEF Next, Handler, Offer, Promote, Start, Send, InsertRefused, ReadPending, Enqueue, Fails, Install,
           Ack, Report, DeviceOnly, ServerRestart, Release, FetchStart, FetchEnd, FetchFails, MirrorOnly,
           vars, serverVars, HandlerOnly
    <2> QED
        BY <2>1, <2>2, <2>3, <2>4, <2>5, <2>6
<1> QED
    BY <1>2, <1>3, <1>4 DEF Grows

\* What was true of a rollout, a command or a handler stays so.
LEMMA Persists ==
    ASSUME Typed, Typed', Grows
    PROVE  /\ \A r \in Ids : Backed(r) => Backed(r)'
           /\ \A r \in Ids, S \in SUBSET Devices : Within(r, S) => Within(r, S)'
           /\ \A h \in Request : Fits(h) => Fits(h)'
<1>1. ASSUME NEW r \in Ids, Backed(r) PROVE Backed(r)'
    <2>1. PICK d \in rollout[r].canary : reported[d] >= rollout[r].target
        BY <1>1 DEF Backed
    <2>2. rollout[r].target \in 0..MaxVersion /\ rollout[r].canary \subseteq Devices
        BY DEF Typed, TypeOK, Row
    <2>3. d \in Devices /\ d \in rollout'[r].canary /\ rollout'[r].target = rollout[r].target
          /\ rollout'[r].stage # "none"
        BY <1>1, <2>2 DEF Grows, Backed
    <2>4. reported[d] \in 0..MaxVersion /\ reported'[d] \in 0..MaxVersion /\ reported[d] <= reported'[d]
        BY <2>3 DEF Typed, TypeOK, Grows
    <2>5. reported'[d] >= rollout[r].target
        BY <2>1, <2>2, <2>4, RolloutAssumption
    <2> QED
        BY <2>3, <2>5 DEF Backed
<1>2. ASSUME NEW r \in Ids, NEW S \in SUBSET Devices, Within(r, S) PROVE Within(r, S)'
    BY <1>2 DEF Grows, Within
<1>3. ASSUME NEW h \in Request, Fits(h) PROVE Fits(h)'
    BY <1>2, <1>3 DEF Fits, Grows, Request
<1> QED
    BY <1>1, <1>2, <1>3

LEMMA ProvenNext == Typed /\ Proven /\ [Next]_vars => Proven'
<1> SUFFICES ASSUME Typed, Proven, [Next]_vars PROVE Proven'
    OBVIOUS
<1> USE RolloutAssumption
<1>1. Typed' /\ Grows
    BY TypedNext, AlwaysGrows
<1>2. /\ \A r \in Ids : Backed(r) => Backed(r)'
      /\ \A r \in Ids, S \in SUBSET Devices : Within(r, S) => Within(r, S)'
      /\ \A h \in Request : Fits(h) => Fits(h)'
    BY <1>1, Persists
<1>3. (\A d \in Devices : reported[d] <= version[d])'
    <2>1. \A d \in Devices : reported[d] \in 0..MaxVersion /\ version[d] \in 0..MaxVersion
          /\ reported[d] <= version[d]
        BY DEF Typed, TypeOK, Proven
    <2>2. CASE UNCHANGED deviceVars
        BY <2>1, <2>2 DEF deviceVars
    <2>3. ASSUME NEW d \in Devices, Report(d) PROVE <1>3
        BY <2>1, <2>3 DEF Report, Typed, TypeOK
    <2>4. ASSUME NEW c \in cmds, Install(c) PROVE <1>3
        <3>1. c.d \in Devices /\ rollout[c.r].target \in 0..MaxVersion
            BY <2>4 DEF Typed, TypeOK, Row
        <3> QED
            BY <2>1, <2>4, <3>1 DEF Install, Typed, TypeOK
    <2> QED
        BY <2>2, <2>3, <2>4 DEF Next, Handler, Offer, Cancel, Promote, Start, Send, Insert, InsertRefused,
           InsertCanary, PromoteStage, ReadPending, Enqueue, Ack, DeviceOnly, ServerRestart,
           Release, FetchStart, FetchEnd, FetchFails, MirrorOnly, vars, deviceVars, HandlerOnly
<1>4. (\A r \in offered : Backed(r))'
    <2>1. CASE offered' = offered
        BY <1>2, <2>1 DEF Proven, Typed, TypeOK
    <2>2. ASSUME NEW r \in Ids, Offer(r) PROVE <1>4
        <3> DEFINE updated == {d \in rollout[r].canary :
                                  classify(rollout[r].target, d, Pending(d)) = "UPDATED"}
        <3>1. Cardinality(updated) >= 1
            BY <2>2 DEF Offer, CanPromote, CanaryCount
        <3>2. updated # {}
            BY <3>1, FS_EmptySet
        <3>3. PICK d \in rollout[r].canary : reported[d] = rollout[r].target
            BY <3>2 DEF classify
        <3>4. rollout[r].target \in 0..MaxVersion
            BY DEF Typed, TypeOK, Row
        <3>5. Backed(r)
            BY <2>2, <3>3, <3>4 DEF Offer, Backed
        <3> QED
            BY <1>2, <2>2, <3>5 DEF Offer, Proven, Typed, TypeOK
    <2> QED
        BY <2>1, <2>2 DEF Next, Handler, Cancel, Promote, Start, Send, Insert, InsertRefused,
           InsertCanary, PromoteStage, ReadPending, Enqueue, Install, Ack, Report, DeviceOnly, ServerRestart,
           Release, FetchStart, FetchEnd, FetchFails, MirrorOnly, vars, HandlerOnly
<1>5. (\A c \in cmds : Within(c.r, {c.d}))'
    <2>1. ASSUME NEW c \in cmds PROVE Within(c.r, {c.d})'
        <3>1. c.r \in Ids /\ {c.d} \in SUBSET Devices /\ Within(c.r, {c.d})
            BY DEF Typed, TypeOK, Proven
        <3> QED
            BY <1>2, <3>1
    <2>2. CASE cmds' \subseteq cmds
        BY <2>1, <2>2
    <2>3. ASSUME NEW c \in cmds, Install(c) PROVE <1>5
        <3>1. [c EXCEPT !.ran = TRUE].r = c.r /\ [c EXCEPT !.ran = TRUE].d = c.d
            BY <2>3 DEF Typed, TypeOK
        <3> QED
            BY <2>1, <2>3, <3>1 DEF Install, Ran
    <2>4. ASSUME NEW a \in Requests, Enqueue(a) PROVE <1>5
        <3>0. PICK h \in Request : h = handler[a]
            BY DEF Typed, TypeOK
        <3>1. h.r \in Ids /\ Within(h.r, h.todo)
            BY <2>4, <3>0 DEF Proven, Fits, Enqueue, AtPc
        <3>2. h.todo \in SUBSET Devices
            BY <3>1 DEF Request
        <3>3. \A d \in h.todo : Within(h.r, {d})
            BY <3>1 DEF Within
        <3>4. \A d \in h.todo : Within(h.r, {d})'
            BY <1>2, <3>1, <3>2, <3>3
        <3>5. ASSUME NEW c \in cmds', c \notin cmds PROVE \E d \in h.todo : c.r = h.r /\ c.d = d
            BY <2>4, <3>0, <3>5 DEF Enqueue
        <3> QED
            BY <2>1, <3>4, <3>5
    <2> QED
        BY <2>2, <2>3, <2>4 DEF Next, Handler, Offer, Cancel, Promote, Start, Send, Insert, InsertRefused,
           InsertCanary, PromoteStage, ReadPending, Fails, Ack, Report, DeviceOnly, ServerRestart,
           Release, FetchStart, FetchEnd, FetchFails, MirrorOnly, vars, serverVars, HandlerOnly
<1>6. (\A a \in Requests : Fits(handler[a]))'
    <2>1. ASSUME NEW b \in Requests PROVE Fits(handler[b]) /\ handler[b] \in Request
        BY DEF Proven, Typed, TypeOK
    <2>2. ASSUME NEW b \in Requests, handler'[b] = handler[b] PROVE Fits(handler[b])'
        <3> DEFINE h == handler[b]
        <3>1. Fits(h) /\ h \in Request
            BY <2>1
        <3> HIDE DEF h
        <3>2. \A g \in Request : Fits(g) => Fits(g)'
            BY <1>2
        <3>3. PICK g \in Request : g = h
            BY <3>1
        <3>4. Fits(g)'
            BY <3>1, <3>2, <3>3
        <3>5. handler'[b] = g
            BY <2>2, <3>3 DEF h
        <3> QED
            BY <3>4, <3>5 DEF Fits, Within
    <2>3. ASSUME NEW b \in Requests, handler'[b] = Idle PROVE Fits(handler[b])'
        BY <2>3 DEF Fits, Idle
    <2>4. ASSUME NEW a \in Requests, NEW h \in Request, Fits(h)', handler' = [handler EXCEPT ![a] = h]
          PROVE  <1>6
        <3>1. ASSUME NEW b \in Requests, b # a PROVE Fits(handler[b])'
            BY <2>2, <2>4, <3>1
        <3>2. handler'[a] = h
            BY <2>4 DEF Typed, TypeOK
        <3>3. Fits(handler[a])'
            BY <2>4, <3>2 DEF Fits, Within
        <3> QED
            BY <3>1, <3>3
    <2>5. CASE handler' = handler \/ handler' = [a \in Requests |-> Idle]
        BY <2>2, <2>3, <2>5
    <2>6. ASSUME NEW a \in Requests, handler' = [handler EXCEPT ![a] = Idle] PROVE <1>6
        BY <2>2, <2>3, <2>6 DEF Typed, TypeOK
    <2>7. ASSUME NEW r \in Ids, NEW a \in Requests, Promote(a, r) PROVE <1>6
        <3> DEFINE h == [pc |-> "stage", r |-> r, target |-> 0, todo |-> {}]
        <3>1. h \in Request
            BY DEF Request, Ids
        <3>2. Fits(h)'
            BY <2>7 DEF Promote, Send, Fits
        <3> QED
            BY <2>4, <2>7, <3>1, <3>2 DEF Promote, Send
    <2>8. ASSUME NEW a \in Requests, NEW v \in Versions, NEW canary \in SUBSET Devices, Start(a, v, canary)
          PROVE <1>6
        <3> DEFINE h == [pc |-> "insert", r |-> 0, target |-> v, todo |-> canary]
        <3>1. h \in Request
            BY DEF Request, Versions
        <3>2. Fits(h)'
            BY DEF Fits
        <3> QED
            BY <2>4, <2>8, <3>1, <3>2 DEF Start, Send
    <2>9. ASSUME NEW a \in Requests, Insert(a) PROVE <1>6
        <3>1. PICK r \in Ids :
                  \/ /\ rollout' = [rollout EXCEPT ![r] = [stage |-> "canary", target |-> handler[a].target,
                                                           canary |-> {}]]
                     /\ handler' = [handler EXCEPT ![a] = [handler[a] EXCEPT !.pc = "canary", !.r = r]]
                  \/ handler' = [handler EXCEPT ![a] = Idle]
            BY <2>9 DEF Insert, Fails
        <3>5. r \in 0..MaxRollouts
            BY DEF Ids
        <3>6. [handler[a] EXCEPT !.pc = "canary", !.r = r] \in Request
            BY <2>1, <3>5, RequestSteps
        <3>2. PICK h \in Request : h = [handler[a] EXCEPT !.pc = "canary", !.r = r]
            BY <3>6
        <3>3. h.pc = "canary" /\ h.r = r
            BY <2>1, <3>2 DEF Request
        <3>4. CASE /\ rollout' = [rollout EXCEPT ![r] = [stage |-> "canary", target |-> handler[a].target,
                                                         canary |-> {}]]
                   /\ handler' = [handler EXCEPT ![a] = [handler[a] EXCEPT !.pc = "canary", !.r = r]]
            <4>1. rollout'[r].stage = "canary"
                BY <3>4 DEF Typed, TypeOK
            <4>2. Fits(h)'
                BY <3>3, <4>1 DEF Fits
            <4>3. handler' = [handler EXCEPT ![a] = h]
                BY <3>2, <3>4
            <4> QED
                BY <2>4, <4>2, <4>3
        <3> QED
            BY <2>6, <3>1, <3>4
    <2>10. ASSUME NEW a \in Requests, InsertCanary(a) PROVE <1>6
        <3>6. PICK r : r = handler[a].r
            OBVIOUS
        <3>7. [handler[a] EXCEPT !.pc = "pending"] \in Request
            BY <2>1, RequestSteps
        <3>8. PICK h \in Request : h = [handler[a] EXCEPT !.pc = "pending"]
            BY <3>7
        <3>1. PICK d \in handler[a].todo \ rollout[r].canary :
                  /\ rollout' = [rollout EXCEPT ![r] = [rollout[r] EXCEPT !.canary = rollout[r].canary \cup {d}]]
                  /\ handler' = IF handler[a].todo \ rollout[r].canary = {d}
                                THEN [handler EXCEPT ![a] = h] ELSE handler
            BY <2>10, <3>6, <3>8 DEF InsertCanary
        <3>2. r \in Ids /\ rollout[r].stage # "none" /\ rollout[r] \in Row
            BY <2>1, <2>10, <3>6 DEF InsertCanary, AtPc, Fits, Typed, TypeOK
        <3>3. h.pc = "pending" /\ h.r = r /\ h.todo = handler[a].todo
            BY <2>1, <3>6, <3>8 DEF Request
        <3>4. rollout'[r].canary = rollout[r].canary \cup {d} /\ rollout'[r].stage # "none"
            BY <3>1, <3>2 DEF Typed, TypeOK, Row
        <3>5. CASE handler[a].todo \ rollout[r].canary = {d}
            <4>1. h.todo \subseteq rollout'[r].canary
                BY <3>3, <3>4, <3>5
            <4>2. handler' = [handler EXCEPT ![a] = h]
                BY <3>1, <3>5
            <4>3. Fits(h)'
                BY <3>2, <3>3, <3>4, <4>1 DEF Fits, Within
            <4> QED
                BY <2>4, <4>2, <4>3
        <3> QED
            BY <2>5, <3>1, <3>5
    <2>11. ASSUME NEW a \in Requests, PromoteStage(a) PROVE <1>6
        <3>7. PICK r : r = handler[a].r
            OBVIOUS
        <3>2. r \in Ids /\ r \in offered /\ rollout[r].stage # "none" /\ rollout[r] \in Row
            BY <2>1, <2>11, <3>7 DEF PromoteStage, AtPc, Fits, Typed, TypeOK
        <3>3. rollout[r].target \in 0..MaxVersion
            BY <3>2 DEF Row
        <3>8. [handler[a] EXCEPT !.pc = "pending", !.target = rollout[r].target,
                                 !.todo = Devices \ rollout[r].canary] \in Request
            BY <2>1, <3>3, RequestSteps
        <3>4. PICK h \in Request :
                  h = [handler[a] EXCEPT !.pc = "pending", !.target = rollout[r].target,
                                         !.todo = Devices \ rollout[r].canary]
            BY <3>8
        <3>1. handler' = [handler EXCEPT ![a] = h] \/ handler' = [handler EXCEPT ![a] = Idle]
            BY <2>11, <3>4, <3>7 DEF PromoteStage, Fails
        <3>5. h.pc = "pending" /\ h.r = r
            BY <2>1, <3>4, <3>7 DEF Request
        <3>6. Fits(h)'
            BY <1>1, <3>2, <3>5 DEF Fits, Within, Grows
        <3> QED
            BY <2>4, <2>6, <3>1, <3>6
    <2>12. ASSUME NEW a \in Requests, ReadPending(a) PROVE <1>6
        <3> DEFINE S == {d \in handler[a].todo : classify(handler[a].target, d, Pending(d)) = "OUTSTANDING"}
                   h == [handler[a] EXCEPT !.pc = "queue", !.todo = S]
        <3>1. handler' = [handler EXCEPT ![a] = h]
            BY <2>12 DEF ReadPending
        <3>2. S \subseteq handler[a].todo /\ S \in SUBSET Devices
            BY <2>1 DEF Request
        <3> HIDE DEF S
        <3>3. h \in Request
            BY <2>1, <3>2, RequestSteps
        <3>4. h.pc = "queue" /\ h.r = handler[a].r /\ h.todo = S
            BY <2>1 DEF Request
        <3>5. handler[a].r \in Ids /\ rollout[handler[a].r].stage # "none" /\ Within(handler[a].r, handler[a].todo)
            BY <2>1, <2>12 DEF ReadPending, AtPc, Fits
        <3>6. Within(handler[a].r, S)
            BY <3>2, <3>5 DEF Within
        <3> HIDE DEF h
        <3>7. Fits(h)
            BY <3>4, <3>5, <3>6 DEF Fits
        <3> QED
            BY <1>2, <2>4, <3>1, <3>3, <3>7
    <2>13. CASE \E a \in Requests : Handler(a)
        BY <2>6, <2>9, <2>10, <2>11, <2>12, <2>13 DEF Handler, InsertRefused, Fails, Enqueue
    <2> QED
        BY <2>5, <2>7, <2>8, <2>13 DEF Next, Offer, Cancel, Install, Ack, Report, DeviceOnly, ServerRestart,
           Release, FetchStart, FetchEnd, FetchFails, MirrorOnly, vars, serverVars
<1> QED
    BY <1>3, <1>4, <1>5, <1>6 DEF Proven

\* Whatever old state the panels show and however their requests overlap, an install goes to
\* a device outside the canary only after a canary device has reported the release.
THEOREM CanaryFirst == Spec => []ProvenFirst
<1>1. Init => Proven
    BY RolloutAssumption DEF Init, Proven, Fits, Idle
<1>2. Typed /\ Proven => ProvenFirst
    <2> SUFFICES ASSUME Typed, Proven, NEW c \in cmds, c.d \notin rollout[c.r].canary
                 PROVE  \E d \in rollout[c.r].canary : reported[d] >= rollout[c.r].target
        BY DEF ProvenFirst
    <2>1. c.r \in offered
        BY DEF Proven, Within
    <2> QED
        BY <2>1 DEF Proven, Backed
<1> QED
    BY <1>1, <1>2, TypedInit, TypedNext, ProvenNext, PTL DEF Spec

-----------------------------------------------------------------------------
(* A promotion works off the whole fleet. *)

\* The device has the release, or an install of it in the table, or misses it for a reason.
Settled(r, d) ==
    \/ version[d] >= rollout[r].target
    \/ \E c \in cmds : c.r = r /\ c.d = d
    \/ [r |-> r, d |-> d] \in missed
\* A handler of r has still to deal with it.
Carried(r, d) ==
    \E a \in Requests : handler[a].r = r /\ handler[a].pc \in {"pending", "queue"} /\ d \in handler[a].todo
Worked ==
    /\ faults = 0 => \A r \in Ids : rollout[r].stage = "fleet" =>
        \A d \in Capable \ rollout[r].canary : Settled(r, d) \/ Carried(r, d)
    /\ \A c \in cmds : c.ran => version[c.d] >= rollout[c.r].target \/ [r |-> c.r, d |-> c.d] \in missed
    /\ \A a \in Requests : handler[a].pc \in {"canary", "pending", "queue"} =>
                               handler[a].target = rollout[handler[a].r].target

\* No device goes back to an older version, and what it missed is not forgotten.
LEMMA Onwards ==
    ASSUME Typed, [Next]_vars
    PROVE  (\A d \in Devices : version[d] <= version'[d]) /\ missed \subseteq missed'
<1> USE RolloutAssumption
<1>1. \A d \in Devices : version[d] \in 0..MaxVersion
    BY DEF Typed, TypeOK
<1>2. CASE UNCHANGED <<version, missed>>
    BY <1>1, <1>2
<1>3. ASSUME NEW c \in cmds, Install(c) PROVE \A d \in Devices : version[d] <= version'[d]
    <2>1. c.d \in Devices /\ rollout[c.r].target \in 0..MaxVersion
        BY <1>3 DEF Typed, TypeOK, Row
    <2> QED
        BY <1>1, <1>3, <2>1 DEF Install, Typed, TypeOK
<1>4. ASSUME NEW c \in cmds, Install(c) PROVE missed \subseteq missed'
    BY <1>4 DEF Install, Missed
<1>5. ASSUME NEW a \in Requests, ReadPending(a) PROVE UNCHANGED version /\ missed \subseteq missed'
    BY <1>5 DEF ReadPending, HandlerOnly, deviceVars
<1>6. ASSUME NEW a \in Requests, Handler(a), ~ReadPending(a) PROVE UNCHANGED <<version, missed>>
    BY <1>6 DEF Handler, Insert, InsertRefused, InsertCanary, PromoteStage, Enqueue, HandlerOnly, deviceVars
<1>7. \/ UNCHANGED <<version, missed>>
      \/ \E c \in cmds : Install(c)
      \/ \E a \in Requests : ReadPending(a)
    BY <1>6 DEF Next, Offer, Cancel, Promote, Start, Send, Ack, Report, DeviceOnly, ServerRestart,
       Release, FetchStart, FetchEnd, FetchFails, MirrorOnly, vars, deviceVars
<1>8. ASSUME NEW a \in Requests, ReadPending(a) PROVE \A d \in Devices : version[d] <= version'[d]
    BY <1>1, <1>5, <1>8
<1> QED
    BY <1>2, <1>3, <1>4, <1>5, <1>7, <1>8

\* The third part of Worked: a handler carries the target of its rollout.
LEMMA TargetNext ==
    ASSUME Typed, Proven, Worked, [Next]_vars
    PROVE  \A a \in Requests : handler'[a].pc \in {"canary", "pending", "queue"} =>
                                   handler'[a].target = rollout'[handler'[a].r].target
<1> SUFFICES ASSUME NEW b \in Requests, handler'[b].pc \in {"canary", "pending", "queue"}
             PROVE  handler'[b].target = rollout'[handler'[b].r].target
    OBVIOUS
<1>1. Grows
    BY AlwaysGrows
<1>2. handler[b] \in Request /\ Fits(handler[b])
    BY DEF Typed, TypeOK, Proven
<1>3. ASSUME handler'[b] = handler[b] PROVE handler'[b].target = rollout'[handler'[b].r].target
    BY <1>1, <1>2, <1>3 DEF Worked, Fits, Grows
<1>4. CASE handler'[b] = Idle
    BY <1>4 DEF Idle
<1>5. ASSUME NEW a \in Requests, Insert(a) PROVE handler'[b].target = rollout'[handler'[b].r].target
    <2>1. PICK r \in Ids :
              \/ /\ rollout' = [rollout EXCEPT ![r] = [stage |-> "canary", target |-> handler[a].target,
                                                       canary |-> {}]]
                 /\ handler' = [handler EXCEPT ![a] = [handler[a] EXCEPT !.pc = "canary", !.r = r]]
              \/ handler' = [handler EXCEPT ![a] = Idle]
        BY <1>5 DEF Insert, Fails
    <2>2. CASE handler' = [handler EXCEPT ![a] = Idle] \/ b # a
        BY <1>3, <1>4, <2>1, <2>2 DEF Typed, TypeOK
    <2>3. CASE /\ b = a
               /\ rollout' = [rollout EXCEPT ![r] = [stage |-> "canary", target |-> handler[a].target,
                                                     canary |-> {}]]
               /\ handler' = [handler EXCEPT ![a] = [handler[a] EXCEPT !.pc = "canary", !.r = r]]
        <3>1. handler'[b] = [handler[a] EXCEPT !.pc = "canary", !.r = r]
            BY <2>3 DEF Typed, TypeOK
        <3>2. handler'[b].target = handler[a].target /\ handler'[b].r = r
            BY <1>2, <2>3, <3>1 DEF Request
        <3>3. rollout'[r].target = handler[a].target
            BY <2>3 DEF Typed, TypeOK
        <3> QED
            BY <3>2, <3>3
    <2> QED
        BY <2>1, <2>2, <2>3
<1>6. ASSUME NEW a \in Requests, InsertCanary(a) PROVE handler'[b].target = rollout'[handler'[b].r].target
    <2>1. handler' = handler \/ handler' = [handler EXCEPT ![a] = [handler[a] EXCEPT !.pc = "pending"]]
        BY <1>6 DEF InsertCanary
    <2>2. CASE handler'[b] = [handler[b] EXCEPT !.pc = "pending"] /\ a = b
        <3>1. handler'[b].target = handler[b].target /\ handler'[b].r = handler[b].r
            BY <1>2, <2>2 DEF Request
        <3> QED
            BY <1>1, <1>2, <1>6, <2>2, <3>1 DEF InsertCanary, AtPc, Worked, Fits, Grows
    <2> QED
        BY <1>3, <2>1, <2>2 DEF Typed, TypeOK
<1>7. ASSUME NEW a \in Requests, PromoteStage(a) PROVE handler'[b].target = rollout'[handler'[b].r].target
    <2> DEFINE r == handler[a].r
               h == [handler[a] EXCEPT !.pc = "pending", !.target = rollout[r].target,
                                       !.todo = Devices \ rollout[r].canary]
    <2>1. handler' = [handler EXCEPT ![a] = h] \/ handler' = [handler EXCEPT ![a] = Idle]
        BY <1>7 DEF PromoteStage, Fails
    <2>2. CASE handler'[b] = h /\ a = b
        <3>1. h.target = rollout[r].target /\ h.r = r
            BY <1>2, <2>2 DEF Request
        <3>2. r \in Ids /\ rollout[r].stage # "none"
            BY <1>2, <1>7, <2>2 DEF PromoteStage, AtPc, Fits
        <3> HIDE DEF h
        <3> QED
            BY <1>1, <2>2, <3>1, <3>2 DEF Grows
    <2> HIDE DEF h
    <2> QED
        BY <1>3, <1>4, <2>1, <2>2 DEF Typed, TypeOK
<1>8. ASSUME NEW a \in Requests, ReadPending(a) PROVE handler'[b].target = rollout'[handler'[b].r].target
    <2>1. PICK S : handler' = [handler EXCEPT ![a] = [handler[a] EXCEPT !.pc = "queue", !.todo = S]]
        BY <1>8 DEF ReadPending
    <2>2. CASE handler'[b] = [handler[b] EXCEPT !.pc = "queue", !.todo = S] /\ a = b
        <3>1. handler'[b].target = handler[b].target /\ handler'[b].r = handler[b].r
            BY <1>2, <2>2 DEF Request
        <3> QED
            BY <1>1, <1>2, <1>8, <2>2, <3>1 DEF ReadPending, AtPc, Worked, Fits, Grows
    <2> QED
        BY <1>3, <2>1, <2>2 DEF Typed, TypeOK
<1>9. ASSUME NEW r \in Ids, NEW a \in Requests, Promote(a, r) PROVE handler'[b] = handler[b]
    BY <1>9 DEF Promote, Send, Typed, TypeOK
<1>10. ASSUME NEW a \in Requests, NEW v \in Versions, NEW canary \in SUBSET Devices, Start(a, v, canary)
       PROVE handler'[b] = handler[b]
    BY <1>10 DEF Start, Send, Typed, TypeOK
<1>11. ASSUME NEW a \in Requests, InsertRefused(a) \/ Enqueue(a) PROVE handler'[b] \in {handler[b], Idle}
    BY <1>11 DEF InsertRefused, Enqueue, Fails, Typed, TypeOK
<1> QED
    BY <1>3, <1>4, <1>5, <1>6, <1>7, <1>8, <1>9, <1>10, <1>11 DEF Next, Handler, Offer, Cancel, Install, Ack,
       Report, DeviceOnly, ServerRestart, Release, FetchStart, FetchEnd, FetchFails, MirrorOnly, vars, serverVars

\* The second part: a command that ran left its version, or was missed.
LEMMA RanNext ==
    ASSUME Typed, Proven, Worked, [Next]_vars
    PROVE  (\A c \in cmds : c.ran => version[c.d] >= rollout[c.r].target \/ [r |-> c.r, d |-> c.d] \in missed)'
<1> USE RolloutAssumption
<1>1. Typed' /\ Grows /\ (\A d \in Devices : version[d] <= version'[d]) /\ missed \subseteq missed'
    BY TypedNext, AlwaysGrows, Onwards
<1>2. \A d \in Devices : version[d] \in 0..MaxVersion /\ version'[d] \in 0..MaxVersion
    BY <1>1 DEF Typed, TypeOK
<1>3. \A r \in Ids : rollout[r].target \in 0..MaxVersion
    BY DEF Typed, TypeOK, Row
<1>4. \A c \in cmds : c.r \in Ids /\ c.d \in Devices /\ rollout'[c.r].target = rollout[c.r].target
    BY <1>1 DEF Typed, TypeOK, Proven, Within, Grows
<1>5. ASSUME NEW c \in cmds, c.ran
      PROVE  version'[c.d] >= rollout'[c.r].target \/ [r |-> c.r, d |-> c.d] \in missed'
    BY <1>1, <1>2, <1>3, <1>4, <1>5 DEF Worked
<1>6. ASSUME NEW c \in cmds, Install(c), NEW x \in cmds', x \notin cmds
      PROVE  version'[x.d] >= rollout'[x.r].target \/ [r |-> x.r, d |-> x.d] \in missed'
    <2>1. x = [c EXCEPT !.ran = TRUE]
        BY <1>6 DEF Install, Ran
    <2>2. x.r = c.r /\ x.d = c.d
        BY <2>1 DEF Typed, TypeOK
    <2>3. \/ version'[c.d] = rollout[c.r].target
          \/ [r |-> c.r, d |-> c.d] \in missed'
        BY <1>4, <1>6 DEF Install, Missed, Typed, TypeOK
    <2> QED
        BY <1>2, <1>3, <1>4, <2>2, <2>3
<1>7. ASSUME NEW a \in Requests, Enqueue(a), NEW x \in cmds', x \notin cmds PROVE ~x.ran
    BY <1>7 DEF Enqueue
<1>8. ASSUME NEW x \in cmds', x \notin cmds
      PROVE  (\E c \in cmds : Install(c)) \/ (\E a \in Requests : Enqueue(a))
    BY <1>8 DEF Next, Handler, Offer, Cancel, Promote, Start, Send, Insert, InsertRefused, Fails,
       InsertCanary, PromoteStage, ReadPending, Ack, Report, DeviceOnly, ServerRestart,
       Release, FetchStart, FetchEnd, FetchFails, MirrorOnly, vars, serverVars, HandlerOnly
<1> QED
    BY <1>5, <1>6, <1>7, <1>8

\* A device that is settled stays so.
LEMMA SettledStays ==
    ASSUME Typed, Proven, Worked, [Next]_vars, NEW r \in Ids, rollout[r].stage # "none", NEW d \in Devices,
           Settled(r, d)
    PROVE  Settled(r, d)'
<1> USE RolloutAssumption
<1>1. Typed' /\ Grows /\ version[d] <= version'[d] /\ missed \subseteq missed'
    BY TypedNext, AlwaysGrows, Onwards
<1>2. version[d] \in 0..MaxVersion /\ version'[d] \in 0..MaxVersion /\ rollout[r].target \in 0..MaxVersion
    BY <1>1 DEF Typed, TypeOK, Row
<1>3. rollout'[r].target = rollout[r].target
    BY <1>1 DEF Grows
<1>4. CASE version[d] >= rollout[r].target
    BY <1>1, <1>2, <1>3, <1>4 DEF Settled
<1>5. CASE [r |-> r, d |-> d] \in missed
    BY <1>1, <1>5 DEF Settled
<1>6. ASSUME NEW c \in cmds, c.r = r, c.d = d PROVE Settled(r, d)'
    <2>1. CASE c \in cmds'
        BY <1>6, <2>1 DEF Settled
    <2>2. ASSUME Install(c) PROVE Settled(r, d)'
        <3>1. [c EXCEPT !.ran = TRUE] \in cmds'
            BY <2>2 DEF Install, Ran
        <3>2. [c EXCEPT !.ran = TRUE].r = r /\ [c EXCEPT !.ran = TRUE].d = d
            BY <1>6 DEF Typed, TypeOK
        <3> QED
            BY <3>1, <3>2 DEF Settled
    <2>3. CASE Ack(c)
        <3>1. version[c.d] >= rollout[c.r].target \/ [r |-> c.r, d |-> c.d] \in missed
            BY <2>3 DEF Ack, Worked
        <3> QED
            BY <1>4, <1>5, <1>6, <3>1
    <2>4. c \in cmds' \/ Install(c) \/ Ack(c)
        <3>1. ASSUME NEW x \in cmds, Install(x) \/ Ack(x) PROVE c = x \/ c \in cmds'
            BY <3>1 DEF Install, Ack, Ran
        <3>2. ASSUME NEW a \in Requests, Handler(a) PROVE c \in cmds'
            BY <3>2 DEF Handler, Insert, InsertRefused, InsertCanary, PromoteStage, ReadPending, Enqueue, Fails
        <3> QED
            BY <3>1, <3>2 DEF Next, Offer, Cancel, Promote, Start, Send, Report, DeviceOnly, ServerRestart,
               Release, FetchStart, FetchEnd, FetchFails, MirrorOnly, vars, serverVars
    <2> QED
        BY <2>1, <2>2, <2>3, <2>4
<1> QED
    BY <1>4, <1>5, <1>6 DEF Settled

\* A device that a handler carries stays so, or is settled by it, unless the server restarts.
LEMMA CarriedOn ==
    ASSUME Typed, Proven, Worked, [Next]_vars, ~ServerRestart, NEW r \in Ids, NEW d \in Capable, Carried(r, d)
    PROVE  Settled(r, d) \/ Settled(r, d)' \/ Carried(r, d)'
<1> USE RolloutAssumption
<1>1. PICK b \in Requests : handler[b].r = r /\ handler[b].pc \in {"pending", "queue"} /\ d \in handler[b].todo
    BY DEF Carried
<1>2. CASE handler'[b] = handler[b]
    BY <1>1, <1>2 DEF Carried
<1>3. CASE ReadPending(b)
    <2> DEFINE h == handler[b]
               Is(status) == {e \in h.todo : classify(h.target, e, Pending(e)) = status}
    <2>1. h.target = rollout[r].target /\ h.target \in 0..MaxVersion /\ h \in Request
        BY <1>1 DEF Worked, Typed, TypeOK, Request
    <2>2. reported[d] \in 0..MaxVersion /\ version[d] \in 0..MaxVersion /\ reported[d] <= version[d]
        BY DEF Typed, TypeOK, Proven
    <2>3. CASE reported[d] = h.target
        BY <2>1, <2>2, <2>3 DEF Settled
    <2>4. CASE reported[d] # h.target /\ Pending(d)
        <3>1. d \in Is("PENDING")
            BY <1>1, <2>4 DEF classify
        <3>2. CASE \E c \in cmds : c.d = d /\ c.r = r
            BY <3>2 DEF Settled
        <3>3. CASE ~\E c \in cmds : c.d = d /\ c.r = r
            <4>1. d \in {e \in Is("PENDING") : ~\E c \in cmds : c.d = e /\ c.r = h.r}
                BY <1>1, <3>1, <3>3
            <4>2. [r |-> h.r, d |-> d] \in missed'
                BY <1>3, <4>1 DEF ReadPending
            <4> QED
                BY <1>1, <4>2 DEF Settled
        <3> QED
            BY <3>2, <3>3
    <2>5. CASE reported[d] # h.target /\ ~Pending(d)
        <3>1. d \in Is("OUTSTANDING")
            BY <1>1, <2>5 DEF classify
        <3> DEFINE S == Is("OUTSTANDING")
        <3>2. handler' = [handler EXCEPT ![b] = [h EXCEPT !.pc = "queue", !.todo = S]]
            BY <1>3 DEF ReadPending
        <3>3. d \in S
            BY <3>1
        <3> HIDE DEF Is, S
        <3>4. handler'[b] = [h EXCEPT !.pc = "queue", !.todo = S]
            BY <3>2 DEF Typed, TypeOK
        <3>5. handler'[b].pc = "queue" /\ handler'[b].r = r /\ d \in handler'[b].todo
            BY <1>1, <2>1, <3>3, <3>4 DEF Request
        <3> QED
            BY <3>5 DEF Carried
    <2> QED
        BY <2>3, <2>4, <2>5
<1>4. CASE Enqueue(b)
    <2>1. [r |-> r, d |-> d, ran |-> FALSE] \in cmds'
        BY <1>1, <1>4 DEF Enqueue
    <2> QED
        BY <2>1 DEF Settled
<1>5. handler'[b] = handler[b] \/ ReadPending(b) \/ Enqueue(b)
    <2>1. ASSUME NEW a \in Requests, Handler(a) PROVE <1>5
        <3>1. CASE a = b
            BY <1>1, <2>1, <3>1 DEF Handler, Insert, InsertRefused, InsertCanary, PromoteStage, AtPc
        <3>2. CASE a # b
            BY <2>1, <3>2 DEF Handler, Insert, InsertRefused, InsertCanary, PromoteStage, ReadPending, Enqueue,
               Fails, Typed, TypeOK
        <3> QED
            BY <3>1, <3>2
    <2>2. ASSUME NEW a \in Requests, handler[a] = Idle, NEW x, handler' = [handler EXCEPT ![a] = x]
          PROVE <1>5
        BY <1>1, <2>2 DEF Idle, Typed, TypeOK
    <2>3. (\E a \in Requests : Handler(a)) \/ handler' = handler
             \/ (\E a \in Requests : handler[a] = Idle /\ \E x : handler' = [handler EXCEPT ![a] = x])
        BY DEF Next, Offer, Cancel, Promote, Start, Send, Install, Ack, Report, DeviceOnly,
           Release, FetchStart, FetchEnd, FetchFails, MirrorOnly, vars, serverVars
    <2> QED
        BY <2>1, <2>2, <2>3
<1> QED
    BY <1>2, <1>3, <1>4, <1>5

LEMMA WorkedNext == Typed /\ Proven /\ Worked /\ [Next]_vars => Worked'
<1> SUFFICES ASSUME Typed, Proven, Worked, [Next]_vars PROVE Worked'
    OBVIOUS
<1>1. (\A c \in cmds : c.ran => version[c.d] >= rollout[c.r].target \/ [r |-> c.r, d |-> c.d] \in missed)'
    BY RanNext
<1>2. \A a \in Requests : handler'[a].pc \in {"canary", "pending", "queue"} =>
                              handler'[a].target = rollout'[handler'[a].r].target
    BY TargetNext
<1>3. ASSUME faults' = 0, NEW r \in Ids, rollout'[r].stage = "fleet", NEW d \in Capable \ rollout'[r].canary
      PROVE  Settled(r, d)' \/ Carried(r, d)'
    <2>1. faults = 0 /\ ~ServerRestart
        <3>1. faults \in Nat
            BY RolloutAssumption DEF Typed, TypeOK
        <3>2. faults' = faults \/ faults' = faults + 1
            BY DEF Next, Handler, Offer, Cancel, Promote, Start, Send, Insert, InsertRefused,
               InsertCanary, PromoteStage, ReadPending, Enqueue, Install, Ack, Report, DeviceOnly, ServerRestart,
               Release, FetchStart, FetchEnd, FetchFails, MirrorOnly, Fault, vars, HandlerOnly
        <3>3. ServerRestart => faults' = faults + 1
            BY DEF ServerRestart, Fault
        <3> QED
            BY <1>3, <3>1, <3>2, <3>3
    <2>2. d \in Devices /\ Grows
        BY RolloutAssumption, AlwaysGrows
    <2>3. CASE rollout[r].stage = "fleet"
        <3>1. d \in Capable \ rollout[r].canary
            BY <1>3, <2>2, <2>3 DEF Grows
        <3>2. Settled(r, d) \/ Carried(r, d)
            BY <2>1, <2>3, <3>1 DEF Worked
        <3> QED
            BY <2>1, <2>2, <2>3, <3>1, <3>2, SettledStays, CarriedOn
    <2>4. ASSUME NEW a \in Requests, PromoteStage(a), rollout[r].stage # "fleet"
          PROVE Carried(r, d)'
        <3> DEFINE h == [handler[a] EXCEPT !.pc = "pending", !.target = rollout[handler[a].r].target,
                                           !.todo = Devices \ rollout[handler[a].r].canary]
        <3>1. r = handler[a].r /\ handler' = [handler EXCEPT ![a] = h]
            BY <1>3, <2>4 DEF PromoteStage, Fails, Typed, TypeOK
        <3>2. handler[a] \in Request /\ handler'[a] = h
            BY <3>1 DEF Typed, TypeOK
        <3>3. h.r = r /\ h.pc = "pending" /\ h.todo = Devices \ rollout[r].canary
            BY <3>1, <3>2 DEF Request
        <3>4. rollout'[r].canary = rollout[r].canary
            BY <2>4, <3>1 DEF PromoteStage, Fails, Typed, TypeOK, Row
        <3> HIDE DEF h
        <3> QED
            BY <1>3, <2>2, <3>2, <3>3, <3>4 DEF Carried
    <2>5. rollout[r].stage = "fleet" \/ \E a \in Requests : PromoteStage(a)
        <3>1. ASSUME NEW q \in Ids, Cancel(q) PROVE rollout[r].stage = "fleet"
            <4>1. rollout'[r] = rollout[r] \/ rollout'[r] = [rollout[r] EXCEPT !.stage = "cancelled"]
                BY <3>1 DEF Cancel, Typed, TypeOK
            <4> QED
                BY <1>3, <4>1 DEF Typed, TypeOK, Row
        <3>2. ASSUME NEW a \in Requests, Insert(a) PROVE rollout[r].stage = "fleet"
            BY <1>3, <3>2 DEF Insert, Fails, Typed, TypeOK
        <3>3. ASSUME NEW a \in Requests, InsertCanary(a) PROVE rollout[r].stage = "fleet"
            <4>1. PICK e : rollout' = [rollout EXCEPT ![handler[a].r] =
                         [rollout[handler[a].r] EXCEPT !.canary = rollout[handler[a].r].canary \cup {e}]]
                BY <3>3 DEF InsertCanary
            <4>2. rollout'[r].stage = rollout[r].stage
                BY <4>1 DEF Typed, TypeOK, Row
            <4> QED
                BY <1>3, <4>2
        <3>4. \/ UNCHANGED rollout
              \/ \E q \in Ids : Cancel(q)
              \/ \E a \in Requests : Insert(a) \/ InsertCanary(a) \/ PromoteStage(a)
            BY DEF Next, Handler, Offer, Promote, Start, Send, InsertRefused, ReadPending, Enqueue, Fails, Install,
               Ack, Report, DeviceOnly, ServerRestart, Release, FetchStart, FetchEnd, FetchFails, MirrorOnly,
               vars, serverVars, HandlerOnly
        <3> QED
            BY <1>3, <3>1, <3>2, <3>3, <3>4
    <2> QED
        BY <2>3, <2>4, <2>5
<1> QED
    BY <1>1, <1>2, <1>3 DEF Worked

\* Without a restart of the server a promotion, once its request has been worked off, has
\* left no device of the fleet without the release, an install or a reason.
THEOREM WholeFleet == Spec => []NobodyForgotten
<1>1. Init => Proven
    BY RolloutAssumption DEF Init, Proven, Fits, Idle
<1>2. Init => Worked
    BY DEF Init, Worked, NoRow, Idle
<1>3. Worked => NobodyForgotten
    <2> SUFFICES ASSUME Worked, NEW r \in Ids, rollout[r].stage = "fleet", faults = 0,
                        \A a \in Requests : handler[a].r # r, NEW d \in Capable \ rollout[r].canary
                 PROVE  Settled(r, d)
        BY DEF NobodyForgotten, Settled
    <2> QED
        BY DEF Worked, Carried
<1> QED
    BY <1>1, <1>2, <1>3, TypedInit, TypedNext, ProvenNext, WorkedNext, PTL DEF Spec
=============================================================================
