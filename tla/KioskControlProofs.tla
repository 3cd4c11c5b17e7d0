------------------------ MODULE KioskControlProofs ------------------------
(* Theorems about KioskControl, for any number of documents.                     *)
EXTENDS KioskControl, TLAPS

\* A thread without work has a job too.
LEMMA IdleIsJob == Idle \in Jobs
<1>1. 0 \in 0..MaxDoc
    BY KioskAssumption
<1> QED
    BY <1>1 DEF Jobs, Idle, Stages, Ops, Config

\* A job after one of its fields changed is still a job.
LEMMA JobSteps ==
    ASSUME NEW j \in Jobs, NEW stage \in Stages, NEW doc \in 0..MaxDoc, NEW ok \in BOOLEAN
    PROVE  /\ [j EXCEPT !.at = stage] \in Jobs
           /\ [j EXCEPT !.at = stage, !.ok = ok] \in Jobs
           /\ [j EXCEPT !.at = stage, !.doc = doc] \in Jobs
BY DEF Jobs, Stages

\* What a thread's move makes of the jobs is well typed.
LEMMA MoveTyped ==
    ASSUME TypeOK, NEW t \in Actors, NEW stage \in Stages, NEW ok \in BOOLEAN
    PROVE  /\ Goto(t, stage) => job' \in [Actors -> Jobs]
           /\ Return(t, ok) => job' \in [Actors -> Jobs]
<1> USE DEF TypeOK
<1>1. job[t] \in Jobs
    OBVIOUS
<1>2. job[t].ok \in BOOLEAN /\ (ok /\ job[t].ok) \in BOOLEAN
    BY <1>1 DEF Jobs
<1>3. ASSUME Goto(t, stage) PROVE job' \in [Actors -> Jobs]
    <2>1. [job[t] EXCEPT !.at = stage] \in Jobs
        BY <1>1, JobSteps
    <2>2. job' = [job EXCEPT ![t] = [job[t] EXCEPT !.at = stage]]
        BY <1>3 DEF Goto
    <2> QED
        BY <2>1, <2>2
<1>4. ASSUME Return(t, ok) PROVE job' \in [Actors -> Jobs]
    <2>1. /\ Idle \in Jobs
          /\ [job[t] EXCEPT !.at = "location", !.ok = ok /\ job[t].ok] \in Jobs
        BY <1>1, <1>2, IdleIsJob, JobSteps DEF Stages
    <2> QED
        BY <1>4, <2>1 DEF Return
<1> QED
    BY <1>3, <1>4

LEMMA InitTyped == Init => TypeOK
<1>1. 0 \in 0..MaxDoc /\ 0 \in Payloads
    BY KioskAssumption DEF Payloads, AdHoc
<1> SUFFICES ASSUME Init PROVE TypeOK
    OBVIOUS
<1>2. job \in [Actors -> Jobs]
    BY IdleIsJob DEF Init
<1>3. claim \in BOOLEAN /\ boot \in BOOLEAN /\ deaths \in Nat
    BY DEF Init
<1> QED
    BY <1>1, <1>2, <1>3 DEF Init, TypeOK

\* The payload a thread enters kiosk with is one.
LEMMA PayloadTyped ==
    ASSUME TypeOK, NEW t \in Actors
    PROVE  Payload(t) \in Payloads
<1>1. job[t] \in Jobs
    BY DEF TypeOK
<1>2. job[t].doc \in 0..MaxDoc
    BY <1>1 DEF Jobs
<1> QED
    BY <1>2, KioskAssumption DEF Payload, Payloads, AdHoc

\* Every step keeps the types.
LEMMA TypePreserved == TypeOK /\ [Next]_vars => TypeOK'
<1> SUFFICES ASSUME TypeOK, [Next]_vars
             PROVE  TypeOK'
    OBVIOUS
<1> USE KioskAssumption DEF TypeOK
<1>1. ASSUME NEW t \in Actors, NEW op \in Ops, NEW stage \in Stages, NEW doc \in 0..MaxDoc,
             Start(t, op, stage, doc)
      PROVE  /\ job' \in [Actors -> Jobs]
             /\ UNCHANGED <<cstore, disk, kstore, lock, claim, setting, place, mutex, boot, deaths>>
    BY <1>1 DEF Start, Jobs
<1>0. /\ {"apply", "reapply", "enter", "exit", "leave", "bail"} \subseteq Ops
      /\ {"lock", "claim", "unpin"} \subseteq Stages
      /\ 0 \in 0..MaxDoc /\ Docs \subseteq 0..MaxDoc
    BY DEF Ops, Config, Stages, Docs
<1>2. ASSUME Command PROVE TypeOK'
    <2>1. ASSUME NEW d \in Docs, ConfigCommand(d) PROVE TypeOK'
        <3>1. Start("cycle", "apply", "lock", d) /\ "cycle" \in Actors
            BY <2>1 DEF ConfigCommand
        <3>2. /\ job' \in [Actors -> Jobs]
              /\ UNCHANGED <<cstore, disk, kstore, lock, claim, setting, place, mutex, boot, deaths>>
            BY <1>0, <1>1, <3>1
        <3> QED
            BY <1>0, <2>1, <3>2 DEF ConfigCommand
    <2>2. ASSUME EnterCommand \/ ExitCommand PROVE TypeOK'
        <3>1. /\ "cycle" \in Actors
              /\ \/ Start("cycle", "enter", "claim", 0)
                 \/ Start("cycle", "exit", "unpin", 0)
            BY <2>2 DEF EnterCommand, ExitCommand
        <3>2. /\ job' \in [Actors -> Jobs]
              /\ UNCHANGED <<cstore, disk, kstore, lock, claim, setting, place, mutex, boot, deaths>>
            BY <1>0, <1>1, <3>1
        <3> QED
            BY <2>2, <3>2 DEF EnterCommand, ExitCommand
    <2> QED
        BY <1>2, <2>1, <2>2 DEF Command
<1>3. ASSUME Reapply PROVE TypeOK'
    <2>1. Start("boot", "reapply", "lock", 0) /\ "boot" \in Actors
        BY <1>3 DEF Reapply
    <2>2. /\ job' \in [Actors -> Jobs]
          /\ UNCHANGED <<cstore, disk, kstore, lock, claim, setting, place, mutex, boot, deaths>>
        BY <1>0, <1>1, <2>1
    <2> QED
        BY <1>3, <2>2 DEF Reapply
<1>4. ASSUME NEW op \in {"leave", "bail"}, Launcher(op) PROVE TypeOK'
    <2>1. Start("launcher", op, "unpin", 0) /\ "launcher" \in Actors /\ op \in Ops
        BY <1>0, <1>4 DEF Launcher
    <2>2. /\ job' \in [Actors -> Jobs]
          /\ UNCHANGED <<cstore, disk, kstore, lock, claim, setting, place, mutex, boot, deaths>>
        BY <1>0, <1>1, <2>1
    <2> QED
        BY <1>4, <2>2 DEF Launcher
<1>5. ASSUME NEW t \in Actors, Step(t) PROVE TypeOK'
    <2> USE <1>5
    <2>1. job[t] \in Jobs /\ job[t].doc \in 0..MaxDoc /\ job[t].ok \in BOOLEAN
        BY DEF Jobs
    <2>2. CASE Lock(t)
        <3> DEFINE doc == IF job[t].op = "reapply" THEN cstore ELSE job[t].doc
        <3>1. doc \in 0..MaxDoc
            BY <2>1
        <3> HIDE DEF doc
        <3>2. [job[t] EXCEPT !.at = "policies", !.doc = doc] \in Jobs /\ Idle \in Jobs
            BY <2>1, <3>1, IdleIsJob, JobSteps DEF Stages
        <3>3. job' \in [Actors -> Jobs] /\ mutex' \subseteq Actors /\ boot' \in BOOLEAN
            BY <2>2, <3>2 DEF Lock, Acquire, doc
        <3> QED
            BY <2>2, <3>3 DEF Lock, Acquire
    <2>3. ASSUME NEW ok \in BOOLEAN, Policies(t, ok) PROVE TypeOK'
        <3>1. [job[t] EXCEPT !.at = "kiosk", !.ok = ok] \in Jobs
            BY <2>1, JobSteps DEF Stages
        <3> QED
            BY <2>1, <2>3, <3>1 DEF Policies
    <2>4. ASSUME NEW ok \in BOOLEAN, Location(t, ok) PROVE TypeOK'
        <3>1. (ok /\ job[t].ok) \in BOOLEAN
            BY <2>1
        <3>2. [job[t] EXCEPT !.at = "persist", !.ok = ok /\ job[t].ok] \in Jobs
            BY <2>1, <3>1, JobSteps DEF Stages
        <3> QED
            BY <2>1, <2>4, <3>2 DEF Location
    <2>5. CASE Kiosk(t)
        <3> DEFINE stage == IF job[t].doc \in WithKiosk THEN "claim"
                            ELSE IF Lifts THEN "unpin" ELSE "location"
        <3>1. stage \in Stages
            BY DEF Stages
        <3> HIDE DEF stage
        <3>2. Goto(t, stage)
            BY <2>5 DEF Kiosk, stage
        <3> QED
            BY <2>5, <3>1, <3>2, MoveTyped DEF Kiosk
    <2>6. CASE Persist(t)
        BY <2>1, <2>6, IdleIsJob DEF Persist, Succeeded
    <2>7. CASE Claim(t)
        BY <2>7, MoveTyped DEF Claim, Stages
    <2>8. CASE Pin(t)
        BY <2>8, MoveTyped, PayloadTyped DEF Pin, Stages
    <2>9. CASE PinFails(t)
        <3>1. [job[t] EXCEPT !.at = "disclaim", !.ok = FALSE] \in Jobs
            BY <2>1, JobSteps DEF Stages
        <3> QED
            BY <2>9, <3>1, PayloadTyped DEF PinFails
    <2>10. CASE Keep(t)
        BY <2>10, MoveTyped, PayloadTyped DEF Keep, Stages
    <2>11. CASE Unpin(t)
        BY <2>11, MoveTyped DEF Unpin, Stages, Payloads, AdHoc
    <2>12. CASE UnpinFails(t)
        <3>1. Goto(t, "disclaim") \/ Goto(t, "clear") \/ Return(t, FALSE)
            BY <2>12 DEF UnpinFails
        <3>2. job' \in [Actors -> Jobs]
            BY <3>1, MoveTyped DEF Stages
        <3>3. lock' \in Payloads
            BY <2>12 DEF UnpinFails, Payloads, AdHoc
        <3> QED
            BY <2>12, <3>2, <3>3 DEF UnpinFails
    <2>13. CASE Clear(t)
        <3>2. Return(t, TRUE) \/ Goto(t, "disclaim")
            BY <2>13 DEF Clear
        <3>3. job' \in [Actors -> Jobs]
            BY <3>2, MoveTyped DEF Stages
        <3>4. kstore' \in Payloads
            BY <2>13 DEF Clear, Payloads, AdHoc
        <3> QED
            BY <2>13, <3>3, <3>4 DEF Clear
    <2>14. CASE Disclaim(t)
        BY <2>1, <2>14, MoveTyped DEF Disclaim, Stages
    <2> QED
        BY <1>5, <2>2, <2>3, <2>4, <2>5, <2>6, <2>7, <2>8, <2>9, <2>10, <2>11, <2>12,
           <2>13, <2>14 DEF Step
<1>6. CASE Flush
    BY <1>6 DEF Flush
<1>7. ASSUME NEW rebooted \in BOOLEAN, Death(rebooted) PROVE TypeOK'
    BY <1>7, IdleIsJob DEF Death
<1>8. CASE UNCHANGED vars
    BY <1>8 DEF vars
<1> QED
    BY <1>2, <1>3, <1>4, <1>5, <1>6, <1>7, <1>8 DEF Next

\* Every reachable state is well typed (KioskControl's TypeOK).
THEOREM TypeCorrect == Spec => []TypeOK
BY InitTyped, TypePreserved, PTL DEF Spec
---------------------------------------------------------------------------
(* Who claims HOME, in every interleaving, with any number of deaths.              *)

\* A thread on its way to kiosk has a payload.
Armed ==
    \A t \in Actors : job[t].at \in {"policies", "kiosk", "claim", "pin", "keep"} => Payload(t) # 0

ClaimInv == TypeOK /\ Armed

\* What a thread's move is to show: it makes a stray claim only at the launcher.
Settles(t) == Armed' /\ (Stray' => Stray \/ Local(t))

\* A move of a thread that owes the claim nothing makes no stray claim.
LEMMA StrayKept ==
    ASSUME TypeOK, NEW t \in Actors, NEW j, ~Resolving(t),
           job' = [job EXCEPT ![t] = j], claim' = claim, kstore' = kstore
    PROVE  Stray' => Stray
<1>1. ASSUME NEW u \in Actors, Resolving(u) PROVE Resolving(u)'
    BY <1>1 DEF Resolving, TypeOK
<1> QED
    BY <1>1 DEF Stray

\* Nor does a thread that still owes it something.
LEMMA NotStray ==
    ASSUME TypeOK, NEW t \in Actors, NEW j, job' = [job EXCEPT ![t] = j],
           j.at \in {"pin", "keep", "disclaim"}
    PROVE  ~Stray'
<1>1. Resolving(t)'
    BY DEF Resolving, TypeOK
<1> QED
    BY <1>1 DEF Stray

\* Armed depends on the thread that moves only.
LEMMA ArmedKept ==
    ASSUME TypeOK, Armed, NEW t \in Actors, NEW j,
           job' = [job EXCEPT ![t] = j],
           j.at \in {"policies", "kiosk", "claim", "pin", "keep"} =>
              IF j.op = "enter" THEN TRUE ELSE j.doc # 0
    PROVE  Armed'
<1>1. AdHoc # 0
    BY KioskAssumption DEF AdHoc
<1>2. \A u \in Actors : job'[u] = IF u = t THEN j ELSE job[u]
    BY DEF TypeOK
<1> QED
    BY <1>1, <1>2 DEF Armed, Payload

\* One step of a thread.
LEMMA ClaimStep ==
    ASSUME ClaimInv, NEW t \in Actors, Step(t)
    PROVE  Settles(t)
<1> USE DEF ClaimInv, Settles
<1>0. /\ job[t] \in Jobs
      /\ job[t].at \in {"policies", "kiosk", "claim", "pin", "keep"} =>
             IF job[t].op = "enter" THEN TRUE ELSE job[t].doc # 0
    BY DEF TypeOK, Armed, Payload
<1>1. Idle.at = "idle"
    BY DEF Idle
<1>2. CASE Lock(t)
    <2> DEFINE doc == IF job[t].op = "reapply" THEN cstore ELSE job[t].doc
    <2>1. PICK j : /\ job' = [job EXCEPT ![t] = j]
                   /\ \/ j = Idle
                      \/ j = [job[t] EXCEPT !.at = "policies", !.doc = doc] /\ doc # 0
        BY <1>2 DEF Lock, Acquire
    <2> HIDE DEF doc
    <2>2. j.at \in {"policies", "kiosk", "claim", "pin", "keep"} => j.doc # 0
        BY <1>0, <1>1, <2>1 DEF Jobs
    <2>3. ~Resolving(t) /\ claim' = claim /\ kstore' = kstore
        BY <1>2 DEF Lock, Acquire, At, Resolving
    <2> QED
        BY <2>1, <2>2, <2>3, ArmedKept, StrayKept
<1>3. ASSUME NEW ok \in BOOLEAN, Policies(t, ok) \/ Location(t, ok)
      PROVE  Settles(t)
    <2>1. PICK j : /\ job' = [job EXCEPT ![t] = j]
                   /\ \/ j = [job[t] EXCEPT !.at = "kiosk", !.ok = ok] /\ At(t, "policies")
                      \/ j = [job[t] EXCEPT !.at = "persist", !.ok = ok /\ job[t].ok]
        BY <1>3 DEF Policies, Location
    <2>2. j.at \in {"policies", "kiosk", "claim", "pin", "keep"} =>
             IF j.op = "enter" THEN TRUE ELSE j.doc # 0
        BY <1>0, <2>1 DEF Jobs, At
    <2>3. ~Resolving(t) /\ claim' = claim /\ kstore' = kstore
        BY <1>3 DEF Policies, Location, At, Resolving
    <2> QED
        BY <2>1, <2>2, <2>3, ArmedKept, StrayKept
<1>4. CASE Kiosk(t)
    <2>1. PICK stage \in {"claim", "unpin", "location"} :
             job' = [job EXCEPT ![t] = [job[t] EXCEPT !.at = stage]]
        <3> DEFINE stage == IF job[t].doc \in WithKiosk THEN "claim"
                            ELSE IF Lifts THEN "unpin" ELSE "location"
        <3>1. stage \in {"claim", "unpin", "location"}
            OBVIOUS
        <3>2. job' = [job EXCEPT ![t] = [job[t] EXCEPT !.at = stage]]
            BY <1>4 DEF Kiosk, Goto
        <3> QED
            BY <3>1, <3>2
    <2> DEFINE j == [job[t] EXCEPT !.at = stage]
    <2>2. IF j.op = "enter" THEN TRUE ELSE j.doc # 0
        BY <1>0, <1>4 DEF Jobs, Kiosk, At
    <2>3. ~Resolving(t) /\ claim' = claim /\ kstore' = kstore
        BY <1>4 DEF Kiosk, At, Resolving
    <2> HIDE DEF j
    <2>4. job' = [job EXCEPT ![t] = j]
        BY <2>1 DEF j
    <2> QED
        BY <2>2, <2>3, <2>4, ArmedKept, StrayKept
<1>5. CASE Persist(t)
    <2>1. job' = [job EXCEPT ![t] = Idle] /\ claim' = claim /\ kstore' = kstore /\ ~Resolving(t)
        BY <1>5 DEF Persist, At, Resolving
    <2> QED
        BY <1>1, <2>1, ArmedKept, StrayKept
<1>6. CASE Claim(t) \/ Pin(t)
    <2>1. PICK stage \in {"pin", "keep"} :
             job' = [job EXCEPT ![t] = [job[t] EXCEPT !.at = stage]]
        BY <1>6 DEF Claim, Pin, Goto
    <2> DEFINE j == [job[t] EXCEPT !.at = stage]
    <2>2. /\ j.at \in {"pin", "keep"}
          /\ IF j.op = "enter" THEN TRUE ELSE j.doc # 0
        BY <1>0, <1>6 DEF Jobs, Claim, Pin, At
    <2>3. job' = [job EXCEPT ![t] = j]
        BY <2>1
    <2> HIDE DEF j
    <2> QED
        BY <2>2, <2>3, ArmedKept, NotStray
<1>7. CASE PinFails(t)
    <2> DEFINE j == [job[t] EXCEPT !.at = "disclaim", !.ok = FALSE]
    <2>1. job' = [job EXCEPT ![t] = j]
        BY <1>7 DEF PinFails
    <2>2. j.at = "disclaim"
        BY <1>0 DEF Jobs
    <2> HIDE DEF j
    <2> QED
        BY <2>1, <2>2, ArmedKept, NotStray
<1>8. ASSUME NEW ok \in BOOLEAN, Return(t, ok) PROVE Armed'
    <2>1. PICK j : /\ job' = [job EXCEPT ![t] = j]
                   /\ j = Idle \/ j = [job[t] EXCEPT !.at = "location", !.ok = ok /\ job[t].ok]
        BY <1>8 DEF Return
    <2>2. j.at \in {"idle", "location"}
        BY <1>0, <1>1, <2>1 DEF Jobs
    <2> QED
        BY <2>1, <2>2, ArmedKept
<1>9. CASE Keep(t)
    <2>1. Payload(t) # 0
        BY <1>9 DEF Keep, At, Armed
    <2> QED
        BY <1>8, <1>9, <2>1 DEF Keep, Stray
<1>10. CASE Unpin(t) \/ UnpinFails(t)
    <2>1. PICK j : /\ job' = [job EXCEPT ![t] = j]
                   /\ \/ j = [job[t] EXCEPT !.at = "clear"]
                      \/ j = [job[t] EXCEPT !.at = "disclaim"]
                      \/ j = Idle
                      \/ j = [job[t] EXCEPT !.at = "location", !.ok = FALSE /\ job[t].ok]
        BY <1>10 DEF Unpin, UnpinFails, Goto, Return
    <2>2. j.at \in {"idle", "location", "clear", "disclaim"}
        BY <1>0, <1>1, <2>1 DEF Jobs
    <2>3. ~Resolving(t) /\ claim' = claim /\ kstore' = kstore
        BY <1>10 DEF Unpin, UnpinFails, At, Resolving
    <2> QED
        BY <2>1, <2>2, <2>3, ArmedKept, StrayKept
<1>11. CASE Clear(t) /\ Local(t)
    BY <1>8, <1>11 DEF Clear, Local
<1>12. CASE Clear(t) /\ ~Local(t)
    <2> DEFINE j == [job[t] EXCEPT !.at = "disclaim"]
    <2>1. job' = [job EXCEPT ![t] = j]
        BY <1>12 DEF Clear, Goto, Local
    <2>2. j.at = "disclaim"
        BY <1>0 DEF Jobs
    <2> HIDE DEF j
    <2> QED
        BY <2>1, <2>2, ArmedKept, NotStray
<1>13. CASE Disclaim(t)
    <2>1. job[t].ok \in BOOLEAN /\ ~Stray'
        BY <1>0, <1>13 DEF Disclaim, Jobs, Stray
    <2>2. CASE job[t].op = "leave"
        <3> DEFINE j == [job[t] EXCEPT !.at = "clear"]
        <3>1. job' = [job EXCEPT ![t] = j]
            BY <1>13, <2>2 DEF Disclaim, Goto
        <3>2. j.at = "clear"
            BY <1>0 DEF Jobs
        <3> HIDE DEF j
        <3> QED
            BY <2>1, <3>1, <3>2, ArmedKept
    <2> QED
        BY <1>8, <1>13, <2>1, <2>2 DEF Disclaim
<1> QED
    BY <1>2, <1>3, <1>4, <1>5, <1>6, <1>7, <1>9, <1>10, <1>11, <1>12, <1>13 DEF Step

LEMMA ClaimInit == Init => ClaimInv
BY InitTyped DEF Init, ClaimInv, Armed, Idle

\* Every step keeps the invariant, and makes a stray claim only where it is allowed.
LEMMA ClaimNext ==
    ASSUME ClaimInv, [Next]_vars
    PROVE  /\ ClaimInv'
           /\ Stray' => Stray \/ deaths' # deaths \/ \E t \in Actors : Local(t) /\ Step(t)
<1> USE DEF ClaimInv
<1>1. TypeOK'
    BY TypePreserved
<1>2. ASSUME NEW t \in Actors, NEW op, NEW stage \in {"lock", "claim", "unpin"}, NEW doc,
             Start(t, op, stage, doc), stage = "claim" => op = "enter"
      PROVE  Armed' /\ (Stray' => Stray)
    <2> DEFINE j == [op |-> op, at |-> stage, doc |-> doc, ok |-> TRUE]
    <2>1. job' = [job EXCEPT ![t] = j] /\ claim' = claim /\ kstore' = kstore /\ ~Resolving(t)
        BY <1>2 DEF Start, Resolving, Idle
    <2>2. j.at \in {"policies", "kiosk", "claim", "pin", "keep"} => j.op = "enter"
        BY <1>2
    <2> HIDE DEF j
    <2> QED
        BY <2>1, <2>2, ArmedKept, StrayKept
<1>3. CASE Command \/ Reapply \/ \E op \in {"leave", "bail"} : Launcher(op)
    <2>1. \E t \in Actors, op \in Ops, stage \in {"lock", "claim", "unpin"}, doc \in 0..MaxDoc :
             Start(t, op, stage, doc) /\ (stage = "claim" => op = "enter")
        BY <1>3, KioskAssumption
        DEF Command, ConfigCommand, EnterCommand, ExitCommand, Reapply, Launcher, Docs, Ops, Config
    <2> QED
        BY <1>1, <1>2, <2>1
<1>4. ASSUME NEW t \in Actors, Step(t)
      PROVE  Armed' /\ (Stray' => Stray \/ \E u \in Actors : Local(u) /\ Step(u))
    BY <1>4, ClaimStep DEF Settles
<1>5. CASE Flush \/ UNCHANGED vars
    <2>1. UNCHANGED <<job, claim, kstore>>
        BY <1>5 DEF Flush, vars
    <2> QED
        BY <1>1, <2>1 DEF Armed, Payload, Stray, Resolving
<1>6. ASSUME NEW rebooted \in BOOLEAN, Death(rebooted)
      PROVE  Armed' /\ (Stray' => Stray \/ deaths' # deaths)
    <2>1. claim' = claim /\ kstore' = kstore /\ \A t \in Actors : job'[t] = Idle
        BY <1>6 DEF Death
    <2>2. Armed'
        BY <2>1 DEF Armed, Idle
    <2>3. Quiet => ~\E t \in Actors : Resolving(t)
        BY DEF Quiet, Resolving, Idle
    <2>4. ~Quiet => deaths' # deaths
        BY <1>6 DEF Death, TypeOK
    <2> QED
        BY <2>1, <2>2, <2>3, <2>4 DEF Stray
<1> QED
    BY <1>1, <1>3, <1>4, <1>5, <1>6 DEF Next

\* KioskApplier's "never leave a non-kiosk device claiming HOME" in every race of the
\* cycle's commands, the boot worker and the launcher (ClaimSettled).
THEOREM ClaimSafe == Spec => ClaimSettled
<1>1. ClaimInv /\ [Next]_vars => ClaimInv'
    BY ClaimNext
<1>2. ClaimInv /\ [Next]_vars =>
         [~Stray /\ Stray' =>
             deaths' # deaths \/ \E t \in Actors : Local(t) /\ Step(t)]_vars
    BY ClaimNext
<1> QED
    BY ClaimInit, <1>1, <1>2, PTL DEF Spec, ClaimSettled
---------------------------------------------------------------------------
(* ConfigApplier's mutex: the thread inside is alone with the document, the policies *)
(* and the location mode, from the loading to the persisting, and the documents of   *)
(* the cycle never go back.                                                          *)

Entering == {"claim", "pin", "keep", "disclaim"}
Leaving == {"unpin", "clear", "disclaim"}
Section == {"policies", "kiosk", "location", "persist"} \cup Entering \cup Leaving

\* The stages an operation can be in.
Routed(j) ==
    /\ j.op = "none" => j.at = "idle"
    /\ j.op \in Config => j.at \in Section \cup {"lock"}
    /\ j.op = "enter" => j.at \in Entering
    /\ j.op \in {"exit", "leave", "bail"} => j.at \in Leaving

\* What the job of the thread inside has made sure of so far.
InOrder(j) ==
    /\ j.doc # 0
    /\ j.op = "reapply" => j.doc = cstore
    /\ j.at # "policies" /\ j.ok => setting = j.doc
    /\ j.at = "persist" /\ j.ok => place = j.doc
    /\ j.at \in {"unpin", "clear"} => cstore \in WithKiosk /\ j.doc \notin WithKiosk

Inside(j) == j.op \in Config /\ j.at # "lock"

Serial ==
    /\ \A t \in Actors : Routed(job[t])
    /\ \A t, u \in mutex : t = u
    /\ \A t \in Actors : t \in mutex <=> Inside(job[t])
    /\ disk <= cstore /\ cstore <= newest
    /\ \A t \in Actors : job[t].op = "apply" => t = "cycle" /\ job[t].doc = newest
    /\ \A t \in mutex : InOrder(job[t])

SerialInv == ClaimInv /\ Serial

\* A thread goes on in its operation, or ends one that needs no mutex.
Advances(t, j) ==
    /\ job' = [job EXCEPT ![t] = j] /\ Routed(j)
    /\ UNCHANGED <<cstore, disk, mutex, newest>>
    /\ IF job[t].op \in Config
       THEN /\ j.op = job[t].op /\ j.doc = job[t].doc /\ Inside(j) /\ Inside(job[t])
            /\ InOrder(job[t]) => InOrder(j)'
       ELSE j.op \notin Config /\ UNCHANGED <<setting, place>>

LEMMA SerialAdvance ==
    ASSUME TypeOK, Serial, NEW t \in Actors, NEW j, Advances(t, j)
    PROVE  Serial'
<1>1. \A u \in Actors : job'[u] = IF u = t THEN j ELSE job[u]
    BY DEF Advances, TypeOK
<1>2. \A u \in Actors : Routed(job'[u]) /\ (u \in mutex <=> Inside(job'[u]))
    BY <1>1 DEF Advances, Serial, Inside
<1>3. \A u \in Actors : job'[u].op = "apply" => u = "cycle" /\ job'[u].doc = newest
    BY <1>1 DEF Advances, Serial, Config
<1>4. ASSUME NEW u \in mutex PROVE InOrder(job[u])'
    <2>1. u \in Actors /\ InOrder(job[u]) /\ job[u].op \in Config
        BY DEF TypeOK, Serial, Inside
    <2>2. CASE u = t
        BY <1>1, <2>1, <2>2 DEF Advances
    <2>3. CASE u # t
        <3>1. job'[u] = job[u] /\ t \notin mutex
            BY <1>1, <1>4, <2>1, <2>3 DEF Serial
        <3>2. UNCHANGED <<setting, place, cstore>>
            BY <3>1 DEF Advances, Serial, Inside
        <3> QED
            BY <2>1, <3>1, <3>2 DEF InOrder
    <2> QED
        BY <2>2, <2>3
<1> QED
    BY <1>2, <1>3, <1>4 DEF Advances, Serial, Routed, Inside

\* The job of a thread that moves, field by field.
Judges(t, stage, ok) == job' = [job EXCEPT ![t] = [job[t] EXCEPT !.at = stage, !.ok = ok]]

LEMMA Moved ==
    ASSUME TypeOK, NEW t \in Actors, NEW stage \in Stages, NEW ok \in BOOLEAN,
           Judges(t, stage, ok) \/ (Goto(t, stage) /\ ok = job[t].ok)
    PROVE  \E j \in Jobs :
             /\ j.op = job[t].op /\ j.doc = job[t].doc /\ j.at = stage /\ j.ok = ok
             /\ job' = [job EXCEPT ![t] = j]
<1>1. job[t] \in Jobs
    BY DEF TypeOK
<1>2. PICK j : j = [job[t] EXCEPT !.at = stage, !.ok = ok]
    OBVIOUS
<1>0. j \in Jobs
    BY <1>1, <1>2 DEF Jobs
<1>3. j.op = job[t].op /\ j.doc = job[t].doc /\ j.at = stage /\ j.ok = ok
    BY <1>1, <1>2 DEF Jobs
<1>4. ok = job[t].ok => [job[t] EXCEPT !.at = stage] = [job[t] EXCEPT !.at = stage, !.ok = ok]
    BY <1>1 DEF Jobs
<1>5. job' = [job EXCEPT ![t] = j]
    BY <1>2, <1>4 DEF Goto, Judges
<1> QED
    BY <1>0, <1>3, <1>5

LEMMA IdleRouted == Idle.op = "none" /\ Idle.at = "idle" /\ Routed(Idle) /\ ~Inside(Idle)
BY DEF Idle, Routed, Inside, Config

\* The steps between taking the mutex and giving it back, and those that have none.
LEMMA Advance ==
    ASSUME TypeOK, NEW t \in Actors, Routed(job[t]),
           \/ \E ok \in BOOLEAN : Policies(t, ok) \/ Location(t, ok)
           \/ Kiosk(t) \/ Claim(t) \/ Pin(t) \/ PinFails(t) \/ Keep(t)
           \/ Unpin(t) \/ UnpinFails(t) \/ Clear(t) \/ Disclaim(t)
    PROVE  \E j : Advances(t, j)
<1>1. job[t] \in Jobs /\ job[t].ok \in BOOLEAN /\ job[t].op \in Ops
    BY DEF TypeOK, Jobs
<1>2. ASSUME NEW ok \in BOOLEAN, Policies(t, ok) PROVE \E j : Advances(t, j)
    <2>1. PICK j \in Jobs :
             /\ j.op = job[t].op /\ j.doc = job[t].doc /\ j.at = "kiosk" /\ j.ok = ok
             /\ job' = [job EXCEPT ![t] = j]
        <3>1. Judges(t, "kiosk", ok)
            BY <1>2 DEF Policies, Judges
        <3> QED
            BY <3>1, Moved DEF Stages
    <2>2. job[t].op \in Config
        BY <1>1, <1>2 DEF Policies, At, Routed, Entering, Leaving, Ops
    <2>3. InOrder(job[t]) => InOrder(j)'
        BY <1>2, <2>1 DEF Policies, InOrder
    <2>4. Routed(j) /\ Inside(j) /\ Inside(job[t])
        BY <1>2, <2>1, <2>2 DEF Policies, At, Routed, Inside, Section, Config
    <2> QED
        BY <1>2, <2>1, <2>2, <2>3, <2>4 DEF Policies, Advances
<1>3. ASSUME NEW ok \in BOOLEAN, Location(t, ok) PROVE \E j : Advances(t, j)
    <2>0. PICK good \in BOOLEAN : good = (ok /\ job[t].ok)
        BY <1>1
    <2>1. PICK j \in Jobs :
             /\ j.op = job[t].op /\ j.doc = job[t].doc /\ j.at = "persist" /\ j.ok = good
             /\ job' = [job EXCEPT ![t] = j]
        <3>1. Judges(t, "persist", good)
            BY <1>3, <2>0 DEF Location, Judges
        <3>2. "persist" \in Stages
            BY DEF Stages
        <3> QED
            BY <3>1, <3>2, Moved
    <2>2. job[t].op \in Config
        BY <1>1, <1>3 DEF Location, At, Routed, Entering, Leaving, Ops
    <2>3. InOrder(job[t]) => InOrder(j)'
        <3>1. j.ok => ok /\ job[t].ok
            BY <2>0, <2>1
        <3> QED
            BY <1>3, <2>1, <3>1 DEF Location, At, InOrder
    <2>4. Routed(j) /\ Inside(j) /\ Inside(job[t])
        BY <1>3, <2>1, <2>2 DEF Location, At, Routed, Inside, Section, Config
    <2> QED
        BY <1>3, <2>1, <2>2, <2>3, <2>4 DEF Location, Advances
<1>4. CASE Kiosk(t)
    <2>1. PICK stage \in {"claim", "unpin", "location"} :
             Goto(t, stage) /\ (stage = "unpin" => cstore \in WithKiosk /\ job[t].doc \notin WithKiosk)
        <3>1. CASE job[t].doc \in WithKiosk
            BY <1>4, <3>1 DEF Kiosk
        <3>2. CASE job[t].doc \notin WithKiosk /\ Lifts
            BY <1>4, <3>2 DEF Kiosk, Lifts
        <3>3. CASE job[t].doc \notin WithKiosk /\ ~Lifts
            BY <1>4, <3>3 DEF Kiosk
        <3> QED
            BY <3>1, <3>2, <3>3
    <2>2. PICK j \in Jobs :
             /\ j.op = job[t].op /\ j.doc = job[t].doc /\ j.at = stage /\ j.ok = job[t].ok
             /\ job' = [job EXCEPT ![t] = j]
        BY <1>1, <2>1, Moved DEF Stages
    <2>3. job[t].op \in Config
        BY <1>1, <1>4 DEF Kiosk, At, Routed, Entering, Leaving, Ops
    <2>4. InOrder(job[t]) => InOrder(j)'
        BY <1>4, <2>1, <2>2 DEF Kiosk, At, InOrder
    <2>5. Routed(j) /\ Inside(j) /\ Inside(job[t])
        BY <1>4, <2>2, <2>3 DEF Kiosk, At, Routed, Inside, Section, Entering, Leaving, Config
    <2> QED
        BY <1>4, <2>2, <2>3, <2>4, <2>5 DEF Kiosk, Advances
\* The steps of KioskApplier touch neither policies nor location nor document.
<1>5. ASSUME UNCHANGED <<cstore, disk, mutex, newest, setting, place>>, job[t].at \in Entering \cup Leaving,
             NEW stage \in Section \ {"policies", "kiosk", "persist"}, NEW ok \in BOOLEAN, ok => job[t].ok,
             \/ Goto(t, stage) /\ ok = job[t].ok
             \/ Judges(t, stage, ok),
             stage \in {"unpin", "clear"} => job[t].at \in {"unpin", "clear"} \/ job[t].op \notin Config,
             job[t].op = "enter" => stage \in Entering,
             job[t].op \in {"exit", "leave", "bail"} => stage \in Leaving
      PROVE  \E j : Advances(t, j)
    <2>1. PICK j \in Jobs :
             /\ j.op = job[t].op /\ j.doc = job[t].doc /\ j.at = stage /\ j.ok = ok
             /\ job' = [job EXCEPT ![t] = j]
        <3>1. stage \in Stages
            BY DEF Stages, Section, Entering, Leaving
        <3> QED
            BY <1>5, <3>1, Moved
    <2>2. Routed(j) /\ job[t].op # "none"
        BY <1>5, <2>1 DEF Routed, Section, Entering, Leaving
    <2>3. ASSUME job[t].op \in Config
          PROVE  Inside(j) /\ Inside(job[t]) /\ (InOrder(job[t]) => InOrder(j)')
        <3>1. Inside(j) /\ Inside(job[t])
            BY <1>5, <2>1, <2>3 DEF Inside, Section, Entering, Leaving
        <3>2. InOrder(job[t]) => InOrder(j)'
            BY <1>5, <2>1, <2>3 DEF InOrder, Section, Entering, Leaving
        <3> QED
            BY <3>1, <3>2
    <2> QED
        BY <1>5, <2>1, <2>2, <2>3 DEF Advances
<1>6. ASSUME UNCHANGED <<cstore, disk, mutex, newest, setting, place>>, job[t].at \in Entering \cup Leaving,
             NEW ok \in BOOLEAN, Return(t, ok)
      PROVE  \E j : Advances(t, j)
    <2>1. CASE job[t].op \in Config
        <3>1. Judges(t, "location", ok /\ job[t].ok)
            BY <1>6, <2>1 DEF Return, Judges
        <3>2. (ok /\ job[t].ok) \in BOOLEAN /\ "location" \in Section \ {"policies", "kiosk", "persist"}
            BY <1>1 DEF Section
        <3> QED
            BY <1>5, <1>6, <2>1, <3>1, <3>2 DEF Config
    <2>2. CASE job[t].op \notin Config
        <3>1. job' = [job EXCEPT ![t] = Idle]
            BY <1>6, <2>2 DEF Return
        <3> QED
            BY <1>6, <2>2, <3>1, IdleRouted DEF Advances, Config
    <2> QED
        BY <2>1, <2>2
<1> USE DEF Section, Entering, Leaving
<1>7. CASE Claim(t)
    <2>1. job[t].op \notin {"exit", "leave", "bail"}
        BY <1>7 DEF Claim, At, Routed
    <2> QED
        BY <1>1, <1>5, <1>7, <2>1 DEF Claim, At
<1>8. CASE Pin(t)
    <2>1. job[t].op \notin {"exit", "leave", "bail"}
        BY <1>8 DEF Pin, At, Routed
    <2> QED
        BY <1>1, <1>5, <1>8, <2>1 DEF Pin, At
<1>9. CASE PinFails(t)
    <2>1. Judges(t, "disclaim", FALSE)
        BY <1>9 DEF PinFails, Judges
    <2> QED
        BY <1>5, <1>9, <2>1 DEF PinFails, At
<1>10. CASE Keep(t)
    BY <1>6, <1>10 DEF Keep, At
<1>11. CASE Unpin(t)
    <2>1. job[t].op # "enter"
        BY <1>11 DEF Unpin, At, Routed
    <2>2. CASE job[t].op = "leave"
        BY <1>1, <1>5, <1>11, <2>1, <2>2 DEF Unpin, At
    <2>3. CASE job[t].op # "leave"
        BY <1>1, <1>5, <1>11, <2>1, <2>3 DEF Unpin, At
    <2> QED
        BY <2>2, <2>3
<1>12. CASE UnpinFails(t)
    <2>1. job[t].op # "enter" /\ UNCHANGED <<cstore, disk, mutex, newest, setting, place>> /\ job[t].at = "unpin"
        BY <1>12 DEF UnpinFails, At, Routed
    <2>2. CASE job[t].op = "leave"
        BY <1>1, <1>5, <1>12, <2>1, <2>2 DEF UnpinFails
    <2>3. CASE job[t].op = "bail"
        BY <1>1, <1>5, <1>12, <2>1, <2>3 DEF UnpinFails
    <2>4. CASE job[t].op \notin {"leave", "bail"}
        BY <1>6, <1>12, <2>1, <2>4 DEF UnpinFails
    <2> QED
        BY <2>2, <2>3, <2>4
<1>13. CASE Clear(t)
    <2>1. job[t].op # "enter" /\ UNCHANGED <<cstore, disk, mutex, newest, setting, place>> /\ job[t].at = "clear"
        BY <1>13 DEF Clear, At, Routed
    <2>2. CASE job[t].op \in {"leave", "bail"}
        BY <1>6, <1>13, <2>1, <2>2 DEF Clear
    <2>3. CASE job[t].op \notin {"leave", "bail"}
        BY <1>1, <1>5, <1>13, <2>1, <2>3 DEF Clear
    <2> QED
        BY <2>2, <2>3
<1>14. CASE Disclaim(t)
    <2>1. UNCHANGED <<cstore, disk, mutex, newest, setting, place>> /\ job[t].at = "disclaim"
        BY <1>14 DEF Disclaim, At
    <2>2. CASE job[t].op = "leave"
        BY <1>1, <1>5, <1>14, <2>1, <2>2 DEF Disclaim, Config
    <2>3. CASE job[t].op # "leave"
        BY <1>1, <1>6, <1>14, <2>1, <2>3 DEF Disclaim
    <2> QED
        BY <2>2, <2>3
<1> QED
    BY <1>2, <1>3, <1>4, <1>7, <1>8, <1>9, <1>10, <1>11, <1>12, <1>13, <1>14

\* A thread without work takes one on; the cycle's documents never go back.
LEMMA SerialStart ==
    ASSUME TypeOK, Serial, NEW t \in Actors, NEW op \in {"apply", "reapply", "enter", "exit", "leave", "bail"},
           NEW doc \in 0..MaxDoc, NEW stage, Start(t, op, stage, doc),
           stage = (CASE op \in Config -> "lock" [] op = "enter" -> "claim" [] OTHER -> "unpin"),
           newest \in Nat, newest' \in Nat, newest <= newest',
           op = "apply" => t = "cycle" /\ doc = newest',
           op # "apply" => newest' = newest
    PROVE  Serial'
<1>1. PICK j : j = [op |-> op, at |-> stage, doc |-> doc, ok |-> TRUE]
    OBVIOUS
<1>2. j.op = op /\ j.at = stage /\ j.doc = doc
    BY <1>1
<1>3. \A u \in Actors : job'[u] = IF u = t THEN j ELSE job[u]
    BY <1>1 DEF Start, TypeOK
<1>4. /\ Routed(j) /\ ~Inside(j)
    <2>1. CASE op \in Config
        BY <1>2, <2>1 DEF Routed, Inside, Config
    <2>2. CASE op \notin Config
        BY <1>2, <2>2 DEF Routed, Inside, Config, Entering, Leaving
    <2> QED
        BY <2>1, <2>2
<1>5. t \notin mutex /\ UNCHANGED <<cstore, disk, setting, place, mutex>>
    BY IdleRouted DEF Start, Serial
<1>6. \A u \in Actors : Routed(job'[u]) /\ (u \in mutex' <=> Inside(job'[u]))
    BY <1>3, <1>4, <1>5 DEF Serial
<1>7. ASSUME NEW u \in Actors, job'[u].op = "apply" PROVE u = "cycle" /\ job'[u].doc = newest'
    <2>1. CASE u = t
        BY <1>2, <1>3, <1>7, <2>1
    <2>2. CASE u # t
        <3>1. job'[u] = job[u] /\ u = "cycle" /\ job[u].doc = newest
            BY <1>3, <1>7, <2>2 DEF Serial
        <3> QED
            BY <2>2, <3>1
    <2> QED
        BY <2>1, <2>2
<1>8. ASSUME NEW u \in mutex' PROVE InOrder(job[u])'
    <2>1. u # t /\ u \in mutex /\ u \in Actors
        BY <1>5, <1>8 DEF TypeOK
    <2>2. InOrder(job[u]) /\ job'[u] = job[u]
        BY <1>3, <2>1 DEF Serial
    <2> QED
        BY <1>5, <2>2 DEF InOrder
<1>9. disk' <= cstore' /\ cstore' <= newest'
    <2>1. cstore \in Nat
        BY KioskAssumption DEF TypeOK
    <2> QED
        BY <1>5, <2>1 DEF Serial
<1> QED
    BY <1>5, <1>6, <1>7, <1>8, <1>9 DEF Serial, Routed, Inside

\* The mutex is taken when nobody has it.
LEMMA SerialLock ==
    ASSUME TypeOK, Serial, NEW t \in Actors, Lock(t)
    PROVE  Serial' /\ cstore' = cstore
<1> DEFINE doc == IF job[t].op = "reapply" THEN cstore ELSE job[t].doc
<1>1. /\ job[t] \in Jobs /\ mutex = {} /\ job[t].at = "lock"
      /\ UNCHANGED <<cstore, disk, setting, place, newest>>
    BY DEF TypeOK, Lock, Acquire, At
<1>2. job[t].op \in Config
    BY <1>1 DEF Serial, Routed, Entering, Leaving, Jobs, Ops
<1>3. CASE doc = 0
    <2>1. job' = [job EXCEPT ![t] = Idle] /\ mutex' = mutex
        BY <1>3 DEF Lock, Acquire
    <2>2. \A u \in Actors : job'[u] = IF u = t THEN Idle ELSE job[u]
        BY <2>1 DEF TypeOK
    <2>3. \A u \in Actors : Routed(job'[u]) /\ (u \in mutex' <=> Inside(job'[u]))
        BY <1>1, <2>1, <2>2, IdleRouted DEF Serial
    <2>4. \A u \in Actors : job'[u].op = "apply" => u = "cycle" /\ job'[u].doc = newest'
        BY <1>1, <2>2, IdleRouted DEF Serial
    <2> QED
        BY <1>1, <2>1, <2>3, <2>4 DEF Serial, Routed, Inside
<1>4. CASE doc # 0
    <2>1. PICK j : j = [job[t] EXCEPT !.at = "policies", !.doc = doc]
        OBVIOUS
    <2>2. j.op = job[t].op /\ j.at = "policies" /\ j.doc = doc
        BY <1>1, <2>1 DEF Jobs
    <2>3. job' = [job EXCEPT ![t] = j] /\ mutex' = {t}
        BY <1>1, <1>4, <2>1 DEF Lock, Acquire
    <2>4. \A u \in Actors : job'[u] = IF u = t THEN j ELSE job[u]
        BY <2>3 DEF TypeOK
    <2>5. Routed(j) /\ Inside(j)
        BY <1>2, <2>2 DEF Routed, Inside, Config, Section
    <2>6. \A u \in Actors : Routed(job'[u]) /\ (u \in mutex' <=> Inside(job'[u]))
        BY <1>1, <2>3, <2>4, <2>5 DEF Serial
    <2>7. \A u \in Actors : job'[u].op = "apply" => u = "cycle" /\ job'[u].doc = newest'
        BY <1>1, <2>2, <2>4 DEF Serial
    <2>8. InOrder(j)'
        BY <1>1, <1>4, <2>2 DEF InOrder
    <2> QED
        BY <1>1, <2>3, <2>4, <2>6, <2>7, <2>8 DEF Serial, Routed, Inside
<1> QED
    BY <1>1, <1>3, <1>4

\* What is persisted is newer, or the same again; its sections are in force.
LEMMA SerialPersist ==
    ASSUME TypeOK, Serial, NEW t \in Actors, Persist(t)
    PROVE  /\ Serial' /\ cstore <= cstore'
           /\ cstore' # cstore => setting' = cstore' /\ place' = cstore'
<1>1. /\ job[t] \in Jobs /\ job[t].at = "persist" /\ UNCHANGED <<disk, setting, place, newest>>
      /\ cstore \in Nat /\ newest \in Nat /\ disk \in Nat
    BY KioskAssumption DEF TypeOK, Persist, At
<1>2. job[t].op \in Config
    BY <1>1 DEF Serial, Routed, Entering, Leaving, Jobs, Ops
<1>3. t \in mutex /\ mutex' = {}
    BY <1>1, <1>2 DEF Serial, Inside, Persist
<1>4. InOrder(job[t]) /\ (job[t].op = "reapply" \/ job[t].doc = newest)
    BY <1>2, <1>3 DEF Serial, Config
<1>5. /\ cstore <= cstore' /\ disk' <= cstore' /\ cstore' <= newest'
      /\ cstore' # cstore => setting' = cstore' /\ place' = cstore'
    BY <1>1, <1>4 DEF Persist, Succeeded, InOrder, Serial
<1>6. \A u \in Actors : job'[u] = IF u = t THEN Idle ELSE job[u]
    BY DEF Persist, TypeOK
<1>7. \A u \in Actors : Routed(job'[u]) /\ (u \in mutex' <=> Inside(job'[u]))
    BY <1>3, <1>6, IdleRouted DEF Serial
<1>8. \A u \in Actors : job'[u].op = "apply" => u = "cycle" /\ job'[u].doc = newest'
    BY <1>1, <1>6, IdleRouted DEF Serial
<1> QED
    BY <1>3, <1>5, <1>7, <1>8 DEF Serial, Routed, Inside

\* A configuration that clears the payload replaces an older one with kiosk.
LEMMA ClearedByNewer ==
    ASSUME SerialInv, NEW t \in Actors, job[t].op \in Config, Clear(t)
    PROVE  cstore \in WithKiosk /\ cstore < job[t].doc
<1>1. job[t].at = "clear" /\ TypeOK /\ Serial
    BY DEF Clear, At, SerialInv, ClaimInv
<1>2. InOrder(job[t])
    BY <1>1 DEF Serial, Inside
<1>3. /\ cstore \in WithKiosk /\ job[t].doc # cstore
      /\ job[t].op = "reapply" => job[t].doc = cstore
    BY <1>1, <1>2 DEF InOrder
<1>4. job[t].op = "apply" /\ job[t].doc = newest /\ cstore <= newest
    BY <1>1, <1>3 DEF Config, Serial
<1>5. cstore \in Nat /\ newest \in Nat
    BY <1>1, KioskAssumption DEF TypeOK
<1> QED
    BY <1>3, <1>4, <1>5

\* Every step keeps the order, and what the three action properties ask of it.
LEMMA SerialNext ==
    ASSUME SerialInv, [Next]_vars
    PROVE  /\ SerialInv'
           /\ cstore' < cstore => deaths' # deaths \/ Quiet
           /\ cstore' > cstore => setting' = cstore' /\ place' = cstore'
<1> DEFINE Asked == /\ cstore' < cstore => deaths' # deaths \/ Quiet
                    /\ cstore' > cstore => setting' = cstore' /\ place' = cstore'
<1>1. ClaimInv' /\ TypeOK /\ TypeOK' /\ Serial
    BY ClaimNext DEF SerialInv, ClaimInv
<1>2. /\ cstore \in Nat /\ cstore' \in Nat /\ disk \in Nat /\ newest \in 0..MaxDoc /\ newest \in Nat /\ newest' \in Nat
    BY <1>1, KioskAssumption DEF TypeOK
<1>3. SUFFICES Serial' /\ Asked
    BY <1>1 DEF SerialInv
<1>4. ASSUME cstore' = cstore PROVE Asked
    BY <1>2, <1>4
<1>5. ASSUME NEW d \in Docs, ConfigCommand(d) PROVE Serial' /\ Asked
    <2>1. /\ "cycle" \in Actors /\ Start("cycle", "apply", "lock", d) /\ newest' = d /\ newest <= newest'
          /\ d \in 0..MaxDoc
        BY <1>2, <1>5, KioskAssumption DEF ConfigCommand, Docs
    <2> QED
        BY <1>1, <1>2, <1>4, <2>1, SerialStart DEF Start, Config
<1>6. ASSUME EnterCommand \/ ExitCommand \/ Reapply \/ \E op \in {"leave", "bail"} : Launcher(op)
      PROVE  Serial' /\ Asked
    <2>1. PICK t \in Actors, op \in {"reapply", "enter", "exit", "leave", "bail"} :
             Start(t, op, CASE op \in Config -> "lock" [] op = "enter" -> "claim" [] OTHER -> "unpin", 0)
        BY <1>6 DEF EnterCommand, ExitCommand, Reapply, Launcher, Config
    <2>2. newest' = newest /\ 0 \in 0..MaxDoc /\ cstore' = cstore
        BY <1>6, <2>1, KioskAssumption DEF EnterCommand, ExitCommand, Reapply, Launcher, Start
    <2> QED
        BY <1>1, <1>2, <1>4, <2>1, <2>2, SerialStart
<1>7. ASSUME NEW t \in Actors, Step(t) PROVE Serial' /\ Asked
    <2>1. CASE Lock(t)
        BY <1>1, <1>4, <2>1, SerialLock
    <2>2. CASE Persist(t)
        BY <1>1, <1>2, <2>2, SerialPersist
    <2>3. CASE ~Lock(t) /\ ~Persist(t)
        <3>1. PICK j : Advances(t, j)
            BY <1>1, <1>7, <2>3, Advance DEF Step, Serial
        <3> QED
            BY <1>1, <1>4, <3>1, SerialAdvance DEF Advances
    <2> QED
        BY <2>1, <2>2, <2>3
<1>8. ASSUME NEW rebooted \in BOOLEAN, Death(rebooted) PROVE Serial' /\ Asked
    <2>1. /\ \A t \in Actors : job'[t] = Idle
          /\ mutex' = {} /\ cstore' = disk /\ disk' = disk /\ newest' = newest
        BY <1>8 DEF Death
    <2>2. cstore' <= cstore /\ (~Quiet => deaths' # deaths)
        BY <1>1, <1>2, <1>8, <2>1 DEF Death, Serial, TypeOK
    <2>3. disk' <= cstore' /\ cstore' <= newest'
        BY <1>1, <1>2, <2>1 DEF Serial
    <2>4. Serial'
        BY <2>1, <2>3, IdleRouted DEF Serial, Routed, Inside
    <2> QED
        BY <1>2, <2>2, <2>4
<1>9. CASE Flush \/ UNCHANGED vars
    <2>1. UNCHANGED <<cstore, setting, place, mutex, job, newest>> /\ (disk' = disk \/ disk' = cstore)
        BY <1>9 DEF Flush, vars
    <2>2. disk' <= cstore'
        BY <1>1, <1>2, <2>1 DEF Serial
    <2>3. Serial'
        BY <1>1, <2>1, <2>2 DEF Serial, Routed, Inside, InOrder
    <2> QED
        BY <1>4, <2>1, <2>3
<1> QED
    BY <1>5, <1>6, <1>7, <1>8, <1>9 DEF Next, Command

LEMMA SerialInit == Init => SerialInv
<1> SUFFICES ASSUME Init PROVE Serial
    BY ClaimInit DEF SerialInv
<1> QED
    BY IdleRouted DEF Init, Serial

\* However the boot worker, the cycle and deaths meet, a persisted document is replaced by
\* a newer one only, or lost with its background write (NewestWins).
THEOREM PersistsInOrder == Spec => NewestWins
<1>1. SerialInv /\ [Next]_vars => SerialInv'
    BY SerialNext
<1>2. SerialInv /\ [Next]_vars => [cstore' < cstore => deaths' # deaths \/ Quiet]_vars
    BY SerialNext
<1> QED
    BY SerialInit, <1>1, <1>2, PTL DEF Spec, NewestWins

\* The revision the device reports is one whose policies and location are in force when it
\* is persisted: no other thread sets them half way (ReportedIsInForce).
THEOREM ReportsWhatIsInForce == Spec => ReportedIsInForce
<1>1. SerialInv /\ [Next]_vars => SerialInv'
    BY SerialNext
<1>2. SerialInv /\ [Next]_vars => [cstore' > cstore => setting' = cstore' /\ place' = cstore']_vars
    BY SerialNext
<1> QED
    BY SerialInit, <1>1, <1>2, PTL DEF Spec, ReportedIsInForce

\* A configuration takes the device out of kiosk only in favour of a newer document than the
\* one with kiosk that is persisted at that moment (LiftsByNewer).
THEOREM LiftsInOrder == Spec => LiftsByNewer
<1>1. SerialInv /\ [Next]_vars => SerialInv'
    BY SerialNext
<1>2. SerialInv /\ [Next]_vars =>
        [\A t \in Actors : job[t].op \in Config /\ Clear(t) =>
            cstore \in WithKiosk /\ cstore < job[t].doc]_vars
    BY ClearedByNewer
<1> QED
    BY SerialInit, <1>1, <1>2, PTL DEF Spec, LiftsByNewer
===========================================================================
