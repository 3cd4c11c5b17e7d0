---------------------- MODULE CommandDeliveryProofs ----------------------
(* What CommandDelivery guarantees for every number of commands, exchanges and   *)
(* capabilities: its types, the single carrier and the single run of a command,  *)
(* that no outcome is lost by a failing exchange, and the implementation of      *)
(* CommandLifecycle. Everything follows from the inductive invariant IInv.       *)
EXTENDS CommandDelivery, TLAPS

\* A cycle's locals are empty outside the phase that uses them.
PhaseLocals ==
    /\ phase # "waiting" => acks = {}
    /\ phase # "dispatching" => batch = {} /\ fresh = {}

\* deliveredAt is set exactly by the claim, and a pending row was never claimed.
HandoverRecorded ==
    \A id \in Ids : /\ status[id] \in {"none", "pending"} => ~handed[id]
                    /\ status[id] = "delivered" => handed[id]

\* The device has neither decided the command nor begun to run it.
Untouched(id) == told[id] = "none" /\ ran[id] = 0

\* Before the claim nothing carries the command and the device knows nothing of it.
QuietBeforeHandover ==
    \A id \in Ids : ~handed[id] =>
        /\ Untouched(id)
        /\ id \notin batch \cup executed
        /\ \A c \in Conns : ~Carries(c, id)

\* What carries a command carries it alone, and it is still undecided.
CarriedIsUndecided ==
    /\ OneCarrier
    /\ \A id \in Ids, c \in Conns : Carries(c, id) => Untouched(id)
    /\ \A id \in batch : Untouched(id) /\ id \notin executed

\* Every result on its way to the server is the outcome the device decided.
ResultsAreTold ==
    /\ \A r \in Held : told[r.id] = r.status
    /\ \A c \in Conns : \A r \in ex[c].acks : told[r.id] = r.status

\* A recorded outcome is the decided one.
SettledIsTold == \A id \in Ids : status[id] \in Genuine => status[id] = told[id]

\* A handler past its result loop has recorded them all.
ResultsFirst ==
    \A c \in Conns : ex[c].at \notin {"sent", "results"} => ex[c].acks = {}

\* What the waiting cycle drained is recorded or still in the awaited request.
DrainedIsTravelling ==
    \A c \in awaited : phase = "waiting" /\ ex[c].at # "free" =>
        \A r \in acks : r \in ex[c].acks \/ status[r.id] = r.status

IInv ==
    /\ TypeOK
    /\ PhaseLocals
    /\ HandoverRecorded
    /\ QuietBeforeHandover
    /\ CarriedIsUndecided
    /\ AtMostOnce
    /\ ResultsAreTold
    /\ SettledIsTold
    /\ ResultsFirst
    /\ DrainedIsTravelling
    /\ NoResultLost
---------------------------------------------------------------------------
(* Types. *)

\* A break, a delivery and a new request write well-formed exchanges.
LEMMA FreeIsExchange ==
    /\ Free \in Exchanges
    /\ \A caps \in SUBSET Caps, R \in SUBSET Results :
          [Free EXCEPT !.at = "sent", !.caps = caps, !.acks = R] \in Exchanges
BY DEF Free, Exchanges, Stages

\* So do the handler's steps.
LEMMA StepIsExchange ==
    ASSUME NEW e \in Exchanges
    PROVE  /\ \A at \in Stages : [e EXCEPT !.at = at] \in Exchanges
           /\ \A r : [e EXCEPT !.acks = e.acks \ {r}] \in Exchanges
           /\ \A T \in SUBSET Ids : [e EXCEPT !.at = "claim", !.caps = {}, !.todo = T] \in Exchanges
           /\ \A id : [e EXCEPT !.todo = e.todo \ {id}] \in Exchanges
           /\ \A id \in Ids :
                 [e EXCEPT !.todo = e.todo \ {id}, !.claimed = e.claimed \cup {id}] \in Exchanges
BY DEF Exchanges, Stages

\* Every action keeps every variable in its type.
LEMMA TypePreserved == TypeOK /\ [Next]_vars => TypeOK'
<1> SUFFICES ASSUME TypeOK, [Next]_vars PROVE TypeOK'
    OBVIOUS
<1> USE DeliveryAssumption DEF TypeOK, Statuses, Genuine, tableVars, agentVars, history
<1>1. ASSUME NEW id \in Ids, Queue(id) PROVE TypeOK'
    BY <1>1 DEF Queue
<1>2. ASSUME NEW id \in Ids, Elapse(id) PROVE TypeOK'
    BY <1>2 DEF Elapse
<1>3. ASSUME NEW c \in Conns, Receive(c) PROVE TypeOK'
    <2>1. ex' \in [Conns -> Exchanges]
        BY <1>3, StepIsExchange DEF Receive, Stages
    <2> QED
        BY <1>3, <2>1 DEF Receive
<1>4. ASSUME NEW c \in Conns, NEW r \in Results, MarkResult(c, r) PROVE TypeOK'
    BY <1>4 DEF MarkResult, Exchanges, Stages, Results
<1>5. ASSUME NEW c \in Conns, ResultsDone(c) PROVE TypeOK'
    BY <1>5 DEF ResultsDone, Exchanges, Stages
<1>6. ASSUME NEW c \in Conns, ExpireStale(c) PROVE TypeOK'
    <2>1. ex' = [ex EXCEPT ![c].at = "list"]
        BY <1>6 DEF ExpireStale
    <2>2. ex' \in [Conns -> Exchanges]
        BY <2>1 DEF Exchanges, Stages
    <2>3. /\ status' \in [Ids -> Statuses]
          /\ stale' \in [Ids -> BOOLEAN]
        BY <1>6 DEF ExpireStale
    <2> QED
        BY <1>6, <2>2, <2>3 DEF ExpireStale
<1>7. ASSUME NEW c \in Conns, ListPending(c) PROVE TypeOK'
    <2>1. PICK T \in SUBSET Ids :
             ex' = [ex EXCEPT ![c] = [ex[c] EXCEPT !.at = "claim", !.caps = {}, !.todo = T]]
        BY <1>7 DEF ListPending, Listed
    <2>2. [ex[c] EXCEPT !.at = "claim", !.caps = {}, !.todo = T] \in Exchanges
        BY StepIsExchange
    <2>3. ex' \in [Conns -> Exchanges]
        BY <2>1, <2>2
    <2>4. skipped' \subseteq Ids \X Ids
        BY <1>7 DEF ListPending, Listed, LeftOut
    <2> QED
        BY <1>7, <2>3, <2>4 DEF ListPending
<1>8. ASSUME NEW c \in Conns, NEW id \in Ids, Claim(c, id) PROVE TypeOK'
    <2>1. /\ [ex[c] EXCEPT !.todo = ex[c].todo \ {id}] \in Exchanges
          /\ [ex[c] EXCEPT !.todo = ex[c].todo \ {id},
                           !.claimed = ex[c].claimed \cup {id}] \in Exchanges
        BY StepIsExchange
    <2>2. ex' \in [Conns -> Exchanges]
        BY <1>8, <2>1 DEF Claim
    <2> QED
        BY <1>8, <2>2 DEF Claim
<1>9. ASSUME NEW c \in Conns, Reply(c) PROVE TypeOK'
    BY <1>9 DEF Reply, Exchanges, Stages
<1>10. ASSUME NEW c \in Conns, Break(c) PROVE TypeOK'
    BY <1>10, FreeIsExchange DEF Break
<1>11. ASSUME NEW c \in Conns, NEW caps \in SUBSET Caps, Send(c, caps) PROVE TypeOK'
    BY <1>11, FreeIsExchange DEF Send
<1>12. ASSUME NEW c \in Conns, Resend(c) PROVE TypeOK'
    BY <1>12, FreeIsExchange DEF Resend
<1>13. ASSUME NEW c \in Conns, Deliver(c) PROVE TypeOK'
    BY <1>13, FreeIsExchange DEF Deliver, Exchanges
<1>14. ASSUME CycleFails PROVE TypeOK'
    BY <1>14 DEF CycleFails
<1>15. ASSUME NEW id \in Ids, NEW known \in BOOLEAN, NEW outcome \in Genuine,
              Dispatch(id, known, outcome)
       PROVE TypeOK'
    BY <1>15 DEF Dispatch, Results
<1>16. ASSUME CycleEnds PROVE TypeOK'
    BY <1>16 DEF CycleEnds
<1>17. ASSUME NEW inside \in BOOLEAN, Crash(inside) PROVE TypeOK'
    BY <1>17 DEF Crash, Held, Results
<1>18. CASE UNCHANGED vars
    BY <1>18 DEF vars
<1> QED
    BY <1>1, <1>2, <1>3, <1>4, <1>5, <1>6, <1>7, <1>8, <1>9, <1>10, <1>11, <1>12,
       <1>13, <1>14, <1>15, <1>16, <1>17, <1>18 DEF Next, Server, Agent

\* The initial tables, buffers and exchanges are well typed.
LEMMA InitTyped == Init => TypeOK
<1> SUFFICES ASSUME Init PROVE TypeOK
    OBVIOUS
<1>1. ex \in [Conns -> Exchanges]
    BY FreeIsExchange DEF Init
<1>2. /\ status \in [Ids -> Statuses]
      /\ handed \in [Ids -> BOOLEAN]
      /\ stale \in [Ids -> BOOLEAN]
    BY DEF Init, Statuses
<1>3. /\ ran \in [Ids -> Nat]
      /\ told \in [Ids -> Genuine \cup {"none"}]
    BY DEF Init
<1> QED
    BY <1>1, <1>2, <1>3 DEF Init, TypeOK

\* Every reachable state is well typed.
THEOREM TypeCorrect == Spec => []TypeOK
BY InitTyped, TypePreserved, PTL DEF Spec
---------------------------------------------------------------------------
(* The inductive step: under each action, the conjuncts it can disturb one by    *)
(* one, and together those it leaves alone.                                      *)

\* No action of the server, the network or the device breaks the invariant.
LEMMA Inductive == IInv /\ [Next]_vars => IInv'
<1> SUFFICES ASSUME IInv, [Next]_vars, TypeOK' PROVE IInv'
    BY TypePreserved DEF IInv
<1> USE DEF IInv, TypeOK, tableVars, agentVars, history, Statuses, Genuine,
            Exchanges, Stages, Results, Untouched
<1>1. ASSUME NEW id \in Ids, Queue(id)
      PROVE IInv'
    <2>1. HandoverRecorded'
        BY <1>1 DEF Queue, HandoverRecorded
    <2>2. SettledIsTold'
        BY <1>1 DEF Queue, SettledIsTold, ResultsAreTold, Held, CarriedIsUndecided,
           OneCarrier, Carries, HandoverRecorded, QuietBeforeHandover
    <2>3. DrainedIsTravelling'
        BY <1>1 DEF Queue, DrainedIsTravelling, ResultsFirst, ResultsAreTold, Held,
           SettledIsTold, PhaseLocals
    <2>4. NoResultLost'
        BY <1>1 DEF Queue, NoResultLost, Held, DrainedIsTravelling, ResultsFirst,
           ResultsAreTold, SettledIsTold, CarriedIsUndecided, OneCarrier, Carries,
           PhaseLocals, HandoverRecorded, QuietBeforeHandover
    <2>5. /\ PhaseLocals'
          /\ QuietBeforeHandover'
          /\ CarriedIsUndecided'
          /\ AtMostOnce'
          /\ ResultsAreTold'
          /\ ResultsFirst'
        BY <1>1 DEF Queue, CarriedIsUndecided, Carries, Held, OneCarrier, PhaseLocals,
           QuietBeforeHandover, ResultsAreTold, ResultsFirst, AtMostOnce
    <2> QED
        BY <2>1, <2>2, <2>3, <2>4, <2>5
<1>2. ASSUME NEW id \in Ids, Elapse(id)
      PROVE IInv'
    <2>1. /\ PhaseLocals'
          /\ HandoverRecorded'
          /\ QuietBeforeHandover'
          /\ CarriedIsUndecided'
          /\ AtMostOnce'
          /\ ResultsAreTold'
          /\ SettledIsTold'
          /\ ResultsFirst'
          /\ DrainedIsTravelling'
          /\ NoResultLost'
        BY <1>2 DEF Elapse, CarriedIsUndecided, Carries, DrainedIsTravelling,
           HandoverRecorded, Held, NoResultLost, OneCarrier, PhaseLocals,
           QuietBeforeHandover, ResultsAreTold, ResultsFirst, SettledIsTold,
           AtMostOnce
    <2> QED
        BY <2>1
<1>3. ASSUME NEW c \in Conns, Receive(c)
      PROVE IInv'
    <2>1. ResultsFirst'
        BY <1>3 DEF Receive, ResultsFirst
    <2>2. /\ PhaseLocals'
          /\ HandoverRecorded'
          /\ QuietBeforeHandover'
          /\ CarriedIsUndecided'
          /\ AtMostOnce'
          /\ ResultsAreTold'
          /\ SettledIsTold'
          /\ DrainedIsTravelling'
          /\ NoResultLost'
        BY <1>3 DEF Receive, CarriedIsUndecided, Carries, DrainedIsTravelling,
           HandoverRecorded, Held, NoResultLost, OneCarrier, PhaseLocals,
           QuietBeforeHandover, ResultsAreTold, SettledIsTold, AtMostOnce
    <2> QED
        BY <2>1, <2>2
<1>4. ASSUME NEW c \in Conns, NEW r \in Results, MarkResult(c, r)
      PROVE IInv'
    <2>1. HandoverRecorded'
        BY <1>4 DEF MarkResult, Recordable, HandoverRecorded
    <2>2. SettledIsTold'
        BY <1>4 DEF MarkResult, Recordable, SettledIsTold, ResultsAreTold, Held,
           CarriedIsUndecided, OneCarrier, Carries, HandoverRecorded,
           QuietBeforeHandover
    <2>3. ResultsAreTold'
        BY <1>4 DEF MarkResult, Recordable, ResultsAreTold, Held, CarriedIsUndecided,
           OneCarrier, Carries
    <2>4. ResultsFirst'
        BY <1>4 DEF MarkResult, Recordable, ResultsFirst
    <2>5. DrainedIsTravelling'
        BY <1>4 DEF MarkResult, Recordable, DrainedIsTravelling, ResultsFirst,
           ResultsAreTold, Held, SettledIsTold, PhaseLocals
    <2>6. NoResultLost'
        BY <1>4 DEF MarkResult, Recordable, NoResultLost, Held, DrainedIsTravelling,
           ResultsFirst, ResultsAreTold, SettledIsTold, CarriedIsUndecided,
           OneCarrier, Carries, PhaseLocals, HandoverRecorded, QuietBeforeHandover
    <2>7. /\ PhaseLocals'
          /\ QuietBeforeHandover'
          /\ CarriedIsUndecided'
          /\ AtMostOnce'
        BY <1>4 DEF MarkResult, Recordable, CarriedIsUndecided, Carries, OneCarrier,
           PhaseLocals, QuietBeforeHandover, AtMostOnce
    <2> QED
        BY <2>1, <2>2, <2>3, <2>4, <2>5, <2>6, <2>7
<1>5. ASSUME NEW c \in Conns, ResultsDone(c)
      PROVE IInv'
    <2>1. ResultsFirst'
        BY <1>5 DEF ResultsDone, ResultsFirst
    <2>2. /\ PhaseLocals'
          /\ HandoverRecorded'
          /\ QuietBeforeHandover'
          /\ CarriedIsUndecided'
          /\ AtMostOnce'
          /\ ResultsAreTold'
          /\ SettledIsTold'
          /\ DrainedIsTravelling'
          /\ NoResultLost'
        BY <1>5 DEF ResultsDone, CarriedIsUndecided, Carries, DrainedIsTravelling,
           HandoverRecorded, Held, NoResultLost, OneCarrier, PhaseLocals,
           QuietBeforeHandover, ResultsAreTold, SettledIsTold, AtMostOnce
    <2> QED
        BY <2>1, <2>2
<1>6. ASSUME NEW c \in Conns, ExpireStale(c)
      PROVE IInv'
    <2>1. HandoverRecorded'
        BY <1>6 DEF ExpireStale, Overdue, HandoverRecorded
    <2>2. SettledIsTold'
        BY <1>6 DEF ExpireStale, Overdue, SettledIsTold, ResultsAreTold, Held,
           CarriedIsUndecided, OneCarrier, Carries, HandoverRecorded,
           QuietBeforeHandover
    <2>3. ResultsFirst'
        BY <1>6 DEF ExpireStale, Overdue, ResultsFirst
    <2>4. DrainedIsTravelling'
        BY <1>6 DEF ExpireStale, Overdue, DrainedIsTravelling, ResultsFirst,
           ResultsAreTold, Held, SettledIsTold, PhaseLocals
    <2>5. NoResultLost'
        BY <1>6 DEF ExpireStale, Overdue, NoResultLost, Held, DrainedIsTravelling,
           ResultsFirst, ResultsAreTold, SettledIsTold, CarriedIsUndecided,
           OneCarrier, Carries, PhaseLocals, HandoverRecorded, QuietBeforeHandover
    <2>6. /\ PhaseLocals'
          /\ QuietBeforeHandover'
          /\ CarriedIsUndecided'
          /\ AtMostOnce'
          /\ ResultsAreTold'
        BY <1>6 DEF ExpireStale, Overdue, CarriedIsUndecided, Carries, Held,
           OneCarrier, PhaseLocals, QuietBeforeHandover, ResultsAreTold,
           AtMostOnce
    <2> QED
        BY <2>1, <2>2, <2>3, <2>4, <2>5, <2>6
<1>7. ASSUME NEW c \in Conns, ListPending(c)
      PROVE IInv'
    <2>1. /\ PhaseLocals'
          /\ HandoverRecorded'
          /\ QuietBeforeHandover'
          /\ CarriedIsUndecided'
          /\ AtMostOnce'
          /\ ResultsAreTold'
          /\ SettledIsTold'
          /\ ResultsFirst'
          /\ DrainedIsTravelling'
          /\ NoResultLost'
        BY <1>7 DEF ListPending, CarriedIsUndecided, Carries, DrainedIsTravelling,
           HandoverRecorded, Held, NoResultLost, OneCarrier, PhaseLocals,
           QuietBeforeHandover, ResultsAreTold, ResultsFirst, SettledIsTold,
           AtMostOnce
    <2> QED
        BY <2>1
<1>8. ASSUME NEW c \in Conns, NEW id \in Ids, Claim(c, id)
      PROVE IInv'
    <2>1. CASE Claimable(id)
        <3>1. /\ status' = [status EXCEPT ![id] = "delivered"]
              /\ handed' = [handed EXCEPT ![id] = TRUE]
              /\ status[id] = "pending" /\ ~handed[id]
            BY <1>8, <2>1 DEF Claim, Claimable, HandoverRecorded
        <3> DEFINE e == [ex[c] EXCEPT !.todo = ex[c].todo \ {id},
                                      !.claimed = ex[c].claimed \cup {id}]
        <3>2. /\ e.at = ex[c].at /\ e.acks = ex[c].acks
              /\ e.claimed = ex[c].claimed \cup {id}
            OBVIOUS
        <3>3. ex' = [ex EXCEPT ![c] = e]
            BY <1>8, <2>1 DEF Claim
        <3> HIDE DEF e
        <3>4. \A d \in Conns : /\ ex'[d].at = ex[d].at /\ ex'[d].acks = ex[d].acks
                               /\ d # c => ex'[d].claimed = ex[d].claimed
            BY <3>2, <3>3
        <3>5. ex'[c].claimed = ex[c].claimed \cup {id}
            BY <3>2, <3>3
        <3>6. /\ phase' = phase /\ awaited' = awaited /\ acks' = acks /\ buffer' = buffer
              /\ batch' = batch /\ fresh' = fresh /\ executed' = executed
              /\ ran' = ran /\ told' = told /\ forgotten' = forgotten
            BY <1>8 DEF Claim
        <3>7. HandoverRecorded'
            BY <3>1 DEF HandoverRecorded
        <3>8. QuietBeforeHandover'
            BY <3>6, <3>1, <3>4, <3>5 DEF QuietBeforeHandover, Carries
        <3>9. CarriedIsUndecided'
            <4>1. /\ Untouched(id) /\ id \notin batch \cup executed
                  /\ \A d \in Conns : ~Carries(d, id)
                BY <3>1 DEF QuietBeforeHandover
            <4>2. \A i \in Ids, d \in Conns :
                     Carries(d, i)' <=> Carries(d, i) \/ (i = id /\ d = c)
                BY <3>4, <3>5 DEF Carries
            <4> QED
                BY <3>6, <4>1, <4>2 DEF CarriedIsUndecided, OneCarrier
        <3>10. SettledIsTold'
            BY <3>6, <3>1 DEF SettledIsTold
        <3>11. /\ ResultsAreTold' /\ ResultsFirst'
            BY <3>6, <3>4 DEF ResultsAreTold, Held, ResultsFirst
        <3>12. DrainedIsTravelling'
            BY <3>6, <3>1, <3>4 DEF DrainedIsTravelling
        <3>13. NoResultLost'
            BY <3>6, <3>1 DEF NoResultLost, Held
        <3> QED
            BY <3>6, <3>7, <3>8, <3>9, <3>10, <3>11, <3>12, <3>13
            DEF PhaseLocals, AtMostOnce
    <2>2. CASE ~Claimable(id)
        <3>1. UNCHANGED <<tableVars, agentVars, history>>
            BY <1>8, <2>2 DEF Claim
        <3>2. \A d \in Conns : /\ ex'[d].at = ex[d].at /\ ex'[d].acks = ex[d].acks
                               /\ ex'[d].claimed = ex[d].claimed
            BY <1>8, <2>2 DEF Claim
        <3>3. QuietBeforeHandover' /\ CarriedIsUndecided'
            BY <3>1, <3>2 DEF QuietBeforeHandover, CarriedIsUndecided, OneCarrier, Carries
        <3>4. ResultsAreTold' /\ ResultsFirst' /\ DrainedIsTravelling' /\ NoResultLost'
            BY <3>1, <3>2
            DEF ResultsAreTold, Held, ResultsFirst, DrainedIsTravelling, NoResultLost
        <3> QED
            BY <3>1, <3>3, <3>4
            DEF PhaseLocals, HandoverRecorded, AtMostOnce, SettledIsTold
    <2> QED
        BY <2>1, <2>2
<1>9. ASSUME NEW c \in Conns, Reply(c)
      PROVE IInv'
    <2>1. /\ PhaseLocals'
          /\ HandoverRecorded'
          /\ QuietBeforeHandover'
          /\ CarriedIsUndecided'
          /\ AtMostOnce'
          /\ ResultsAreTold'
          /\ SettledIsTold'
          /\ ResultsFirst'
          /\ DrainedIsTravelling'
          /\ NoResultLost'
        BY <1>9 DEF Reply, CarriedIsUndecided, Carries, DrainedIsTravelling,
           HandoverRecorded, Held, NoResultLost, OneCarrier, PhaseLocals,
           QuietBeforeHandover, ResultsAreTold, ResultsFirst, SettledIsTold,
           AtMostOnce
    <2> QED
        BY <2>1
<1>10. ASSUME NEW c \in Conns, Break(c)
      PROVE IInv'
    <2>1. ResultsFirst'
        BY <1>10 DEF Break, Free, ResultsFirst
    <2>2. DrainedIsTravelling'
        BY <1>10 DEF Break, Free, DrainedIsTravelling, ResultsFirst, ResultsAreTold,
           Held, SettledIsTold, PhaseLocals
    <2>3. /\ PhaseLocals'
          /\ HandoverRecorded'
          /\ QuietBeforeHandover'
          /\ CarriedIsUndecided'
          /\ AtMostOnce'
          /\ ResultsAreTold'
          /\ SettledIsTold'
          /\ NoResultLost'
        BY <1>10 DEF Break, Free, CarriedIsUndecided, Carries, HandoverRecorded, Held,
           NoResultLost, OneCarrier, PhaseLocals, QuietBeforeHandover, ResultsAreTold,
           SettledIsTold, AtMostOnce
    <2> QED
        BY <2>1, <2>2, <2>3
<1>11. ASSUME NEW c \in Conns, NEW caps \in SUBSET Caps, Send(c, caps)
      PROVE IInv'
    <2>1. PhaseLocals'
        BY <1>11 DEF Send, Free, PhaseLocals
    <2>2. ResultsAreTold'
        BY <1>11 DEF Send, Free, ResultsAreTold, Held, CarriedIsUndecided, OneCarrier,
           Carries
    <2>3. ResultsFirst'
        BY <1>11 DEF Send, Free, ResultsFirst
    <2>4. DrainedIsTravelling'
        BY <1>11 DEF Send, Free, DrainedIsTravelling, ResultsFirst, ResultsAreTold,
           Held, SettledIsTold, PhaseLocals
    <2>5. NoResultLost'
        BY <1>11 DEF Send, Free, NoResultLost, Held, DrainedIsTravelling,
           ResultsFirst, ResultsAreTold, SettledIsTold, CarriedIsUndecided,
           OneCarrier, Carries, PhaseLocals, HandoverRecorded, QuietBeforeHandover
    <2>6. /\ HandoverRecorded'
          /\ QuietBeforeHandover'
          /\ CarriedIsUndecided'
          /\ AtMostOnce'
          /\ SettledIsTold'
        BY <1>11 DEF Send, Free, CarriedIsUndecided, Carries, HandoverRecorded,
           OneCarrier, QuietBeforeHandover, SettledIsTold, AtMostOnce
    <2> QED
        BY <2>1, <2>2, <2>3, <2>4, <2>5, <2>6
<1>12. ASSUME NEW c \in Conns, Resend(c)
      PROVE IInv'
    <2>1. ResultsAreTold'
        BY <1>12 DEF Resend, Free, ResultsAreTold, Held, CarriedIsUndecided,
           OneCarrier, Carries
    <2>2. ResultsFirst'
        BY <1>12 DEF Resend, Free, ResultsFirst
    <2>3. DrainedIsTravelling'
        BY <1>12 DEF Resend, Free, DrainedIsTravelling, ResultsFirst, ResultsAreTold,
           Held, SettledIsTold, PhaseLocals
    <2>4. /\ PhaseLocals'
          /\ HandoverRecorded'
          /\ QuietBeforeHandover'
          /\ CarriedIsUndecided'
          /\ AtMostOnce'
          /\ SettledIsTold'
          /\ NoResultLost'
        BY <1>12 DEF Resend, Free, CarriedIsUndecided, Carries, HandoverRecorded,
           Held, NoResultLost, OneCarrier, PhaseLocals, QuietBeforeHandover,
           SettledIsTold, AtMostOnce
    <2> QED
        BY <2>1, <2>2, <2>3, <2>4
<1>13. ASSUME NEW c \in Conns, Deliver(c)
      PROVE IInv'
    <2>1. PhaseLocals'
        BY <1>13 DEF Deliver, Free, PhaseLocals
    <2>2. QuietBeforeHandover'
        BY <1>13 DEF Deliver, Free, QuietBeforeHandover, Carries, HandoverRecorded,
           CarriedIsUndecided, OneCarrier
    <2>3. CarriedIsUndecided'
        BY <1>13 DEF Deliver, Free, CarriedIsUndecided, OneCarrier, Carries,
           QuietBeforeHandover, HandoverRecorded, PhaseLocals
    <2>4. ResultsAreTold'
        BY <1>13 DEF Deliver, Free, ResultsAreTold, Held, CarriedIsUndecided,
           OneCarrier, Carries
    <2>5. DrainedIsTravelling'
        BY <1>13 DEF Deliver, Free, DrainedIsTravelling, ResultsFirst, ResultsAreTold,
           Held, SettledIsTold, PhaseLocals
    <2>6. NoResultLost'
        BY <1>13 DEF Deliver, Free, NoResultLost, Held, DrainedIsTravelling,
           ResultsFirst, ResultsAreTold, SettledIsTold, CarriedIsUndecided,
           OneCarrier, Carries, PhaseLocals, HandoverRecorded, QuietBeforeHandover
    <2>7. /\ HandoverRecorded'
          /\ AtMostOnce'
          /\ SettledIsTold'
          /\ ResultsFirst'
        BY <1>13 DEF Deliver, Free, HandoverRecorded, ResultsFirst, SettledIsTold,
           AtMostOnce
    <2> QED
        BY <2>1, <2>2, <2>3, <2>4, <2>5, <2>6, <2>7
<1>14. ASSUME CycleFails
      PROVE IInv'
    <2>1. PhaseLocals'
        BY <1>14 DEF CycleFails, PhaseLocals
    <2>2. ResultsAreTold'
        BY <1>14 DEF CycleFails, ResultsAreTold, Held, CarriedIsUndecided, OneCarrier,
           Carries
    <2>3. NoResultLost'
        BY <1>14 DEF CycleFails, NoResultLost, Held, DrainedIsTravelling,
           ResultsFirst, ResultsAreTold, SettledIsTold, CarriedIsUndecided,
           OneCarrier, Carries, PhaseLocals, HandoverRecorded, QuietBeforeHandover
    <2>4. /\ HandoverRecorded'
          /\ QuietBeforeHandover'
          /\ CarriedIsUndecided'
          /\ AtMostOnce'
          /\ SettledIsTold'
          /\ ResultsFirst'
          /\ DrainedIsTravelling'
        BY <1>14 DEF CycleFails, CarriedIsUndecided, Carries, DrainedIsTravelling,
           HandoverRecorded, OneCarrier, QuietBeforeHandover, ResultsFirst,
           SettledIsTold, AtMostOnce
    <2> QED
        BY <2>1, <2>2, <2>3, <2>4
<1>15. ASSUME NEW id \in Ids, NEW known \in BOOLEAN, NEW outcome \in Genuine,
             Dispatch(id, known, outcome)
      PROVE IInv'
    <2>1. PhaseLocals'
        BY <1>15 DEF Dispatch, IsFirst, PhaseLocals
    <2>2. QuietBeforeHandover'
        BY <1>15 DEF Dispatch, IsFirst, QuietBeforeHandover, Carries,
           HandoverRecorded, CarriedIsUndecided, OneCarrier
    <2>3. CarriedIsUndecided'
        BY <1>15 DEF Dispatch, IsFirst, CarriedIsUndecided, OneCarrier, Carries,
           QuietBeforeHandover, HandoverRecorded, PhaseLocals
    <2>4. AtMostOnce'
        BY <1>15 DEF Dispatch, IsFirst, AtMostOnce, CarriedIsUndecided,
           OneCarrier, Carries
    <2>5. ResultsAreTold'
        BY <1>15 DEF Dispatch, IsFirst, ResultsAreTold, Held, CarriedIsUndecided,
           OneCarrier, Carries
    <2>6. SettledIsTold'
        BY <1>15 DEF Dispatch, IsFirst, SettledIsTold, ResultsAreTold, Held,
           CarriedIsUndecided, OneCarrier, Carries, HandoverRecorded,
           QuietBeforeHandover
    <2>7. NoResultLost'
        BY <1>15 DEF Dispatch, IsFirst, NoResultLost, Held, DrainedIsTravelling,
           ResultsFirst, ResultsAreTold, SettledIsTold, CarriedIsUndecided,
           OneCarrier, Carries, PhaseLocals, HandoverRecorded, QuietBeforeHandover
    <2>8. /\ HandoverRecorded'
          /\ ResultsFirst'
          /\ DrainedIsTravelling'
        BY <1>15 DEF Dispatch, IsFirst, DrainedIsTravelling, HandoverRecorded,
           ResultsFirst
    <2> QED
        BY <2>1, <2>2, <2>3, <2>4, <2>5, <2>6, <2>7, <2>8
<1>16. ASSUME CycleEnds
      PROVE IInv'
    <2>1. PhaseLocals'
        BY <1>16 DEF CycleEnds, PhaseLocals
    <2>2. ResultsAreTold'
        BY <1>16 DEF CycleEnds, ResultsAreTold, Held, CarriedIsUndecided, OneCarrier,
           Carries
    <2>3. NoResultLost'
        BY <1>16 DEF CycleEnds, NoResultLost, Held, DrainedIsTravelling, ResultsFirst,
           ResultsAreTold, SettledIsTold, CarriedIsUndecided, OneCarrier, Carries,
           PhaseLocals, HandoverRecorded, QuietBeforeHandover
    <2>4. /\ HandoverRecorded'
          /\ QuietBeforeHandover'
          /\ CarriedIsUndecided'
          /\ AtMostOnce'
          /\ SettledIsTold'
          /\ ResultsFirst'
          /\ DrainedIsTravelling'
        BY <1>16 DEF CycleEnds, CarriedIsUndecided, Carries, DrainedIsTravelling,
           HandoverRecorded, OneCarrier, QuietBeforeHandover, ResultsFirst,
           SettledIsTold, AtMostOnce
    <2> QED
        BY <2>1, <2>2, <2>3, <2>4
<1>17. ASSUME NEW inside \in BOOLEAN, Crash(inside)
      PROVE IInv'
    <2>1. PhaseLocals'
        BY <1>17 DEF Crash, PhaseLocals
    <2>4. /\ batch' = {} /\ executed' = {} /\ UNCHANGED <<status, handed, ex, told>>
        BY <1>17 DEF Crash
    <2>5. ran' = [id \in Ids |-> IF inside /\ Running(id) THEN ran[id] + 1
                                                          ELSE ran[id]]
        BY <1>17 DEF Crash
    <2>6. \A id \in Ids : \/ ran'[id] = ran[id]
                          \/ id \in batch /\ ran'[id] = ran[id] + 1
        BY <2>5 DEF Running, IsFirst
    <2>2. QuietBeforeHandover' /\ CarriedIsUndecided' /\ AtMostOnce'
        BY <2>4, <2>6 DEF QuietBeforeHandover, CarriedIsUndecided, OneCarrier, Carries,
           AtMostOnce
    <2>3. NoResultLost'
        <3> SUFFICES ASSUME NEW id \in Ids, told[id] # "none", status[id] # told[id]
                     PROVE  id \in forgotten'
            BY <1>17 DEF Crash, NoResultLost
        <3>1. CASE [id |-> id, status |-> told[id]] \in Held
            <4>1. id \in {r.id : r \in Held}
                BY <3>1
            <4> QED
                BY <1>17, <4>1 DEF Crash
        <3>2. CASE id \in forgotten
            BY <1>17, <3>2 DEF Crash
        <3> QED
            BY <3>1, <3>2 DEF NoResultLost
    <2> QED
        BY <1>17, <2>1, <2>2, <2>3
        DEF Crash, HandoverRecorded, ResultsAreTold, Held,
            SettledIsTold, ResultsFirst, DrainedIsTravelling
<1>18. CASE UNCHANGED vars
    BY <1>18 DEF vars, CarriedIsUndecided, Carries, DrainedIsTravelling,
       HandoverRecorded, Held, NoResultLost, OneCarrier, PhaseLocals,
       QuietBeforeHandover, ResultsAreTold, ResultsFirst, SettledIsTold,
       AtMostOnce
<1> QED
    BY <1>1, <1>2, <1>3, <1>4, <1>5, <1>6, <1>7, <1>8, <1>9, <1>10, <1>11, <1>12,
       <1>13, <1>14, <1>15, <1>16, <1>17, <1>18
    DEF Next, Server, Agent

\* The invariant holds of an empty command table and a fresh process.
LEMMA InitInv == Init => IInv
<1> SUFFICES ASSUME Init PROVE IInv
    OBVIOUS
<1>1. TypeOK
    BY InitTyped
<1>2. \A c \in Conns : ex[c].acks = {} /\ ex[c].claimed = {}
    BY DEF Init, Free
<1>3. /\ PhaseLocals /\ HandoverRecorded /\ QuietBeforeHandover /\ CarriedIsUndecided
      /\ AtMostOnce /\ ResultsFirst /\ DrainedIsTravelling
    BY <1>2 DEF Init, PhaseLocals, HandoverRecorded, QuietBeforeHandover,
       CarriedIsUndecided, OneCarrier, Carries, Untouched, AtMostOnce,
       ResultsFirst, DrainedIsTravelling
<1>4. ResultsAreTold /\ SettledIsTold /\ NoResultLost
    BY <1>2 DEF Init, ResultsAreTold, Held, SettledIsTold, Genuine, NoResultLost
<1> QED
    BY <1>1, <1>3, <1>4 DEF IInv

\* The invariant holds in every reachable state.
LEMMA Invariance == Spec => []IInv
BY InitInv, Inductive, PTL DEF Spec

\* No handler runs twice, for any number of commands, retries and crashes.
THEOREM RunsAtMostOnce == Spec => []AtMostOnce
<1>1. IInv => AtMostOnce
    BY DEF IInv
<1> QED
    BY <1>1, Invariance, PTL

\* A command travels in one response only.
THEOREM DeliveredToOne == Spec => []OneCarrier
<1>1. IInv => OneCarrier
    BY DEF IInv, CarriedIsUndecided
<1> QED
    BY <1>1, Invariance, PTL

\* A failing check-in loses no outcome; only the death of the process does.
THEOREM ResultsSurvive == Spec => []NoResultLost
<1>1. IInv => NoResultLost
    BY DEF IInv
<1> QED
    BY <1>1, Invariance, PTL
---------------------------------------------------------------------------
(* Refinement: every step is a step of the lifecycle or changes none of it.      *)

\* A step taken in a state of the invariant is a lifecycle step or a stutter.
LEMMA StepSimulation == IInv /\ [Next]_vars => [Lifecycle!Next]_(Lifecycle!vars)
<1> SUFFICES ASSUME IInv, [Next]_vars
             PROVE  Lifecycle!Next \/ UNCHANGED Lifecycle!vars
    OBVIOUS
<1> USE DEF IInv, TypeOK, tableVars, agentVars, history, Genuine, Lifecycle!vars,
            Lifecycle!Genuine
<1>1. ASSUME NEW id \in Ids, Queue(id) PROVE Lifecycle!Queue(id)
    BY <1>1 DEF Queue, Lifecycle!Queue
<1>2. ASSUME NEW c \in Conns, NEW r \in Results, MarkResult(c, r)
      PROVE  Lifecycle!Settle(r.id) \/ UNCHANGED Lifecycle!vars
    <2>1. told[r.id] = r.status /\ r.status # "none"
        BY <1>2 DEF MarkResult, ResultsAreTold, Results
    <2> QED
        BY <1>2, <2>1 DEF MarkResult, Recordable, Lifecycle!Settle
<1>3. ASSUME NEW c \in Conns, ExpireStale(c) PROVE Lifecycle!Expire(Overdue)
    BY <1>3 DEF ExpireStale, Overdue, Lifecycle!Expire
<1>4. ASSUME NEW c \in Conns, NEW id \in Ids, Claim(c, id)
      PROVE  Lifecycle!HandOver(id) \/ UNCHANGED Lifecycle!vars
    BY <1>4 DEF Claim, Claimable, Lifecycle!HandOver
<1>5. ASSUME NEW id \in Ids, NEW known \in BOOLEAN, NEW outcome \in Genuine,
             Dispatch(id, known, outcome)
      PROVE  Lifecycle!Decide(id, outcome)
    <2>1. id \in batch /\ (known \/ outcome = "unsupported")
        BY <1>5 DEF Dispatch, IsFirst
    <2>2. told[id] = "none" /\ id \notin executed /\ handed[id] /\ ran[id] = 0
        BY <2>1 DEF CarriedIsUndecided, Untouched, QuietBeforeHandover
    <2>3. /\ told' = [told EXCEPT ![id] = outcome]
          /\ ran' = IF known THEN [ran EXCEPT ![id] = ran[id] + 1] ELSE ran
          /\ UNCHANGED <<status, handed>>
        BY <1>5, <2>2 DEF Dispatch
    <2> QED
        BY <2>1, <2>2, <2>3 DEF Lifecycle!Decide
<1>6. ASSUME \/ \E id \in Ids : Elapse(id)
             \/ \E c \in Conns : \/ Receive(c) \/ ResultsDone(c) \/ ListPending(c)
                                 \/ Reply(c) \/ Break(c) \/ Resend(c) \/ Deliver(c)
             \/ \E c \in Conns, caps \in SUBSET Caps : Send(c, caps)
             \/ CycleFails \/ CycleEnds
             \/ UNCHANGED vars
      PROVE  UNCHANGED Lifecycle!vars
    BY <1>6 DEF Elapse, Receive, ResultsDone, ListPending, Reply, Break, Resend,
       Deliver, Send, CycleFails, CycleEnds, vars
<1>7. Overdue \in SUBSET Ids
    BY DEF Overdue
<1>9. ASSUME NEW inside \in BOOLEAN, Crash(inside)
      PROVE  Lifecycle!Abort({id \in Ids : inside /\ Running(id)})
    <2>1. \A id \in Ids : Running(id) => handed[id] /\ told[id] = "none" /\ ran[id] = 0
        BY DEF Running, IsFirst, QuietBeforeHandover, CarriedIsUndecided, Untouched
    <2> QED
        BY <1>9, <2>1 DEF Crash, Lifecycle!Abort
<1>8. \A r \in Results : r.id \in Ids
    BY DEF Results
<1> QED
    BY <1>1, <1>2, <1>3, <1>4, <1>5, <1>6, <1>7, <1>8, <1>9
    DEF Next, Server, Agent, Lifecycle!Next

\* The table, its handlers and the device together implement the lifecycle.
THEOREM Implementation == Spec => ImplementsLifecycle
<1>1. Init => Lifecycle!Init
    BY DEF Init, Lifecycle!Init
<1> QED
    BY <1>1, Invariance, StepSimulation, PTL
    DEF Spec, ImplementsLifecycle, Lifecycle!Spec
---------------------------------------------------------------------------
(* The order of the queue: a list is claimed in id order, a pending row is on    *)
(* every list unless that list's gate left it out, and the device hears the      *)
(* exchange it sent last only. So what can still run has only those later        *)
(* commands before it that a gate let pass it.                                   *)

Passed(id, later) == <<id, later>> \in skipped
Past(id) == status[id] \notin {"none", "pending"}
InTurn(id) == \A later \in Ids : later > id /\ ran[later] # 0 => Passed(id, later)

Ordered ==
    \* rows are inserted in id order
    /\ \A id, later \in Ids : id < later /\ status[later] # "none" => status[id] # "none"
    \* what precedes a listed row is listed with it, or claimed or settled already
    /\ \A c \in Conns : \A later \in ex[c].todo :
          /\ status[later] # "none"
          /\ \A id \in Ids : id < later => id \in ex[c].todo \/ Past(id) \/ Passed(id, later)
    \* nothing is handed over before an earlier row no handler left out is past
    /\ \A later \in Ids : handed[later] => \A id \in Ids : id < later => Past(id) \/ Passed(id, later)
    \* what the device may still run has nothing later behind it
    /\ phase # "waiting" => awaited = {}
    /\ \A c \in awaited, id \in Ids : Carries(c, id) => InTurn(id)
    /\ \A id \in batch : InTurn(id)

\* A step that keeps rows past, lists and handovers, and runs nothing.
LEMMA OrderedStays ==
    ASSUME IInv, Ordered, UNCHANGED <<handed, ran, skipped>>,
           \A id \in Ids : (Past(id) => Past(id)') /\ (status'[id] = "none" <=> status[id] = "none"),
           \A c \in Conns : ex'[c].todo \subseteq ex[c].todo,
           \A c \in Conns : \A id \in ex[c].todo : id \in ex'[c].todo \/ Past(id)' \/ ex'[c].todo = {},
           \A c \in Conns : ex'[c].claimed \subseteq ex[c].claimed,
           \A c \in awaited' : c \in awaited \/ ex'[c].claimed = {},
           phase' # "waiting" => awaited' = {},
           batch' \subseteq batch, ex' \in [Conns -> Exchanges], awaited' \subseteq Conns
    PROVE  Ordered'
<1> USE DEF IInv, TypeOK
<1>1. \A id, later \in Ids : id < later /\ status'[later] # "none" => status'[id] # "none"
    BY DEF Ordered
<1>2. ASSUME NEW c \in Conns, NEW later \in ex'[c].todo
      PROVE  /\ status'[later] # "none"
             /\ \A id \in Ids : id < later => id \in ex'[c].todo \/ Past(id)' \/ Passed(id, later)'
    <2>1. later \in ex[c].todo /\ later \in Ids
        BY <1>2 DEF Exchanges
    <2>2. ASSUME NEW id \in Ids, id < later PROVE id \in ex'[c].todo \/ Past(id)' \/ Passed(id, later)'
        BY <1>2, <2>1, <2>2 DEF Ordered, Passed
    <2> QED
        BY <2>1, <2>2 DEF Ordered
<1>3. \A later \in Ids : handed'[later] => \A id \in Ids : id < later => Past(id)' \/ Passed(id, later)'
    BY DEF Ordered, Passed
<1>4. \A c \in awaited', id \in Ids : Carries(c, id)' => InTurn(id)'
    BY DEF Ordered, Carries, InTurn, Passed
<1>5. \A id \in batch' : InTurn(id)'
    BY DEF Ordered, InTurn, Passed
<1> QED
    BY <1>1, <1>2, <1>3, <1>4, <1>5 DEF Ordered, Passed

LEMMA OrderedNext ==
    ASSUME IInv, IInv', Ordered, [Next]_vars
    PROVE  /\ Ordered'
           /\ \A id \in Ids : ran'[id] # ran[id] => InTurn(id)
<1> USE DEF IInv, TypeOK, tableVars, agentVars, history
<1>0. phase # "waiting" => awaited = {}
    BY DEF Ordered
<1> DEFINE Asked == \A id \in Ids : ran'[id] # ran[id] => InTurn(id)
<1>1. ASSUME NEW id \in Ids, Queue(id) PROVE Ordered' /\ Asked
    <2>1. \A other \in Ids : /\ Past(other) => Past(other)'
                             /\ status'[other] # "none" <=> status[other] # "none" \/ other = id
        BY <1>1 DEF Queue, Past
    <2>2. UNCHANGED <<handed, ex, awaited, batch, ran, phase, skipped>>
        BY <1>1 DEF Queue
    <2>3. \A a, b \in Ids : a < b /\ status'[b] # "none" => status'[a] # "none"
        <3> SUFFICES ASSUME NEW a \in Ids, NEW b \in Ids, a < b, status'[b] # "none"
                     PROVE  status'[a] # "none"
            OBVIOUS
        <3> QED
            BY <1>1, <2>1 DEF Queue, Ordered
    <2>4. \A c \in Conns : ex[c].todo \subseteq Ids
        BY DEF Exchanges
    <2>5. \A c \in Conns : \A later \in ex'[c].todo :
             /\ status'[later] # "none"
             /\ \A x \in Ids : x < later => x \in ex'[c].todo \/ Past(x)' \/ Passed(x, later)'
        BY <2>1, <2>2, <2>4 DEF Ordered, Passed
    <2>6. \A later \in Ids : handed'[later] => \A x \in Ids : x < later => Past(x)' \/ Passed(x, later)'
        <3> SUFFICES ASSUME NEW later \in Ids, handed'[later], NEW x \in Ids, x < later PROVE Past(x)' \/ Passed(x, later)'
            OBVIOUS
        <3>1. handed[later]
            BY <2>2
        <3>2. Past(x) \/ Passed(x, later)
            BY <3>1 DEF Ordered
        <3> QED
            BY <2>1, <2>2, <3>2 DEF Passed
    <2>7. \A c \in awaited', x \in Ids : Carries(c, x)' => InTurn(x)'
        BY <2>2 DEF Ordered, Carries, InTurn, Passed
    <2>8. \A x \in batch' : InTurn(x)'
        BY <2>2 DEF Ordered, InTurn, Passed
    <2>9. Ordered'
        BY <1>0, <2>2, <2>3, <2>5, <2>6, <2>7, <2>8 DEF Ordered, Passed
    <2> QED
        BY <2>2, <2>9
<1>2. ASSUME NEW id \in Ids, Elapse(id) PROVE Ordered' /\ Asked
    <2>1. UNCHANGED <<status, handed, ex, awaited, batch, ran, phase, skipped>>
        BY <1>2 DEF Elapse
    <2> QED
        BY <2>1 DEF Ordered, Carries, InTurn, Passed, Past
\* The handler's statements that neither list nor claim, and what breaks an exchange.
<1>3. ASSUME NEW c \in Conns,
             Receive(c) \/ (\E r \in Results : MarkResult(c, r)) \/ ResultsDone(c) \/ ExpireStale(c)
             \/ Reply(c) \/ Break(c)
      PROVE  Ordered' /\ Asked
    <2>1. UNCHANGED <<handed, ran, awaited, batch, phase, skipped>>
        BY <1>3 DEF Receive, MarkResult, ResultsDone, ExpireStale, Reply, Break
    <2>2. \A id \in Ids : (Past(id) => Past(id)') /\ (status'[id] = "none" <=> status[id] = "none")
        <3>1. CASE Receive(c) \/ ResultsDone(c) \/ Reply(c) \/ Break(c)
            BY <3>1 DEF Receive, ResultsDone, Reply, Break, Past
        <3>2. ASSUME NEW r \in Results, MarkResult(c, r)
              PROVE  \A id \in Ids : (Past(id) => Past(id)') /\ (status'[id] = "none" <=> status[id] = "none")
            <4>1. r.status \in Genuine /\ r.id \in Ids /\ told[r.id] = r.status
                BY <3>2 DEF MarkResult, Results, ResultsAreTold
            <4>2. status[r.id] # "none"
                BY <4>1 DEF HandoverRecorded, QuietBeforeHandover, Untouched, Genuine
            <4> QED
                BY <3>2, <4>1, <4>2 DEF MarkResult, Past, Genuine
        <3>3. CASE ExpireStale(c)
            BY <3>3 DEF ExpireStale, Overdue, Past
        <3> QED
            BY <1>3, <3>1, <3>2, <3>3
    <2>3. \A d \in Conns : /\ ex'[d].todo = ex[d].todo \/ ex'[d].todo = {}
                           /\ ex'[d].claimed \subseteq ex[d].claimed
        <3>1. ex[c] \in Exchanges
            OBVIOUS
        <3>2. CASE Receive(c) \/ ResultsDone(c) \/ ExpireStale(c) \/ Reply(c)
            BY <3>1, <3>2 DEF Receive, ResultsDone, ExpireStale, Reply, Exchanges
        <3>3. CASE \E r \in Results : MarkResult(c, r)
            BY <3>1, <3>3 DEF MarkResult, Exchanges
        <3>4. CASE Break(c)
            BY <3>4 DEF Break, Free
        <3> QED
            BY <1>3, <3>2, <3>3, <3>4
    <2>4. Ordered'
        BY <1>0, <2>1, <2>2, <2>3, OrderedStays
    <2> QED
        BY <2>1, <2>4
<1>4. ASSUME NEW c \in Conns, ListPending(c) PROVE Ordered' /\ Asked
    <2>1. UNCHANGED <<status, handed, awaited, batch, ran, phase>> /\ ex[c] \in Exchanges
        BY <1>4 DEF ListPending
    <2>0. skipped' = skipped \cup (LeftOut(ex[c].caps) \X Listed(ex[c].caps))
        BY <1>4 DEF ListPending
    <2>2. PICK e : e = [ex[c] EXCEPT !.at = "claim", !.caps = {}, !.todo = Listed(ex[c].caps)]
        OBVIOUS
    <2>3. e.todo = Listed(ex[c].caps) /\ e.claimed = ex[c].claimed /\ ex' = [ex EXCEPT ![c] = e]
        BY <1>4, <2>1, <2>2 DEF ListPending, Exchanges
    <2>4. \A d \in Conns : ex'[d] = IF d = c THEN e ELSE ex[d]
        BY <2>3
    <2>5. ASSUME NEW later \in Listed(ex[c].caps)
          PROVE  /\ status[later] # "none"
                 /\ \A id \in Ids : id < later => id \in Listed(ex[c].caps) \/ Past(id) \/ Passed(id, later)'
        <3>1. later \in Ids /\ status[later] = "pending"
            BY <2>5 DEF Listed
        <3>2. \A id \in Ids : id < later => status[id] # "none"
            BY <3>1 DEF Ordered
        <3>3. \A id \in LeftOut(ex[c].caps) : Passed(id, later)'
            BY <2>0, <2>5 DEF Passed
        <3> QED
            BY <3>1, <3>2, <3>3 DEF Listed, LeftOut, Past
    <2>6. \A x, later \in Ids : Passed(x, later) => Passed(x, later)'
        BY <2>0 DEF Passed
    <2>7. \A d \in Conns : \A later \in ex'[d].todo :
             /\ status'[later] # "none"
             /\ \A id \in Ids : id < later => id \in ex'[d].todo \/ Past(id)' \/ Passed(id, later)'
        <3> SUFFICES ASSUME NEW d \in Conns, NEW later \in ex'[d].todo
                     PROVE  /\ status'[later] # "none"
                            /\ \A id \in Ids : id < later => id \in ex'[d].todo \/ Past(id)' \/ Passed(id, later)'
            OBVIOUS
        <3>1. CASE d = c
            BY <2>1, <2>3, <2>4, <2>5, <3>1 DEF Past
        <3>2. CASE d # c
            <4>1. later \in ex[d].todo /\ later \in Ids /\ ex'[d] = ex[d]
                BY <2>4, <3>2 DEF Exchanges
            <4> QED
                BY <2>1, <2>6, <4>1 DEF Ordered, Past
        <3> QED
            BY <3>1, <3>2
    <2>8. \A x \in Ids : InTurn(x) => InTurn(x)'
        BY <2>1, <2>6 DEF InTurn
    <2>9. \A d \in awaited', id \in Ids : Carries(d, id)' => InTurn(id)'
        BY <2>1, <2>3, <2>4, <2>8 DEF Ordered, Carries
    <2>10. \A later \in Ids : handed'[later] => \A x \in Ids : x < later => Past(x)' \/ Passed(x, later)'
        BY <2>1, <2>6 DEF Ordered, Past
    <2> QED
        BY <2>1, <2>7, <2>8, <2>9, <2>10 DEF Ordered, Past
<1>5. ASSUME NEW c \in Conns, NEW id \in Ids, Claim(c, id) PROVE Ordered' /\ Asked
    <2>1. UNCHANGED <<awaited, batch, ran, phase, skipped>> /\ ex[c] \in Exchanges /\ IsFirst(id, ex[c].todo)
        BY <1>5 DEF Claim
    <2>2. id \in ex[c].todo /\ \A earlier \in Ids : earlier < id => earlier \notin ex[c].todo
        BY <2>1 DEF IsFirst, Ids
    <2>3. CASE ~Claimable(id)
        <3>1. UNCHANGED <<status, handed>> /\ ex' = [ex EXCEPT ![c].todo = ex[c].todo \ {id}]
            BY <1>5, <2>3 DEF Claim
        <3>2. Past(id)
            BY <2>2, <2>3 DEF Ordered, Claimable, Past
        <3>3. PICK T : T = ex[c].todo \ {id}
            OBVIOUS
        <3>4. \A d \in Conns : /\ ex'[d].todo = IF d = c THEN T ELSE ex[d].todo
                               /\ ex'[d].claimed = ex[d].claimed
            BY <2>1, <3>1, <3>3 DEF Exchanges
        <3>5. Ordered'
            <4>1. \A x \in Ids : (Past(x) => Past(x)') /\ (status'[x] = "none" <=> status[x] = "none")
                BY <3>1 DEF Past
            <4>2. /\ \A d \in Conns : ex'[d].todo \subseteq ex[d].todo
                  /\ \A d \in Conns : \A x \in ex[d].todo : x \in ex'[d].todo \/ Past(x)' \/ ex'[d].todo = {}
                BY <3>1, <3>2, <3>3, <3>4 DEF Past
            <4> QED
                BY <1>0, <2>1, <3>1, <3>4, <4>1, <4>2, OrderedStays
        <3> QED
            BY <2>1, <3>5
    <2>4. CASE Claimable(id)
        <3>1. PICK e : e = [ex[c] EXCEPT !.todo = ex[c].todo \ {id}, !.claimed = ex[c].claimed \cup {id}]
            OBVIOUS
        <3>2. /\ e.todo = ex[c].todo \ {id} /\ e.claimed = ex[c].claimed \cup {id}
              /\ ex' = [ex EXCEPT ![c] = e]
              /\ status' = [status EXCEPT ![id] = "delivered"] /\ handed' = [handed EXCEPT ![id] = TRUE]
            BY <1>5, <2>1, <2>4, <3>1 DEF Claim, Exchanges
        <3>3. \A d \in Conns : ex'[d] = IF d = c THEN e ELSE ex[d]
            BY <3>2
        <3>4. /\ status[id] = "pending"
              /\ \A x \in Ids : /\ Past(x)' <=> Past(x) \/ x = id
                                /\ status'[x] # "none" <=> status[x] # "none"
            BY <2>4, <3>2 DEF Claimable, Past
        <3>5. \A x \in Ids : x < id => Past(x) \/ Passed(x, id)
            BY <2>2 DEF Ordered
        <3>6. \A x \in Ids : handed'[x] <=> handed[x] \/ x = id
            BY <3>2
        <3>7. InTurn(id)
            <4> SUFFICES ASSUME NEW later \in Ids, later > id, ran[later] # 0 PROVE Passed(id, later)
                BY DEF InTurn
            <4>1. handed[later]
                BY DEF QuietBeforeHandover, Untouched
            <4> QED
                BY <3>4, <4>1 DEF Ordered, Past, Ids
        <3>8. \A d \in Conns : \A later \in ex'[d].todo :
                 /\ status'[later] # "none"
                 /\ \A x \in Ids : x < later => x \in ex'[d].todo \/ Past(x)' \/ Passed(x, later)'
            <4> SUFFICES ASSUME NEW d \in Conns, NEW later \in ex'[d].todo
                         PROVE  /\ status'[later] # "none"
                                /\ \A x \in Ids : x < later => x \in ex'[d].todo \/ Past(x)' \/ Passed(x, later)'
                OBVIOUS
            <4>1. later \in ex[d].todo /\ later \in Ids
                BY <3>2, <3>3 DEF Exchanges
            <4> QED
                BY <2>1, <3>2, <3>3, <3>4, <4>1 DEF Ordered, Passed
        <3>9. \A a, b \in Ids : a < b /\ status'[b] # "none" => status'[a] # "none"
            BY <3>4 DEF Ordered
        <3>10. \A later \in Ids : handed'[later] => \A x \in Ids : x < later => Past(x)' \/ Passed(x, later)'
            BY <2>1, <3>4, <3>5, <3>6 DEF Ordered, Passed
        <3>11. \A d \in awaited', x \in Ids : Carries(d, x)' => InTurn(x)'
            BY <2>1, <3>2, <3>3, <3>7 DEF Ordered, Carries, InTurn, Passed
        <3>12. \A x \in batch' : InTurn(x)'
            BY <2>1 DEF Ordered, InTurn, Passed
        <3>13. Ordered'
            BY <2>1, <3>8, <3>9, <3>10, <3>11, <3>12 DEF Ordered, Passed
        <3> QED
            BY <2>1, <3>13
    <2> QED
        BY <2>3, <2>4
\* A request on a connection that was free carries nothing.
<1>6. ASSUME NEW c \in Conns, Resend(c) \/ \E caps \in SUBSET Caps : Send(c, caps)
      PROVE  Ordered' /\ Asked
    <2>1. PICK caps, R : /\ ex' = [ex EXCEPT ![c] = [Free EXCEPT !.at = "sent", !.caps = caps, !.acks = R]]
                         /\ awaited' = {c} /\ phase' = "waiting" /\ UNCHANGED <<status, handed, ran, batch, skipped>>
        BY <1>6 DEF Resend, Send
    <2>2. PICK e : e = [Free EXCEPT !.at = "sent", !.caps = caps, !.acks = R]
        OBVIOUS
    <2>3. e.todo = {} /\ e.claimed = {}
        BY <2>2 DEF Free
    <2>4. \A d \in Conns : ex'[d] = IF d = c THEN e ELSE ex[d]
        BY <2>1, <2>2
    <2>5. \A x \in Ids : (Past(x) => Past(x)') /\ (status'[x] = "none" <=> status[x] = "none")
        BY <2>1 DEF Past
    <2>6. Ordered'
        BY <2>1, <2>3, <2>4, <2>5, OrderedStays
    <2> QED
        BY <2>1, <2>6
<1>7. ASSUME NEW c \in Conns, Deliver(c) PROVE Ordered' /\ Asked
    <2>1. /\ c \in awaited /\ batch' = ex[c].claimed /\ ex' = [ex EXCEPT ![c] = Free] /\ awaited' = {}
          /\ UNCHANGED <<status, handed, ran, skipped>>
        BY <1>7 DEF Deliver
    <2>2. \A d \in Conns : ex'[d] = IF d = c THEN Free ELSE ex[d]
        BY <2>1
    <2>3. \A id \in batch' : InTurn(id)'
        BY <2>1 DEF Ordered, Carries, InTurn, Passed, Exchanges
    <2>4. Free.todo = {}
        BY DEF Free
    <2>5. \A d \in Conns : \A later \in ex'[d].todo :
             /\ status'[later] # "none"
             /\ \A id \in Ids : id < later => id \in ex'[d].todo \/ Past(id)' \/ Passed(id, later)'
        BY <2>1, <2>2, <2>4 DEF Ordered, Past, Passed
    <2>6. Ordered'
        BY <2>1, <2>3, <2>5 DEF Ordered, Passed, Past
    <2> QED
        BY <2>1, <2>6
<1>8. ASSUME CycleFails \/ CycleEnds PROVE Ordered' /\ Asked
    <2>1. UNCHANGED <<status, handed, ex, ran, batch, skipped>> /\ awaited' = {}
        BY <1>8 DEF CycleFails, CycleEnds, Ordered
    <2> QED
        BY <2>1 DEF Ordered, Carries, InTurn, Passed, Past
<1>9. ASSUME NEW id \in Ids, NEW known \in BOOLEAN, NEW outcome \in Genuine, Dispatch(id, known, outcome)
      PROVE  Ordered' /\ Asked
    <2>1. /\ IsFirst(id, batch) /\ batch' = batch \ {id} /\ phase = "dispatching"
          /\ UNCHANGED <<status, handed, ex, awaited, skipped>>
        BY <1>9 DEF Dispatch
    <2>2. \A other \in Ids : other # id => ran'[other] = ran[other]
        BY <1>9 DEF Dispatch
    <2>3. InTurn(id)
        BY <2>1 DEF Ordered, IsFirst
    <2>4. \A other \in batch' : id < other
        BY <2>1 DEF IsFirst, Ids
    <2>5. \A other \in batch' : InTurn(other)'
        BY <2>1, <2>2, <2>4 DEF Ordered, InTurn, Passed, Ids
    <2>6. \A c \in awaited', x \in Ids : Carries(c, x)' => InTurn(x)'
        <3> SUFFICES ASSUME NEW c \in awaited, NEW x \in Ids, Carries(c, x)
                     PROVE  InTurn(x)'
            BY <2>1 DEF Carries
        <3> QED
            BY <2>1 DEF Ordered
    <2>7. Ordered'
        BY <2>1, <2>5, <2>6 DEF Ordered, Passed, Past
    <2> QED
        BY <2>2, <2>3, <2>7
<1>10. ASSUME NEW inside \in BOOLEAN, Crash(inside) PROVE Ordered' /\ Asked
    <2>1. UNCHANGED <<status, handed, ex, skipped>> /\ batch' = {} /\ awaited' = {}
        BY <1>10 DEF Crash
    <2>2. \A id \in Ids : ran'[id] # ran[id] => id \in batch
        BY <1>10 DEF Crash, Running, IsFirst
    <2>3. Ordered'
        BY <2>1 DEF Ordered, Passed, Past
    <2> QED
        BY <2>2, <2>3 DEF Ordered
<1>11. ASSUME UNCHANGED vars PROVE Ordered' /\ Asked
    BY <1>11 DEF vars, Ordered, Carries, InTurn, Passed, Past
<1> QED
    BY <1>1, <1>2, <1>3, <1>4, <1>5, <1>6, <1>7, <1>8, <1>9, <1>10, <1>11 DEF Next, Server, Agent

\* Handlers run in the order the commands were queued: what runs after a later command was
\* held back by the capability gate of a check-in whose list took the later one (InOrder).
THEOREM RunsInOrder == Spec => InOrder
<1>1. IInv /\ IInv' /\ Ordered /\ [Next]_vars => Ordered'
    BY OrderedNext
<1>2. IInv /\ IInv' /\ Ordered /\ [Next]_vars =>
        [\A id \in Ids : ran'[id] # ran[id] =>
            \A later \in Ids : later > id /\ ran[later] > 0 => <<id, later>> \in skipped]_vars
    <2> SUFFICES ASSUME IInv, IInv', Ordered, [Next]_vars, NEW id \in Ids, ran'[id] # ran[id],
                        NEW later \in Ids, later > id, ran[later] > 0
                 PROVE  <<id, later>> \in skipped
        OBVIOUS
    <2>1. InTurn(id)
        BY OrderedNext
    <2> QED
        BY <2>1 DEF InTurn, Passed
<1>3. Init => Ordered
    <2>1. ASSUME Init PROVE \A c \in Conns : ex[c].todo = {}
        BY <2>1 DEF Init, Free
    <2> QED
        BY <2>1 DEF Init, Ordered
<1> QED
    BY Invariance, <1>1, <1>2, <1>3, PTL DEF Spec, InOrder
============================================================================
