------------------------- MODULE CommandDelivery -------------------------
(* The agent v1 command channel of one device: the server's command table, the   *)
(* check-in handler (any number of them may run at once for one device, since a  *)
(* device that gave up on a slow check-in starts another), the HTTP exchange     *)
(* between the two and the device's check-in cycle.                              *)
(*                                                                               *)
(* The handler of AgentResource.checkin holds no transaction: every statement    *)
(* commits alone, so each is a step here, and other handlers step in between.    *)
(* An exchange that breaks (request lost, server error or restart half way,      *)
(* response lost) leaves behind what its statements already did. The device runs *)
(* one cycle at a time (CheckInCoordinator's mutex) and keeps its undelivered    *)
(* results and its set of executed commands in memory only.                      *)
(*                                                                               *)
(* Time is one bit per command: stale[id] says that the time limit of the        *)
(* command's present status (60 minutes pending, 6 hours delivered) has passed.  *)
EXTENDS Naturals, FiniteSets

CONSTANTS MaxId,         \* bound: command ids are 1..MaxId, in insertion order
          Conns,         \* bound: HTTP exchanges that can be open at once
          Caps,          \* capability tokens
          NoCap,         \* the requiresCapability of a command that needs none
          Requires       \* each command's requiresCapability

Ids == 1..MaxId

ASSUME DeliveryAssumption ==
    /\ MaxId \in Nat
    /\ NoCap \notin Caps
    /\ Requires \in [Ids -> Caps \cup {NoCap}]

VARIABLES status,        \* agentCommand.status; "none" before the insert
          handed,        \* agentCommand.deliveredAt is not null
          stale,         \* the time limit of the command's status has passed
          ex,            \* the HTTP exchanges, each with its handler's locals
          phase,         \* what the device's check-in cycle is doing
          awaited,       \* the exchange the waiting cycle awaits, as a set
          offered,       \* the capabilities in the cycle's request
          acks,          \* results the waiting cycle drained for its request
          buffer,        \* PendingResults: results for the next check-in
          batch,         \* commands of the response still to be dispatched
          fresh,         \* results of this batch, not yet in the buffer
          executed,      \* CommandDispatcher.executed: ids this process started
          ran,           \* history: times each command's handler was invoked
          told,          \* history: the outcome the device decided for each
          forgotten,     \* history: commands whose result died with a process
          skipped        \* history: pairs of rows, the later listed by a handler
                         \* whose gate left the earlier one pending

tableVars == <<status, handed, stale>>
agentVars == <<phase, awaited, offered, acks, buffer, batch, fresh, executed>>
history == <<ran, told, forgotten, skipped>>
vars == <<status, handed, stale, ex, phase, awaited, offered, acks, buffer, batch,
          fresh, executed, ran, told, forgotten, skipped>>

\* The statuses markResultWithTime never overwrites, and the ones a device reports.
Genuine == {"done", "failed", "unsupported"}
Statuses == {"none", "pending", "delivered", "expired"} \cup Genuine
Results == [id : Ids, status : Genuine]

\* Where an exchange is: request in flight, the handler's statements, reply in flight.
Stages == {"free", "sent", "results", "expire", "list", "claim", "replied"}
Exchanges == [at : Stages, caps : SUBSET Caps, acks : SUBSET Results,
              todo : SUBSET Ids, claimed : SUBSET Ids]
Free == [at |-> "free", caps |-> {}, acks |-> {}, todo |-> {}, claimed |-> {}]

TypeOK ==
    /\ status \in [Ids -> Statuses]
    /\ handed \in [Ids -> BOOLEAN]
    /\ stale \in [Ids -> BOOLEAN]
    /\ ex \in [Conns -> Exchanges]
    /\ phase \in {"idle", "waiting", "dispatching"}
    /\ awaited \subseteq Conns
    /\ offered \subseteq Caps
    /\ acks \subseteq Results
    /\ buffer \subseteq Results
    /\ batch \subseteq Ids
    /\ fresh \subseteq Results
    /\ executed \subseteq Ids
    /\ ran \in [Ids -> Nat]
    /\ told \in [Ids -> Genuine \cup {"none"}]
    /\ forgotten \subseteq Ids
    /\ skipped \subseteq Ids \X Ids

Init ==
    /\ status = [id \in Ids |-> "none"]
    /\ handed = [id \in Ids |-> FALSE]
    /\ stale = [id \in Ids |-> FALSE]
    /\ ex = [c \in Conns |-> Free]
    /\ phase = "idle"
    /\ awaited = {}
    /\ offered = {}
    /\ acks = {}
    /\ buffer = {}
    /\ batch = {}
    /\ fresh = {}
    /\ executed = {}
    /\ ran = [id \in Ids |-> 0]
    /\ told = [id \in Ids |-> "none"]
    /\ forgotten = {}
    /\ skipped = {}
---------------------------------------------------------------------------
(* The administrator and the clock. *)

\* queueCommand, its bulk form and syncApps insert rows as pending; ids come from a
\* sequence.
Queue(id) ==
    /\ status[id] = "none"
    /\ \A earlier \in Ids : earlier < id => status[earlier] # "none"
    /\ status' = [status EXCEPT ![id] = "pending"]
    /\ UNCHANGED <<handed, stale, ex, agentVars, history>>

\* The time limit of the command's present status passes.
Elapse(id) ==
    /\ status[id] \in {"pending", "delivered"}
    /\ ~stale[id]
    /\ stale' = [stale EXCEPT ![id] = TRUE]
    /\ UNCHANGED <<status, handed, ex, agentVars, history>>
---------------------------------------------------------------------------
(* The server: one check-in handler per exchange. *)

\* The request is authenticated and the handler turns to the reported results.
Receive(c) ==
    /\ ex[c].at = "sent"
    /\ ex' = [ex EXCEPT ![c].at = "results"]
    /\ UNCHANGED <<tableVars, agentVars, history>>

\* Mutant: the UPDATE also refuses expired rows, as a "first status wins" rule would.
RecordableUnlessExpired(id) == status[id] \notin Genuine \cup {"expired"}

\* markResultWithTime: the first genuine outcome wins and replaces even expired.
Recordable(id) == status[id] \notin Genuine

MarkResult(c, r) ==
    /\ ex[c].at = "results"
    /\ r \in ex[c].acks
    /\ ex' = [ex EXCEPT ![c].acks = @ \ {r}]
    /\ status' = IF Recordable(r.id)
                 THEN [status EXCEPT ![r.id] = r.status] ELSE status
    /\ stale' = [stale EXCEPT ![r.id] = FALSE]
    /\ UNCHANGED <<handed, agentVars, history>>

ResultsDone(c) ==
    /\ ex[c].at = "results"
    /\ ex[c].acks = {}
    /\ ex' = [ex EXCEPT ![c].at = "expire"]
    /\ UNCHANGED <<tableVars, agentVars, history>>

\* Mutant: only pending rows are aged out, the delivered branch is forgotten.
OverduePending == {id \in Ids : status[id] = "pending" /\ stale[id]}

\* expireStale: one UPDATE over the pending and delivered rows past their limit.
Overdue == {id \in Ids : status[id] \in {"pending", "delivered"} /\ stale[id]}

\* Mutant: a delivered command nobody answered for is queued again.
RequeueStale(c) ==
    /\ ex[c].at = "expire"
    /\ ex' = [ex EXCEPT ![c].at = "list"]
    /\ status' = [id \in Ids |-> IF id \notin Overdue THEN status[id]
                                ELSE IF handed[id] THEN "pending" ELSE "expired"]
    /\ UNCHANGED <<handed, stale, agentVars, history>>

\* Mutant: the UPDATE writes a status outside the vocabulary.
ExpireStaleMisspelt(c) ==
    /\ ex[c].at = "expire"
    /\ ex' = [ex EXCEPT ![c].at = "list"]
    /\ status' = [id \in Ids |-> IF id \in Overdue THEN "timeout" ELSE status[id]]
    /\ UNCHANGED <<handed, stale, agentVars, history>>

ExpireStale(c) ==
    /\ ex[c].at = "expire"
    /\ ex' = [ex EXCEPT ![c].at = "list"]
    /\ status' = [id \in Ids |-> IF id \in Overdue THEN "expired" ELSE status[id]]
    /\ stale' = [id \in Ids |-> id \notin Overdue /\ stale[id]]
    /\ UNCHANGED <<handed, agentVars, history>>

\* listPending, then the capability gate on the row's immutable requirement.
Allowed(id, caps) == Requires[id] \in caps \cup {NoCap}

Listed(caps) == {id \in Ids : status[id] = "pending" /\ Allowed(id, caps)}

LeftOut(caps) == {id \in Ids : status[id] = "pending" /\ ~Allowed(id, caps)}

ListPending(c) ==
    /\ ex[c].at = "list"
    /\ ex' = [ex EXCEPT ![c] = [ex[c] EXCEPT !.at = "claim", !.caps = {},
                                             !.todo = Listed(ex[c].caps)]]
    /\ skipped' = skipped \cup (LeftOut(ex[c].caps) \X Listed(ex[c].caps))
    /\ UNCHANGED <<tableVars, agentVars, ran, told, forgotten>>

\* Mutant: ORDER BY id DESC.
IsLast(id, S) == id \in S /\ \A other \in S : id >= other

\* ORDER BY id: the rows of a list are taken in id order.
IsFirst(id, S) == id \in S /\ \A other \in S : id <= other

\* Mutant: the claim's UPDATE lacks AND status = 'pending'.
ClaimableAlways(id) == TRUE

\* claimForDelivery changes the row only while it is still pending.
Claimable(id) == status[id] = "pending"

Claim(c, id) ==
    /\ ex[c].at = "claim"
    /\ IsFirst(id, ex[c].todo)
    /\ IF Claimable(id)
       THEN /\ ex' = [ex EXCEPT ![c] = [ex[c] EXCEPT !.todo = ex[c].todo \ {id},
                                               !.claimed = ex[c].claimed \cup {id}]]
            /\ status' = [status EXCEPT ![id] = "delivered"]
            /\ handed' = [handed EXCEPT ![id] = TRUE]
            /\ stale' = [stale EXCEPT ![id] = FALSE]
       ELSE /\ ex' = [ex EXCEPT ![c].todo = @ \ {id}]
            /\ UNCHANGED tableVars
    /\ UNCHANGED <<agentVars, history>>

Reply(c) ==
    /\ ex[c].at = "claim"
    /\ ex[c].todo = {}
    /\ ex' = [ex EXCEPT ![c].at = "replied"]
    /\ UNCHANGED <<tableVars, agentVars, history>>

\* The exchange dies where it stands: request or reply lost, the handler thrown out
\* by an exception or a server restart. Committed statements stay committed.
Break(c) ==
    /\ ex[c].at # "free"
    /\ ex' = [ex EXCEPT ![c] = Free]
    /\ UNCHANGED <<tableVars, agentVars, history>>
---------------------------------------------------------------------------
(* The device: CheckInCoordinator.cycle, single flight. *)

\* drain() the buffer and POST it with the present capability matrix.
Send(c, caps) ==
    /\ phase = "idle"
    /\ ex[c].at = "free"
    /\ phase' = "waiting"
    /\ awaited' = {c}
    /\ offered' = caps
    /\ acks' = buffer
    /\ buffer' = {}
    /\ ex' = [ex EXCEPT ![c] = [Free EXCEPT !.at = "sent", !.caps = caps,
                                            !.acks = buffer]]
    /\ UNCHANGED <<tableVars, batch, fresh, executed, history>>

\* The HTTP client retries the call on a new connection; it awaits only that one.
Resend(c) ==
    /\ phase = "waiting"
    /\ c \notin awaited
    /\ ex[c].at = "free"
    /\ awaited' = {c}
    /\ ex' = [ex EXCEPT ![c] = [Free EXCEPT !.at = "sent", !.caps = offered,
                                            !.acks = acks]]
    /\ UNCHANGED <<tableVars, phase, offered, acks, buffer, batch, fresh, executed, history>>

\* Mutant: the catch block forgets pending.restore(acks).
CycleFailsDropping ==
    /\ phase = "waiting"
    /\ phase' = "idle"
    /\ acks' = {}
    /\ awaited' = {}
    /\ offered' = {}
    /\ UNCHANGED <<tableVars, ex, buffer, batch, fresh, executed, history>>

\* Timeout, I/O error or a rejection: the drained results go back to the buffer.
CycleFails ==
    /\ phase = "waiting"
    /\ phase' = "idle"
    /\ buffer' = acks \cup buffer
    /\ acks' = {}
    /\ awaited' = {}
    /\ offered' = {}
    /\ UNCHANGED <<tableVars, ex, batch, fresh, executed, history>>

\* The response arrives: the results are acknowledged, the commands are at hand.
Deliver(c) ==
    /\ phase = "waiting"
    /\ c \in awaited
    /\ ex[c].at = "replied"
    /\ phase' = "dispatching"
    /\ batch' = ex[c].claimed
    /\ acks' = {}
    /\ ex' = [ex EXCEPT ![c] = Free]
    /\ awaited' = {}
    /\ offered' = {}
    /\ UNCHANGED <<tableVars, buffer, fresh, executed, history>>

\* dispatch: a repeated id answers done without running; an unknown type answers
\* unsupported; otherwise the handler runs and its outcome (an exception is failed)
\* is kept. The TTL check never applies: the server sends no ttlSeconds.
Dispatch(id, known, outcome) ==
    /\ phase = "dispatching"
    /\ IsFirst(id, batch)
    /\ known \/ outcome = "unsupported"
    /\ batch' = batch \ {id}
    /\ executed' = executed \cup {id}
    /\ IF id \in executed
       THEN /\ fresh' = fresh \cup {[id |-> id, status |-> "done"]}
            /\ UNCHANGED history
       ELSE /\ fresh' = fresh \cup {[id |-> id, status |-> outcome]}
            /\ told' = [told EXCEPT ![id] = outcome]
            /\ ran' = IF known THEN [ran EXCEPT ![id] = @ + 1] ELSE ran
            /\ UNCHANGED <<forgotten, skipped>>
    /\ UNCHANGED <<tableVars, ex, phase, awaited, offered, acks, buffer>>

\* The whole batch is dispatched: its results join the buffer.
CycleEnds ==
    /\ phase = "dispatching"
    /\ batch = {}
    /\ phase' = "idle"
    /\ buffer' = buffer \cup fresh
    /\ fresh' = {}
    /\ UNCHANGED <<tableVars, ex, awaited, offered, acks, batch, executed, history>>

Held == acks \cup buffer \cup fresh

\* The process dies, perhaps inside the handler of the command at hand (a reboot, an
\* update of the agent): buffer, batch and the executed set live in memory only.
Running(id) == phase = "dispatching" /\ IsFirst(id, batch) /\ id \notin executed

Crash(inside) ==
    /\ ran' = [id \in Ids |-> IF inside /\ Running(id) THEN ran[id] + 1 ELSE ran[id]]
    /\ phase' = "idle"
    /\ acks' = {}
    /\ buffer' = {}
    /\ batch' = {}
    /\ fresh' = {}
    /\ executed' = {}
    /\ forgotten' = forgotten \cup {r.id : r \in Held} \cup batch
    /\ awaited' = {}
    /\ offered' = {}
    /\ UNCHANGED <<tableVars, ex, told, skipped>>
---------------------------------------------------------------------------
Server(c) ==
    \/ Receive(c)
    \/ \E r \in Results : MarkResult(c, r)
    \/ ResultsDone(c)
    \/ ExpireStale(c)
    \/ ListPending(c)
    \/ \E id \in Ids : Claim(c, id)
    \/ Reply(c)

Agent ==
    \/ \E c \in Conns, caps \in SUBSET Caps : Send(c, caps)
    \/ \E c \in Conns : Resend(c) \/ Deliver(c)
    \/ CycleFails
    \/ \E id \in Ids, known \in BOOLEAN, outcome \in Genuine :
          Dispatch(id, known, outcome)
    \/ CycleEnds
    \/ \E inside \in BOOLEAN : Crash(inside)

Next ==
    \/ \E id \in Ids : Queue(id) \/ Elapse(id)
    \/ \E c \in Conns : Server(c) \/ Break(c)
    \/ Agent

Spec == Init /\ [][Next]_vars
---------------------------------------------------------------------------
(* Properties. *)

\* An exchange or the device's batch carries the command towards its handler.
Carries(c, id) == id \in ex[c].claimed

\* A command's handler runs at most once, whatever is retried, resent, expired or
\* crashed (CommandDispatcher's "exactly once" and the mapper's single claim).
AtMostOnce == \A id \in Ids : ran[id] <= 1

\* "A command is delivered to exactly one check-in" (claimForDelivery): no two
\* exchanges carry it, and none does once the device has it.
OneCarrier ==
    \A id \in Ids, c \in Conns : Carries(c, id) =>
        /\ id \notin batch \cup executed
        /\ \A other \in Conns : Carries(other, id) => other = c

\* An outcome the device decided is on the server, or the device still holds it for
\* its next check-in, or the process holding it died: a failed exchange loses none.
NoResultLost ==
    \A id \in Ids : told[id] # "none" =>
        \/ status[id] = told[id]
        \/ [id |-> id, status |-> told[id]] \in Held
        \/ id \in forgotten

\* Handlers run in the order the commands were queued, also over racing check-ins
\* and lost replies: a command runs after a later one only when a handler's
\* capability gate held it back while the same list let the later one through.
InOrder ==
    [][\A id \in Ids : ran'[id] # ran[id] =>
          \A later \in Ids : later > id /\ ran[later] > 0 => <<id, later>> \in skipped]_vars

\* The table and the device together implement the lifecycle the channel promises.
Lifecycle == INSTANCE CommandLifecycle
ImplementsLifecycle == Lifecycle!Spec
---------------------------------------------------------------------------
(* Fairness: WorkManager's periodic work and its backoff retry check-ins for ever,  *)
(* handlers and the device's cycle proceed, limits pass, and an exchange nobody     *)
(* awaits is torn down by its timeouts. Failures may come in any number, but end.   *)
Awaited(c) == c \in awaited

Failure ==
    \/ \E c \in Conns : \/ Awaited(c) /\ Break(c)
                       \/ Resend(c)
    \/ CycleFails
    \/ \E inside \in BOOLEAN : Crash(inside) /\ ~CycleEnds

Fairness ==
    /\ \A id \in Ids : WF_vars(Elapse(id))
    /\ \A c \in Conns : WF_vars(Server(c)) /\ WF_vars(~Awaited(c) /\ Break(c))
    /\ WF_vars(Agent)

StopsFailing == <>[][~Failure]_vars

FairSpec == Spec /\ Fairness /\ StopsFailing

\* Every queued command leaves the open statuses: it is answered or given up, so
\* nothing waits on it for ever (the reconciler queues no config.apply meanwhile).
EveryCommandSettles ==
    \A id \in Ids : status[id] \in {"pending", "delivered"}
                     ~> status[id] \notin {"pending", "delivered"}

\* An outcome the device decided reaches the server even after the server gave the
\* command up, unless the process holding it dies first.
OutcomeReachesServer ==
    \A id \in Ids : told[id] # "none" ~> status[id] = told[id] \/ id \in forgotten

============================================================================
