---------------------------- MODULE ConfigSync ----------------------------
(* Desired-state configuration of one device: every check-in compares the        *)
(* revision the device reports with the one the server computes from the         *)
(* configuration row, and queues a config.apply when they differ and nothing is  *)
(* under way.                                                                    *)
(*                                                                               *)
(* The handler again holds no transaction: between its reading of the            *)
(* configuration, of the open commands and of the latest command, and its        *)
(* insert, other handlers and the administrator step in. What CommandDelivery    *)
(* resolves finer is one step here: recording a request's results together with  *)
(* the expiry, and listing together with claiming.                               *)
(*                                                                               *)
(* A document is the number of the edit that produced it. Its revision is a hash *)
(* of its content (Content), so reverting an edit brings back its revision.      *)
EXTENDS Naturals, FiniteSets

CONSTANTS MaxEdits,      \* bound: how often the configuration is saved
          Content,       \* the content hash of the document each edit saves
          NoRev,         \* no revision: nothing applied or nothing reported
          Rows,          \* bound: config.apply rows told apart
          Conns          \* bound: HTTP exchanges open at once

\* What DesiredConfigBuilder builds from the row after each save; 0: no document.
Docs == 0..MaxEdits
Revs == {Content[d] : d \in 1..MaxEdits} \cup {NoRev}

ASSUME SyncAssumption ==
    /\ MaxEdits \in Nat \ {0}
    /\ DOMAIN Content = 1..MaxEdits
    /\ \A d \in 1..MaxEdits : Content[d] # NoRev
    /\ IsFiniteSet(Rows)
    /\ IsFiniteSet(Conns)

\* revision: the SHA-256 of the canonical document, its content here.
Rev(doc) == IF doc = 0 THEN NoRev ELSE Content[doc]

VARIABLES desired,       \* the document of the configuration row
          row,           \* the config.apply rows: document, status, time limit passed
          rank,          \* their order: 1 the oldest, 0 not in the table
          known,         \* device_state.appliedConfigRevision
          ex,            \* the HTTP exchanges, each with its handler's locals
          phase,         \* what the device's check-in cycle is doing
          awaited,       \* the exchange the waiting cycle awaits, as a set
          acks,          \* the results the awaited request carries
          buffer,        \* results for the next check-in
          batch,         \* rows of the response still to be applied
          applied,       \* the document of the device's ConfigStateStore
          disk           \* what of it has reached the flash

tableVars == <<row, rank>>
deviceVars == <<phase, awaited, acks, buffer, batch, applied, disk>>
vars == <<desired, row, rank, known, ex, phase, awaited, acks, buffer, batch,
          applied, disk>>

OpenStatus == {"pending", "delivered"}
Genuine == {"done", "failed"}
Closed == Genuine \cup {"expired"}
Results == [id : Rows, status : Genuine]
Stages == {"free", "sent", "record", "reconcile", "look", "decide", "insert",
           "claim", "replied"}
\* An exchange's last two fields are history: the revisions "known" had while its
\* handler was at work, and the rows other handlers wrote since it decided.
Exchanges == [at : Stages, reported : Revs, acks : SUBSET Results, doc : Docs,
              claimed : SUBSET Rows, held : SUBSET Revs, news : SUBSET Rows]
NoRow == [doc |-> 0, status |-> "none", aged |-> FALSE]
Free == [at |-> "free", reported |-> NoRev, acks |-> {}, doc |-> 0, claimed |-> {},
         held |-> {}, news |-> {}]

TypeOK ==
    /\ desired \in 1..MaxEdits
    /\ row \in [Rows -> [doc : Docs, status : {"none"} \cup OpenStatus \cup Closed,
                         aged : BOOLEAN]]
    /\ rank \in [Rows -> Nat]
    /\ known \in Revs
    /\ ex \in [Conns -> Exchanges]
    /\ phase \in {"idle", "waiting", "applying"}
    /\ awaited \subseteq Conns
    /\ acks \subseteq Results
    /\ buffer \subseteq Results
    /\ batch \subseteq Rows
    /\ applied \in Docs
    /\ disk \in Docs

Init ==
    /\ desired = 1
    /\ row = [id \in Rows |-> NoRow]
    /\ rank = [id \in Rows |-> 0]
    /\ known = NoRev
    /\ ex = [c \in Conns |-> Free]
    /\ phase = "idle"
    /\ awaited = {}
    /\ acks = {}
    /\ buffer = {}
    /\ batch = {}
    /\ applied = 0
    /\ disk = 0
---------------------------------------------------------------------------
(* The administrator and the clock. *)

\* The commands still to be delivered or answered.
Open == {id \in Rows : row[id].status \in OpenStatus}

\* findLatestOfType: ORDER BY id DESC LIMIT 1.
IsLatest(id) == rank[id] # 0 /\ \A other \in Rows : rank[other] <= rank[id]

\* Saving the configuration changes what the next reconcile computes, nothing else.
Edit ==
    /\ desired < MaxEdits
    /\ desired' = desired + 1
    /\ UNCHANGED <<tableVars, known, ex, deviceVars>>

\* A time limit passes: 60 min pending, 6 h delivered, 60 min since the end (the
\* backoff, which is consulted of the latest row only).
Elapse(id) ==
    /\ id \in Open \/ IsLatest(id)
    /\ ~row[id].aged
    /\ row' = [row EXCEPT ![id].aged = TRUE]
    /\ UNCHANGED <<desired, rank, known, ex, deviceVars>>
---------------------------------------------------------------------------
(* The check-in handler. *)

\* From its upsert to its insert a handler compares and decides.
Deciding == {"record", "reconcile", "look", "decide", "insert"}

\* History: what this handler's statement writes happens under the deciding others.
Heard(e, rev) == IF e.at \in Deciding THEN [e EXCEPT !.held = @ \cup {rev}] ELSE e
Noted(e, ids) == IF e.at = "insert" THEN [e EXCEPT !.news = @ \cup ids] ELSE e

\* A handler done with the reconcile goes on to the pending rows.
Reconciled(e) == [e EXCEPT !.at = "claim", !.doc = 0, !.reported = NoRev,
                           !.held = {}, !.news = {}]

\* upsert: COALESCE keeps the stored revision when the request omits it.
Receive(c) ==
    /\ ex[c].at = "sent"
    /\ known' = IF ex[c].reported = NoRev THEN known ELSE ex[c].reported
    /\ ex' = [d \in Conns |-> IF d = c THEN [ex[c] EXCEPT !.at = "record", !.held = {known'}]
                              ELSE Heard(ex[d], known')]
    /\ UNCHANGED <<desired, tableVars, deviceVars>>

\* Mutant: the stored revision is not consulted, a request without one is drift.
NoFallback(c) == ex[c].reported

\* The stored revision stands in for an omitted one.
Effective(c) == IF ex[c].reported = NoRev THEN known ELSE ex[c].reported

\* Mutant: expiry writes a status outside the vocabulary.
RecordedMisspelt(r, id, R) ==
    IF r.status \in OpenStatus /\ r.aged THEN [r EXCEPT !.status = "timeout"] ELSE r

\* The row after the results R and the expiry.
Recorded(r, id, R) ==
    LET mine == {a \in R : a.id = id}
    IN  IF mine # {} /\ r.status \notin Genuine
        THEN [r EXCEPT !.status = (CHOOSE a \in mine : TRUE).status, !.aged = FALSE]
        ELSE IF r.status \in OpenStatus /\ r.aged
        THEN [r EXCEPT !.status = "expired", !.aged = FALSE]
        ELSE r

Record(c) ==
    /\ ex[c].at = "record"
    /\ row' = [id \in Rows |-> Recorded(row[id], id, ex[c].acks)]
    /\ ex' = [d \in Conns |->
                 IF d = c THEN [ex[c] EXCEPT !.at = "reconcile", !.acks = {},
                                             !.reported = Effective(c)]
                 ELSE Noted(ex[d], {id \in Rows : row'[id] # row[id]})]
    /\ UNCHANGED <<desired, rank, known, deviceVars>>

\* reconcile computes the current document and stops when the device has it.
Reconcile(c) ==
    /\ ex[c].at = "reconcile"
    /\ ex' = [ex EXCEPT ![c] =
                 IF Rev(desired) = ex[c].reported THEN Reconciled(ex[c])
                 ELSE [ex[c] EXCEPT !.at = "look", !.doc = desired, !.reported = NoRev]]
    /\ UNCHANGED <<desired, tableVars, known, deviceVars>>

\* Mutant: countOpenOfType counts the pending rows only.
HasPending == \E id \in Rows : row[id].status = "pending"

\* hasOpenOfType: some config.apply is pending or delivered.
HasOpen == \E id \in Rows : row[id].status \in OpenStatus

Look(c) ==
    /\ ex[c].at = "look"
    /\ ex' = [ex EXCEPT ![c] = IF HasOpen THEN Reconciled(ex[c])
                               ELSE [ex[c] EXCEPT !.at = "decide"]]
    /\ UNCHANGED <<desired, tableVars, known, deviceVars>>

\* Mutant: no backoff at all.
NeverCoolingDown(doc) == FALSE

\* Mutant: a failed revision is never tried again.
EverCoolingDown(doc) == \E id \in Rows : IsLatest(id) /\ Rev(row[id].doc) = Rev(doc)

\* findLatestOfType, decide: the latest attempt was for the same revision and recent.
CoolingDown(doc) ==
    \E id \in Rows : IsLatest(id) /\ Rev(row[id].doc) = Rev(doc) /\ ~row[id].aged

Decide(c) ==
    /\ ex[c].at = "decide"
    /\ ex' = [ex EXCEPT ![c] = IF CoolingDown(ex[c].doc) THEN Reconciled(ex[c])
                               ELSE [ex[c] EXCEPT !.at = "insert"]]
    /\ UNCHANGED <<desired, tableVars, known, deviceVars>>

\* A closed row that is neither the latest nor awaited by anybody decides nothing
\* any more: its id stands for the new row's (ids are unbounded in the code).
Referenced ==
    {a.id : a \in acks \cup buffer} \cup batch
    \cup UNION {{a.id : a \in ex[c].acks} \cup ex[c].claimed : c \in Conns}

Reusable(id) == id \notin Open \cup Referenced /\ ~IsLatest(id)

\* ORDER BY id: the oldest of the set.
IsFirst(id, S) == id \in S /\ \A other \in S : rank[id] <= rank[other]

Insert(c) ==
    /\ ex[c].at = "insert"
    /\ LET kept == {o \in Rows : rank[o] # 0 /\ ~Reusable(o)}
       IN  \E id \in Rows :
             /\ Reusable(id)
             /\ row' = [o \in Rows |->
                          IF o = id THEN [doc |-> ex[c].doc, status |-> "pending", aged |-> FALSE]
                          ELSE IF o \in kept THEN row[o] ELSE NoRow]
             /\ rank' = [o \in Rows |->
                           IF o = id THEN Cardinality(kept) + 1
                           ELSE IF o \in kept
                           THEN Cardinality({p \in kept : rank[p] <= rank[o]}) ELSE 0]
             /\ ex' = [d \in Conns |-> IF d = c THEN Reconciled(ex[c]) ELSE Noted(ex[d], {id})]
    /\ UNCHANGED <<desired, known, deviceVars>>

\* listPending, claimForDelivery for each.
Pending == {id \in Rows : row[id].status = "pending"}

Claim(c) ==
    /\ ex[c].at = "claim"
    /\ ex' = [d \in Conns |->
                 IF d = c THEN [ex[c] EXCEPT !.at = "replied", !.claimed = Pending]
                 ELSE Noted(ex[d], Pending)]
    /\ row' = [id \in Rows |->
                 IF id \in Pending
                 THEN [row[id] EXCEPT !.status = "delivered", !.aged = FALSE] ELSE row[id]]
    /\ UNCHANGED <<desired, rank, known, deviceVars>>

\* The exchange dies: what its statements did stays done.
Break(c) ==
    /\ ex[c].at # "free"
    /\ ex' = [ex EXCEPT ![c] = Free]
    /\ UNCHANGED <<desired, tableVars, known, deviceVars>>
---------------------------------------------------------------------------
(* The device. *)

\* The state block carries the persisted revision, or is missing when the snapshot
\* fails. A background write of milliseconds is over before the next request.
Send(c, reported) ==
    /\ phase = "idle"
    /\ disk = applied
    /\ ex[c].at = "free"
    /\ reported \in {Rev(applied), NoRev}
    /\ phase' = "waiting"
    /\ awaited' = {c}
    /\ acks' = buffer
    /\ buffer' = {}
    /\ ex' = [ex EXCEPT ![c] = [Free EXCEPT !.at = "sent", !.reported = reported,
                                            !.acks = buffer]]
    /\ UNCHANGED <<desired, tableVars, known, batch, applied, disk>>

\* The cycle gives up on its exchange and keeps the results for the next one.
CycleFails ==
    /\ phase = "waiting"
    /\ phase' = "idle"
    /\ buffer' = acks
    /\ acks' = {}
    /\ awaited' = {}
    /\ UNCHANGED <<desired, tableVars, known, ex, batch, applied, disk>>

Deliver(c) ==
    /\ phase = "waiting"
    /\ c \in awaited
    /\ ex[c].at = "replied"
    /\ phase' = "applying"
    /\ batch' = ex[c].claimed
    /\ acks' = {}
    /\ awaited' = {}
    /\ ex' = [ex EXCEPT ![c] = Free]
    /\ UNCHANGED <<desired, tableVars, known, buffer, applied, disk>>

\* The documents are applied in queue order. ConfigApplier persists a document only
\* when no section failed.
Apply(id, ok) ==
    /\ phase = "applying"
    /\ IsFirst(id, batch)
    /\ applied' = IF ok THEN row[id].doc ELSE applied
    /\ buffer' = buffer \cup {[id |-> id, status |-> IF ok THEN "done" ELSE "failed"]}
    /\ batch' = batch \ {id}
    /\ UNCHANGED <<desired, tableVars, known, ex, phase, awaited, acks, disk>>

CycleEnds ==
    /\ phase = "applying"
    /\ batch = {}
    /\ phase' = "idle"
    /\ UNCHANGED <<desired, tableVars, known, ex, awaited, acks, buffer, batch, applied, disk>>

\* SharedPreferences.apply returns before the write, which follows in the background.
Flush ==
    /\ disk # applied
    /\ disk' = applied
    /\ UNCHANGED <<desired, tableVars, known, ex, phase, awaited, acks, buffer, batch, applied>>

\* The process dies: only the document on the flash survives.
Crash ==
    /\ phase' = "idle"
    /\ acks' = {}
    /\ buffer' = {}
    /\ batch' = {}
    /\ awaited' = {}
    /\ applied' = disk
    /\ UNCHANGED <<desired, tableVars, known, ex, disk>>
---------------------------------------------------------------------------
Server(c) ==
    \/ Receive(c)
    \/ Record(c)
    \/ Reconcile(c)
    \/ Look(c)
    \/ Decide(c)
    \/ Insert(c)
    \/ Claim(c)

Device ==
    \/ \E c \in Conns, reported \in Revs : Send(c, reported)
    \/ \E c \in Conns : Deliver(c)
    \/ CycleFails
    \/ \E id \in Rows, ok \in BOOLEAN : Apply(id, ok)
    \/ CycleEnds
    \/ Flush
    \/ Crash

Next ==
    \/ Edit
    \/ \E id \in Rows : Elapse(id)
    \/ \E c \in Conns : Server(c) \/ Break(c)
    \/ Device

Spec == Init /\ [][Next]_vars
---------------------------------------------------------------------------
(* Properties. *)

\* Between its look at the open commands and its insert a handler is committed.
Committed == {c \in Conns : ex[c].at \in {"decide", "insert"}}

\* However many handlers race, each contributes at most one open config.apply: the
\* queue of a device that never answers stays as short as the number of exchanges.
OpenBounded == Cardinality(Open) <= Cardinality(Conns)

\* A revision is not queued again until the backoff since its last attempt passed,
\* except where another handler wrote that attempt after this one had decided.
BackoffKept ==
    [][\A c \in Conns, id \in Rows :
          ex[c].at = "insert" /\ ex'[c].at = "claim" /\ IsLatest(id) =>
             \/ row[id].aged
             \/ Rev(row[id].doc) # Rev(ex[c].doc)
             \/ id \in ex[c].news]_vars

\* "A missing field never masquerades as drift": what a handler is about to queue
\* differs from a revision the server knew the device to have during this check-in,
\* whatever the request left out and other check-ins report meanwhile.
DriftIsReal ==
    \A c \in Conns : ex[c].at \in {"look", "decide", "insert"} =>
        \E rev \in ex[c].held : Rev(ex[c].doc) # rev
---------------------------------------------------------------------------
(* Fairness: check-ins are scheduled for ever (WorkManager), handlers and the      *)
(* device's cycle proceed, limits pass, and an exchange nobody awaits is torn      *)
(* down. Failures of any number may come first, but they end.                      *)
Failure ==
    \/ \E c \in Conns : c \in awaited /\ Break(c)
    \/ \E c \in Conns : applied # 0 /\ Send(c, NoRev)
    \/ CycleFails
    \/ \E id \in Rows : Apply(id, FALSE)
    \/ Crash /\ ~CycleEnds  \* a death that loses nothing looks like the end of a cycle

Fairness ==
    /\ \A id \in Rows : WF_vars(Elapse(id))
    /\ \A c \in Conns : WF_vars(Server(c)) /\ WF_vars(c \notin awaited /\ Break(c))
    /\ WF_vars(Device)

StopsFailing == <>[][~Failure]_vars

FairSpec == Spec /\ Fairness /\ StopsFailing

\* "Saving a configuration makes its devices converge to it": once edits and failures
\* end, whatever they left open, expired, superseded or half reported, the device
\* settles on the saved content and the console's revision agrees.
Converges == <>[](Rev(applied) = Rev(desired) /\ known = Rev(desired))
============================================================================
