--------------------------- MODULE UpdateLifecycle ---------------------------
(***************************************************************************)
(* What /update/status promises about the deployment, whatever scripts,    *)
(* polls and requests produce it: one task (an update to a version, or a   *)
(* rollback) at a time; the server container is replaced during a task     *)
(* only; and a task reported as "done" leaves its target running. The one  *)
(* exception: the end of a task may be taken for that of a later one; from *)
(* then until no script is left the status says nothing (muddled).         *)
(***************************************************************************)
EXTENDS Naturals

VARIABLES
    task,      \* the task the status shows as running: NoTask or [kind, to]
    outcome,   \* how the last task ended: "none", "done", "rolled_back", "failed"
    deployed,  \* the version the server container runs
    muddled    \* has the end of a task been taken for that of a later one?

NoTask == [kind |-> "none", to |-> 0]
Tasks == [kind : {"apply", "rollback"}, to : Nat]

Ends == {"none", "done", "rolled_back", "failed"}

lifeVars == <<task, outcome, deployed, muddled>>

LifeInit == task = NoTask /\ outcome = "none" /\ deployed \in Nat /\ ~muddled

\* A task is accepted; nothing is touched yet.
Begin == task = NoTask /\ task' \in Tasks /\ outcome' = "none" /\ UNCHANGED deployed

\* The script of the task replaces the container.
Replace == task # NoTask /\ deployed' \in Nat /\ UNCHANGED <<task, outcome>>

\* An update is reported as done: its target runs.
SettleDone ==
    /\ task.kind = "apply" /\ deployed = task.to
    /\ task' = NoTask /\ outcome' = "done" /\ UNCHANGED deployed

\* The task ends otherwise.
SettleOther ==
    /\ task # NoTask
    /\ task' = NoTask /\ outcome' \in {"rolled_back", "failed"} /\ UNCHANGED deployed

\* The supervisor restarts: its scripts die with it, its status starts over.
Forget == task' = NoTask /\ outcome' = "none" /\ UNCHANGED deployed

Truthful == ~muddled /\ ~muddled' /\ (Begin \/ Replace \/ SettleDone \/ SettleOther \/ Forget)

\* The end of one task ends another's status.
Muddle == muddled' /\ task' = NoTask /\ outcome' \in Ends \ {"none"} /\ UNCHANGED deployed

\* Scripts go on under a status that is not theirs, and more tasks may be accepted.
Muddling == muddled /\ muddled' /\ task' \in Tasks \cup {NoTask} /\ outcome' \in Ends /\ deployed' \in Nat

\* The last of them has ended, or the supervisor restarts.
Clear == muddled /\ ~muddled' /\ task' = NoTask /\ outcome' \in Ends /\ UNCHANGED deployed

LifeNext == Truthful \/ Muddle \/ Muddling \/ Clear

LifeSpec == LifeInit /\ [][LifeNext]_lifeVars

=============================================================================
