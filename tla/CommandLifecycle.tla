------------------------- MODULE CommandLifecycle -------------------------
(* What the agent v1 command channel promises the administrator who queues a     *)
(* command, with no server, network or device process in sight: a command is     *)
(* handed to the device at most once and only while it is pending, its handler   *)
(* runs at most once and only after the handover, and once the device's own      *)
(* outcome is recorded it stands. Expiry is only the server's guess: an outcome  *)
(* may replace it. CommandDelivery implements this specification.                *)
EXTENDS Naturals

CONSTANTS Ids            \* the command ids of one device

VARIABLES status,        \* the status column of each command
          handed,        \* whether the command was ever handed to the device
          ran,           \* how many times the device ran its handler
          told           \* the outcome the device decided on, or "none"

vars == <<status, handed, ran, told>>

\* The outcomes a device reports that stand for good.
Genuine == {"done", "failed", "unsupported"}

Init ==
    /\ status = [id \in Ids |-> "none"]
    /\ handed = [id \in Ids |-> FALSE]
    /\ ran = [id \in Ids |-> 0]
    /\ told = [id \in Ids |-> "none"]

\* An administrator queues the command.
Queue(id) ==
    /\ status[id] = "none"
    /\ status' = [status EXCEPT ![id] = "pending"]
    /\ UNCHANGED <<handed, ran, told>>

\* The command is handed over; it is never pending again.
HandOver(id) ==
    /\ status[id] = "pending"
    /\ status' = [status EXCEPT ![id] = "delivered"]
    /\ handed' = [handed EXCEPT ![id] = TRUE]
    /\ UNCHANGED <<ran, told>>

\* A command nobody answered for is given up.
Expire(S) ==
    /\ \A id \in S : status[id] \in {"pending", "delivered"}
    /\ status' = [id \in Ids |-> IF id \in S THEN "expired" ELSE status[id]]
    /\ UNCHANGED <<handed, ran, told>>

\* The device decides the command: it runs the handler, or knows no handler for it.
Decide(id, outcome) ==
    /\ handed[id]
    /\ told[id] = "none"
    /\ ran[id] = 0
    /\ told' = [told EXCEPT ![id] = outcome]
    /\ \/ ran' = [ran EXCEPT ![id] = 1]
       \/ /\ outcome = "unsupported"
          /\ UNCHANGED ran
    /\ UNCHANGED <<status, handed>>

\* The device dies inside the handlers of S: it ran them and never decides.
Abort(S) ==
    /\ \A id \in S : handed[id] /\ told[id] = "none" /\ ran[id] = 0
    /\ ran' = [id \in Ids |-> IF id \in S THEN 1 ELSE ran[id]]
    /\ UNCHANGED <<status, handed, told>>

\* The device's outcome is recorded.
Settle(id) ==
    /\ told[id] # "none"
    /\ status[id] \notin Genuine
    /\ status' = [status EXCEPT ![id] = told[id]]
    /\ UNCHANGED <<handed, ran, told>>

Next ==
    \/ \E id \in Ids : Queue(id) \/ HandOver(id) \/ Settle(id)
    \/ \E id \in Ids, outcome \in Genuine : Decide(id, outcome)
    \/ \E S \in SUBSET Ids : Expire(S) \/ Abort(S)

Spec == Init /\ [][Next]_vars
============================================================================
