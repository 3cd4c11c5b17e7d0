---------------------------- MODULE Enrollment ----------------------------
(* One-time enrollment tokens. A device posts its token until it is enrolled; the  *)
(* server looks the token up, claims it, creates the device row, stores the hash   *)
(* of the device's secret and returns id and secret once.                          *)
(*                                                                                 *)
(* AgentResource.enroll holds no transaction: the claim is one atomic UPDATE, and  *)
(* everything between it and the answer can fail on its own. The device runs one   *)
(* handshake at a time (EnrollmentManager's mutex), but one that it gave up on     *)
(* (timeout, cancelled worker, dead process) may still be running on the server.   *)
(* A rejection never ends the attempts: the periodic worker comes again.           *)
EXTENDS Naturals, FiniteSets

CONSTANTS Tokens,
          NoToken,       \* the token of an exchange that is not in use
          Agents,        \* devices
          Provisioned,   \* the token each device was provisioned with
          Conns,         \* bound: HTTP exchanges that can be open at once
          MaxRows        \* bound: device rows of a token, for failing creations

ASSUME EnrollmentAssumption ==
    /\ NoToken \notin Tokens
    /\ Provisioned \in [Agents -> Tokens]
    /\ MaxRows \in Nat

VARIABLES used,          \* agentEnrollmentToken.used
          expired,       \* expiresAt has passed
          rows,          \* device rows created with the token
          secrets,       \* those of them with a secret hash: they can check in
          stage,         \* where the handler of each exchange is
          token,         \* the token it was sent with
          awaited,       \* the exchange each device waits for, as a set
          enrolled,      \* the device has saved id and secret
          wasted         \* history: tokens spent on credentials no device can save

vars == <<used, expired, rows, secrets, stage, token, awaited, enrolled, wasted>>

\* "ok", "refused" and "failed" are the answers on their way to the device.
Stages == {"free", "sent", "claim", "create", "secret", "finish", "release",
           "ok", "refused", "failed"}

TypeOK ==
    /\ used \in [Tokens -> BOOLEAN]
    /\ expired \in [Tokens -> BOOLEAN]
    /\ rows \in [Tokens -> Nat]
    /\ secrets \in [Tokens -> Nat]
    /\ stage \in [Conns -> Stages]
    /\ token \in [Conns -> Tokens \cup {NoToken}]
    /\ \A c \in Conns : stage[c] = "free" <=> token[c] = NoToken
    /\ awaited \in [Agents -> SUBSET Conns]
    /\ enrolled \in [Agents -> BOOLEAN]
    /\ wasted \subseteq Tokens

\* mintToken has inserted the tokens, unused, to expire later.
Init ==
    /\ used = [t \in Tokens |-> FALSE]
    /\ expired = [t \in Tokens |-> FALSE]
    /\ rows = [t \in Tokens |-> 0]
    /\ secrets = [t \in Tokens |-> 0]
    /\ stage = [c \in Conns |-> "free"]
    /\ token = [c \in Conns |-> NoToken]
    /\ awaited = [a \in Agents |-> {}]
    /\ enrolled = [a \in Agents |-> FALSE]
    /\ wasted = {}

\* The exchange's handler moves on.
Goto(c, from, to) == stage[c] = from /\ stage' = [stage EXCEPT ![c] = to]

\* Mutant: an exchange that is reused still has its token.
EndKeepingToken(c) ==
    /\ stage' = [stage EXCEPT ![c] = "free"]
    /\ UNCHANGED token

\* The exchange ends.
End(c) ==
    /\ stage' = [stage EXCEPT ![c] = "free"]
    /\ token' = [token EXCEPT ![c] = NoToken]

server == <<used, rows, secrets>>
device == <<awaited, enrolled>>
---------------------------------------------------------------------------
(* The server. *)

\* The friendly pre-checks.
Lookup(c) ==
    /\ LET t == token[c]
       IN  Goto(c, "sent", IF used[t] \/ expired[t] THEN "refused" ELSE "claim")
    /\ UNCHANGED <<server, device, expired, token, wasted>>

\* Mutant: a check and a later blind update, as before the claim was atomic.
ClaimBlindly(c) ==
    /\ Goto(c, "claim", "create")
    /\ used' = [used EXCEPT ![token[c]] = TRUE]
    /\ UNCHANGED <<device, expired, rows, secrets, token, wasted>>

\* One UPDATE ... WHERE used = false AND not expired; rowcount 0 is a refusal.
Claim(c) ==
    /\ stage[c] = "claim"
    /\ LET t == token[c]
       IN  IF used[t] \/ expired[t]
           THEN Goto(c, "claim", "refused") /\ UNCHANGED used
           ELSE Goto(c, "claim", "create") /\ used' = [used EXCEPT ![t] = TRUE]
    /\ UNCHANGED <<device, expired, rows, secrets, token, wasted>>

Create(c) ==
    /\ Goto(c, "create", "secret")
    /\ rows' = [rows EXCEPT ![token[c]] = rows[token[c]] + 1]
    /\ UNCHANGED <<device, expired, used, secrets, token, wasted>>

\* Settings forbid it, or the insert fails, or it commits and reading it back fails.
CreateFails(c) ==
    /\ Goto(c, "create", "release")
    /\ \/ UNCHANGED rows
       \/ /\ rows[token[c]] < MaxRows
          /\ rows' = [rows EXCEPT ![token[c]] = rows[token[c]] + 1]
    /\ UNCHANGED <<device, expired, used, secrets, token, wasted>>

StoreSecret(c) ==
    /\ Goto(c, "secret", "finish")
    /\ secrets' = [secrets EXCEPT ![token[c]] = secrets[token[c]] + 1]
    /\ UNCHANGED <<device, expired, used, rows, token, wasted>>

\* Capabilities, hardware id, last update, the configuration's apps.
Finish(c) ==
    /\ Goto(c, "finish", "ok")
    /\ UNCHANGED <<server, device, expired, token, wasted>>

\* Mutant: the token is released after every failure.
StepFailsReleasing(c) ==
    /\ \/ Goto(c, "secret", "release")
       \/ Goto(c, "finish", "release")
    /\ UNCHANGED <<server, device, expired, token, wasted>>

\* A statement throws although the device row exists: the token is not released.
StepFails(c) ==
    /\ \/ Goto(c, "secret", "failed")
       \/ Goto(c, "finish", "failed")
    /\ wasted' = wasted \cup {token[c]}
    /\ UNCHANGED <<server, device, expired, token>>

\* Mutant: the release is forgotten.
ReleaseNothing(c) ==
    /\ Goto(c, "release", "failed")
    /\ UNCHANGED <<server, device, expired, token, wasted>>

Release(c) ==
    /\ Goto(c, "release", "failed")
    /\ used' = [used EXCEPT ![token[c]] = FALSE]
    /\ UNCHANGED <<device, expired, rows, secrets, token, wasted>>

\* The exchange breaks: request lost, server stopped half way, release failed,
\* credentials lost. A refusal that is lost and one that arrives (Answer) are alike.
Break(c) ==
    /\ stage[c] \notin {"free", "refused", "failed"}
    /\ wasted' = IF stage[c] \in {"create", "secret", "finish", "release", "ok"}
                 THEN wasted \cup {token[c]} ELSE wasted
    /\ End(c)
    /\ awaited' = [a \in Agents |-> awaited[a] \ {c}]
    /\ UNCHANGED <<server, expired, enrolled>>

Expire(t) ==
    /\ ~expired[t]
    /\ expired' = [expired EXCEPT ![t] = TRUE]
    /\ UNCHANGED <<server, device, stage, token, wasted>>
---------------------------------------------------------------------------
(* The device. *)

Post(a, c) ==
    /\ ~enrolled[a]
    /\ awaited[a] = {}
    /\ stage[c] = "free"
    /\ stage' = [stage EXCEPT ![c] = "sent"]
    /\ token' = [token EXCEPT ![c] = Provisioned[a]]
    /\ awaited' = [awaited EXCEPT ![a] = {c}]
    /\ UNCHANGED <<server, expired, enrolled, wasted>>

\* Timeout, cancellation or process death: the server's handler runs on.
GiveUp(a) ==
    /\ awaited[a] # {}
    /\ awaited' = [awaited EXCEPT ![a] = {}]
    /\ UNCHANGED <<server, expired, stage, token, enrolled, wasted>>

\* The answer reaches who waits for it, if anybody does; credentials are saved.
Answer(c) ==
    /\ stage[c] \in {"ok", "refused", "failed"}
    /\ LET asking == {a \in Agents : c \in awaited[a]}
       IN  /\ enrolled' = [a \in Agents |-> \/ enrolled[a]
                                            \/ a \in asking /\ stage[c] = "ok"]
           /\ wasted' = IF stage[c] = "ok" /\ asking = {}
                        THEN wasted \cup {token[c]} ELSE wasted
    /\ End(c)
    /\ awaited' = [a \in Agents |-> awaited[a] \ {c}]
    /\ UNCHANGED <<server, expired>>

Handle(c) ==
    \/ Lookup(c)
    \/ Claim(c)
    \/ Create(c)
    \/ StoreSecret(c)
    \/ Finish(c)
    \/ Release(c)
    \/ Answer(c)

Failure ==
    \/ \E c \in Conns : CreateFails(c) \/ StepFails(c) \/ Break(c)
    \/ \E a \in Agents : GiveUp(a)

Next ==
    \/ \E c \in Conns : Handle(c)
    \/ \E a \in Agents, c \in Conns : Post(a, c)
    \/ \E t \in Tokens : Expire(t)
    \/ Failure

Spec == Init /\ [][Next]_vars

\* The server goes on with what it has accepted, and the worker comes back.
FairSpec ==
    /\ Spec
    /\ \A c \in Conns : WF_vars(Handle(c))
    /\ \A a \in Agents : WF_vars(\E c \in Conns : Post(a, c))
---------------------------------------------------------------------------
(* Properties. *)

\* "With N concurrent enrolls ... exactly one wins": whatever is retried, released or
\* raced for, a token gives credentials to at most one device row.
OneEnrollment == \A t \in Tokens : secrets[t] <= 1

\* A token shown to two devices enrolls one of them.
OneDevice ==
    \A a, b \in Agents :
        enrolled[a] /\ enrolled[b] /\ Provisioned[a] = Provisioned[b] => a = b

\* No "ghost device": once a device row of the token has its credentials, no other row
\* is created for it.
NoSecondRow == [][\A t \in Tokens : rows'[t] > rows[t] => secrets[t] = 0]_vars

\* "A server-side failure (settings rejection, SQL error) must not burn the single-use
\* token": when a handler has failed, the token it held is free again.
NotBurnt ==
    [][\A c \in Conns : stage[c] # "failed" /\ stage'[c] = "failed" =>
           ~used'[token[c]]]_vars

\* "The agent retries and succeeds once the operator fixes the condition": after the
\* last failure every device enrolls, unless its token expired, went to another
\* device, or was wasted on lost credentials.
Enrolls ==
    <>[][~Failure]_vars =>
        \A a \in Agents :
            LET t == Provisioned[a]
            IN  <>(\/ \E b \in Agents : enrolled[b] /\ Provisioned[b] = t
                   \/ expired[t]
                   \/ t \in wasted)
===========================================================================
