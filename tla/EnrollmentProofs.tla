------------------------- MODULE EnrollmentProofs -------------------------
(* What Enrollment guarantees for any number of tokens, devices and exchanges: a  *)
(* token gives credentials to one device row, and enrolls one device.             *)
EXTENDS Enrollment, TLAPS

\* From the claim to the answer: the token belongs to this exchange.
Owns(c) == stage[c] \in {"create", "secret", "finish", "release", "ok"}

\* The claim lets one exchange own a token, and the token stays used meanwhile.
OneOwner ==
    \A c \in Conns : Owns(c) =>
        /\ used[token[c]]
        /\ \A d \in Conns : Owns(d) /\ token[d] = token[c] => c = d

\* The owner knows whether its row has a secret.
SecretInOrder ==
    \A c \in Conns :
        /\ stage[c] \in {"create", "secret", "release"} => secrets[token[c]] = 0
        /\ stage[c] \in {"finish", "ok"} => secrets[token[c]] = 1

\* A token whose row has a secret is never released.
SecretIsUsed == \A t \in Tokens : secrets[t] > 0 => used[t]

\* A device waits for an exchange of its own.
AwaitsItsOwn ==
    \A a \in Agents : \A c \in awaited[a] :
        /\ token[c] = Provisioned[a]
        /\ \A b \in Agents : c \in awaited[b] => a = b

\* A device is enrolled by the last owner of its token.
EnrolledIsLast ==
    \A a \in Agents : enrolled[a] =>
        /\ secrets[Provisioned[a]] = 1
        /\ \A c \in Conns : Owns(c) => token[c] # Provisioned[a]

IInv ==
    /\ TypeOK
    /\ OneOwner
    /\ SecretInOrder
    /\ SecretIsUsed
    /\ OneEnrollment
    /\ AwaitsItsOwn
    /\ EnrolledIsLast
    /\ OneDevice
---------------------------------------------------------------------------
(* Types. *)

LEMMA InitTyped == Init => TypeOK
BY EnrollmentAssumption DEF Init, TypeOK, Stages

\* Only the exchange that moves changes its stage; it keeps its token.
LEMMA MoveTyped ==
    ASSUME TypeOK, NEW c \in Conns, NEW from \in Stages \ {"free"},
           NEW to \in Stages \ {"free"}, Goto(c, from, to), token' = token
    PROVE  /\ stage' \in [Conns -> Stages]
           /\ \A d \in Conns : stage'[d] = "free" <=> token'[d] = NoToken
           /\ token[c] \in Tokens
BY EnrollmentAssumption DEF TypeOK, Goto

\* An exchange that ends.
LEMMA EndTyped ==
    ASSUME TypeOK, NEW c \in Conns, End(c)
    PROVE  /\ stage' \in [Conns -> Stages]
           /\ token' \in [Conns -> Tokens \cup {NoToken}]
           /\ \A d \in Conns : stage'[d] = "free" <=> token'[d] = NoToken
BY DEF TypeOK, End, Stages

\* Every action keeps every variable in its type.
LEMMA TypePreserved == TypeOK /\ [Next]_vars => TypeOK'
<1> SUFFICES ASSUME TypeOK, [Next]_vars PROVE TypeOK'
    OBVIOUS
<1> USE DEF server, device
<1>0. /\ "sent" \in Stages \ {"free"} /\ "claim" \in Stages \ {"free"}
      /\ "create" \in Stages \ {"free"} /\ "secret" \in Stages \ {"free"}
      /\ "finish" \in Stages \ {"free"} /\ "release" \in Stages \ {"free"}
      /\ "ok" \in Stages \ {"free"} /\ "refused" \in Stages \ {"free"}
      /\ "failed" \in Stages \ {"free"}
    BY DEF Stages
<1>1. ASSUME NEW c \in Conns, Lookup(c) PROVE TypeOK'
    <2>1. PICK to \in {"refused", "claim"} : Goto(c, "sent", to)
        BY <1>1 DEF Lookup
    <2>2. token' = token
        BY <1>1 DEF Lookup
    <2> QED
        BY <1>0, <1>1, <2>1, <2>2, MoveTyped DEF Lookup, TypeOK
<1>2. ASSUME NEW c \in Conns, Claim(c) PROVE TypeOK'
    <2>1. PICK to \in {"refused", "create"} : Goto(c, "claim", to)
        BY <1>2 DEF Claim
    <2>2. token' = token /\ used' \in [Tokens -> BOOLEAN]
        BY <1>2 DEF Claim, TypeOK
    <2> QED
        BY <1>0, <1>2, <2>1, <2>2, MoveTyped DEF Claim, TypeOK
<1>3. ASSUME NEW c \in Conns, Create(c) \/ CreateFails(c) PROVE TypeOK'
    <2>1. PICK to \in {"secret", "release"} : Goto(c, "create", to)
        BY <1>3 DEF Create, CreateFails
    <2>2. token' = token
        BY <1>3 DEF Create, CreateFails
    <2>3. rows' \in [Tokens -> Nat]
        <3>1. token[c] \in Tokens
            BY <1>0, <2>1, <2>2, MoveTyped
        <3> QED
            BY <1>3, <3>1 DEF Create, CreateFails, TypeOK
    <2> QED
        BY <1>0, <1>3, <2>1, <2>2, <2>3, MoveTyped DEF Create, CreateFails, TypeOK
<1>4. ASSUME NEW c \in Conns, StoreSecret(c) PROVE TypeOK'
    <2>1. token[c] \in Tokens
        BY <1>0, <1>4, MoveTyped DEF StoreSecret
    <2>2. secrets' \in [Tokens -> Nat]
        BY <1>4, <2>1 DEF StoreSecret, TypeOK
    <2> QED
        BY <1>0, <1>4, <2>2, MoveTyped DEF StoreSecret, TypeOK
<1>5. ASSUME NEW c \in Conns, Finish(c) PROVE TypeOK'
    BY <1>0, <1>5, MoveTyped DEF Finish, TypeOK
<1>6. ASSUME NEW c \in Conns, StepFails(c) PROVE TypeOK'
    <2>1. PICK from \in {"secret", "finish"} : Goto(c, from, "failed")
        BY <1>6 DEF StepFails
    <2>2. token' = token /\ token[c] \in Tokens
        BY <1>0, <1>6, <2>1, MoveTyped DEF StepFails
    <2>3. wasted' \subseteq Tokens
        BY <1>6, <2>2 DEF StepFails, TypeOK
    <2> QED
        BY <1>0, <1>6, <2>1, <2>2, <2>3, MoveTyped DEF StepFails, TypeOK
<1>7. ASSUME NEW c \in Conns, Release(c) PROVE TypeOK'
    <2>1. used' \in [Tokens -> BOOLEAN]
        BY <1>7 DEF Release, TypeOK
    <2> QED
        BY <1>0, <1>7, <2>1, MoveTyped DEF Release, TypeOK
<1>8. ASSUME NEW c \in Conns, Break(c) \/ Answer(c) PROVE TypeOK'
    <2>1. token[c] \in Tokens /\ End(c)
        BY <1>8 DEF Break, Answer, TypeOK
    <2>2. wasted' \subseteq Tokens
        BY <1>8, <2>1 DEF Break, Answer, TypeOK
    <2>3. enrolled' \in [Agents -> BOOLEAN]
        BY <1>8 DEF Break, Answer, TypeOK
    <2>4. awaited' \in [Agents -> SUBSET Conns]
        BY <1>8 DEF Break, Answer, TypeOK
    <2> QED
        BY <1>8, <2>1, <2>2, <2>3, <2>4, EndTyped DEF Break, Answer, TypeOK
<1>9. ASSUME NEW a \in Agents, NEW c \in Conns, Post(a, c) PROVE TypeOK'
    BY <1>0, <1>9, EnrollmentAssumption DEF Post, TypeOK
<1>10. ASSUME NEW a \in Agents, GiveUp(a) PROVE TypeOK'
    BY <1>10 DEF GiveUp, TypeOK
<1>11. ASSUME NEW t \in Tokens, Expire(t) PROVE TypeOK'
    BY <1>11 DEF Expire, TypeOK
<1>12. CASE UNCHANGED vars
    BY <1>12 DEF vars, TypeOK
<1> QED
    BY <1>1, <1>2, <1>3, <1>4, <1>5, <1>6, <1>7, <1>8, <1>9, <1>10, <1>11, <1>12
       DEF Next, Handle, Failure

\* Type correctness of the enrollment handshake, for every instance.
THEOREM TypeCorrect == Spec => []TypeOK
<1>1. TypeOK /\ [Next]_vars => TypeOK'
    BY TypePreserved
<1> QED
    BY InitTyped, <1>1, PTL DEF Spec
---------------------------------------------------------------------------
(* One enrollment. *)

LEMMA InitEstablishes == Init => IInv
BY InitTyped, EnrollmentAssumption
   DEF Init, IInv, OneOwner, SecretInOrder, SecretIsUsed, OneEnrollment, AwaitsItsOwn,
       EnrolledIsLast, OneDevice, Owns, TypeOK

\* A handler that moves without gaining its token or storing a secret.
LEMMA PlainMove ==
    ASSUME IInv, NEW c \in Conns, NEW from, NEW to, Goto(c, from, to),
           to \in {"refused", "failed", "claim"} \/ (from = "finish" /\ to = "ok")
              \/ (from = "create" /\ to \in {"secret", "release"}),
           UNCHANGED <<token, used, secrets, awaited, enrolled>>
    PROVE  /\ OneOwner' /\ SecretInOrder' /\ SecretIsUsed' /\ OneEnrollment'
           /\ AwaitsItsOwn' /\ EnrolledIsLast' /\ OneDevice'
<1> USE DEF IInv
<1>1. /\ stage[c] = from
      /\ \A d \in Conns : stage'[d] = IF d = c THEN to ELSE stage[d]
    BY DEF Goto, TypeOK
<1>2. \A d \in Conns : Owns(d)' => Owns(d)
    BY <1>1 DEF Owns
<1>3. OneOwner' /\ EnrolledIsLast'
    BY <1>2 DEF OneOwner, EnrolledIsLast
<1>4. SecretInOrder'
    BY <1>1 DEF SecretInOrder
<1>5. SecretIsUsed' /\ OneEnrollment' /\ AwaitsItsOwn' /\ OneDevice'
    BY DEF SecretIsUsed, OneEnrollment, AwaitsItsOwn, OneDevice
<1> QED
    BY <1>3, <1>4, <1>5

\* One step of the server or a device.
LEMMA Preserved == IInv /\ [Next]_vars => IInv'
<1> SUFFICES ASSUME IInv, [Next]_vars PROVE IInv'
    OBVIOUS
<1> USE DEF IInv
<1>0. TypeOK'
    BY TypePreserved
<1> DEFINE Rest == /\ OneOwner' /\ SecretInOrder' /\ SecretIsUsed' /\ OneEnrollment'
                   /\ AwaitsItsOwn' /\ EnrolledIsLast' /\ OneDevice'
<1>1. ASSUME NEW c \in Conns, Lookup(c) PROVE Rest
    <2>1. PICK to \in {"refused", "claim"} : Goto(c, "sent", to)
        BY <1>1 DEF Lookup
    <2> QED
        BY <1>1, <2>1, PlainMove DEF Lookup, server, device
<1>2. ASSUME NEW c \in Conns, Claim(c) PROVE Rest
    <2>1. CASE used[token[c]] \/ expired[token[c]]
        <3>1. Goto(c, "claim", "refused") /\ UNCHANGED <<token, used, secrets, awaited, enrolled>>
            BY <1>2, <2>1 DEF Claim, device
        <3> QED
            BY <3>1, PlainMove
    <2>2. CASE ~(used[token[c]] \/ expired[token[c]])
        <3> DEFINE t == token[c]
        <3>1. /\ t \in Tokens /\ ~used[t] /\ stage[c] = "claim"
              /\ used' = [used EXCEPT ![t] = TRUE]
              /\ stage' = [stage EXCEPT ![c] = "create"]
              /\ UNCHANGED <<token, secrets, awaited, enrolled>>
            BY <1>2, <2>2 DEF Claim, Goto, device, TypeOK
        <3>2. /\ \A d \in Conns : stage'[d] = IF d = c THEN "create" ELSE stage[d]
              /\ \A u \in Tokens : used'[u] = (u = t \/ used[u])
            BY <3>1 DEF TypeOK
        <3>3. secrets[t] = 0
            BY <3>1 DEF SecretIsUsed, OneEnrollment, TypeOK
        <3>4. \A d \in Conns : Owns(d) => token[d] # t /\ token[d] \in Tokens
            BY <3>1 DEF OneOwner, TypeOK, Owns
        <3> HIDE DEF t
        <3>5. \A d \in Conns : Owns(d)' <=> d = c \/ Owns(d)
            BY <3>2 DEF Owns
        <3>6. OneOwner'
            <4>1. \A d \in Conns : Owns(d)' => used'[token'[d]]
                <5> SUFFICES ASSUME NEW d \in Conns, Owns(d)' PROVE used'[token[d]]
                    BY <3>1
                <5>1. CASE d = c
                    BY <3>1, <3>2, <5>1 DEF t
                <5>2. CASE d # c
                    <6>1. Owns(d) /\ token[d] \in Tokens /\ used[token[d]]
                        BY <3>4, <3>5, <5>2 DEF OneOwner
                    <6> QED
                        BY <3>2, <6>1
                <5> QED
                    BY <5>1, <5>2
            <4>2. \A d, e \in Conns : Owns(d)' /\ Owns(e)' /\ token'[e] = token'[d] => d = e
                BY <3>1, <3>4, <3>5 DEF OneOwner, t
            <4> QED
                BY <4>1, <4>2 DEF OneOwner
        <3>7. SecretInOrder'
            BY <3>1, <3>2, <3>3 DEF SecretInOrder, t
        <3>8. SecretIsUsed' /\ OneEnrollment' /\ AwaitsItsOwn' /\ OneDevice'
            BY <3>1, <3>2 DEF SecretIsUsed, OneEnrollment, AwaitsItsOwn, OneDevice
        <3>9. EnrolledIsLast'
            <4>1. \A a \in Agents : enrolled[a] => Provisioned[a] # t
                BY <3>3 DEF EnrolledIsLast
            <4> QED
                BY <3>1, <3>5, <4>1 DEF EnrolledIsLast, t
        <3> QED
            BY <3>6, <3>7, <3>8, <3>9
    <2> QED
        BY <2>1, <2>2
<1>3. ASSUME NEW c \in Conns, Create(c) \/ CreateFails(c) PROVE Rest
    <2>1. PICK to \in {"secret", "release"} : Goto(c, "create", to)
        BY <1>3 DEF Create, CreateFails
    <2> QED
        BY <1>3, <2>1, PlainMove DEF Create, CreateFails, device
<1>4. ASSUME NEW c \in Conns, StoreSecret(c) PROVE Rest
    <2> DEFINE t == token[c]
    <2>1. /\ stage[c] = "secret" /\ t \in Tokens
          /\ stage' = [stage EXCEPT ![c] = "finish"]
          /\ secrets' = [secrets EXCEPT ![t] = secrets[t] + 1]
          /\ UNCHANGED <<token, used, awaited, enrolled>>
        BY <1>4 DEF StoreSecret, Goto, device, TypeOK
    <2>2. Owns(c) /\ secrets[t] = 0 /\ used[t]
        BY <2>1 DEF Owns, SecretInOrder, OneOwner
    <2>3. /\ \A d \in Conns : stage'[d] = IF d = c THEN "finish" ELSE stage[d]
          /\ \A u \in Tokens : secrets'[u] = IF u = t THEN 1 ELSE secrets[u]
        BY <2>1, <2>2 DEF TypeOK
    <2>4. \A d \in Conns : Owns(d)' <=> Owns(d)
        BY <2>1, <2>3 DEF Owns
    <2>5. \A d \in Conns : Owns(d) /\ token[d] = t => d = c
        BY <2>2 DEF OneOwner
    <2>6. \A d \in Conns : Owns(d) => token[d] \in Tokens
        BY DEF Owns, TypeOK
    <2> HIDE DEF t
    <2>7. OneOwner'
        BY <2>1, <2>4 DEF OneOwner
    <2>8. SecretInOrder'
        BY <2>1, <2>3, <2>5, <2>6 DEF SecretInOrder, Owns, t
    <2>9. SecretIsUsed' /\ OneEnrollment'
        BY <2>1, <2>2, <2>3 DEF SecretIsUsed, OneEnrollment
    <2>10. AwaitsItsOwn' /\ OneDevice'
        BY <2>1 DEF AwaitsItsOwn, OneDevice
    <2>11. EnrolledIsLast'
        BY <2>1, <2>3, <2>4, EnrollmentAssumption DEF EnrolledIsLast
    <2> QED
        BY <2>7, <2>8, <2>9, <2>10, <2>11
<1>5. ASSUME NEW c \in Conns, Finish(c) PROVE Rest
    BY <1>5, PlainMove DEF Finish, server, device
<1>6. ASSUME NEW c \in Conns, StepFails(c) PROVE Rest
    <2>1. PICK from \in {"secret", "finish"} : Goto(c, from, "failed")
        BY <1>6 DEF StepFails
    <2> QED
        BY <1>6, <2>1, PlainMove DEF StepFails, server, device
<1>7. ASSUME NEW c \in Conns, Release(c) PROVE Rest
    <2> DEFINE t == token[c]
    <2>1. /\ stage[c] = "release" /\ t \in Tokens
          /\ stage' = [stage EXCEPT ![c] = "failed"]
          /\ used' = [used EXCEPT ![t] = FALSE]
          /\ UNCHANGED <<token, secrets, awaited, enrolled>>
        BY <1>7 DEF Release, Goto, device, TypeOK
    <2>2. Owns(c) /\ secrets[t] = 0
        BY <2>1 DEF Owns, SecretInOrder
    <2>3. /\ \A d \in Conns : stage'[d] = IF d = c THEN "failed" ELSE stage[d]
          /\ \A u \in Tokens : used'[u] = IF u = t THEN FALSE ELSE used[u]
        BY <2>1 DEF TypeOK
    <2>4. \A d \in Conns : Owns(d)' => Owns(d) /\ d # c /\ token[d] # t /\ token[d] \in Tokens
        <3>1. \A d \in Conns : Owns(d)' => Owns(d) /\ d # c
            BY <2>3 DEF Owns
        <3> QED
            BY <2>2, <3>1 DEF OneOwner, Owns, TypeOK
    <2> HIDE DEF t
    <2>5. OneOwner'
        BY <2>1, <2>3, <2>4 DEF OneOwner
    <2>6. SecretInOrder'
        BY <2>1, <2>3 DEF SecretInOrder
    <2>7. SecretIsUsed' /\ OneEnrollment' /\ AwaitsItsOwn' /\ OneDevice'
        BY <2>1, <2>2, <2>3 DEF SecretIsUsed, OneEnrollment, AwaitsItsOwn, OneDevice
    <2>8. EnrolledIsLast'
        BY <2>1, <2>4 DEF EnrolledIsLast
    <2> QED
        BY <2>5, <2>6, <2>7, <2>8
<1>8. ASSUME NEW c \in Conns, Break(c) \/ Answer(c) PROVE Rest
    <2>1. /\ stage' = [stage EXCEPT ![c] = "free"]
          /\ token' = [token EXCEPT ![c] = NoToken]
          /\ awaited' = [a \in Agents |-> awaited[a] \ {c}]
          /\ UNCHANGED <<used, secrets>>
        BY <1>8 DEF Break, Answer, End, server
    <2>2. /\ \A d \in Conns : stage'[d] = IF d = c THEN "free" ELSE stage[d]
          /\ \A d \in Conns : d # c => token'[d] = token[d]
        BY <2>1 DEF TypeOK
    <2>3. \A d \in Conns : Owns(d)' <=> Owns(d) /\ d # c
        BY <2>2 DEF Owns
    <2>4. OneOwner'
        BY <2>1, <2>2, <2>3 DEF OneOwner
    <2>5. SecretInOrder'
        BY <2>1, <2>2 DEF SecretInOrder
    <2>6. SecretIsUsed' /\ OneEnrollment'
        BY <2>1 DEF SecretIsUsed, OneEnrollment
    <2>7. AwaitsItsOwn'
        <3>1. \A a \in Agents : awaited'[a] \subseteq awaited[a] /\ c \notin awaited'[a]
            BY <2>1
        <3>2. \A a \in Agents : awaited[a] \subseteq Conns
            BY DEF TypeOK
        <3> QED
            BY <2>2, <3>1, <3>2 DEF AwaitsItsOwn
    <2>8. ASSUME NEW a \in Agents, enrolled'[a]
          PROVE  enrolled[a] \/ (c \in awaited[a] /\ stage[c] = "ok")
        <3>1. CASE Break(c)
            <4>1. enrolled' = enrolled
                BY <3>1 DEF Break
            <4> QED
                BY <2>8, <4>1
        <3>2. CASE Answer(c)
            <4>1. enrolled' = [e \in Agents |-> \/ enrolled[e]
                                               \/ /\ e \in {b \in Agents : c \in awaited[b]}
                                                  /\ stage[c] = "ok"]
                BY <3>2 DEF Answer
            <4> QED
                BY <2>8, <4>1
        <3> QED
            BY <1>8, <3>1, <3>2
    <2>9. ASSUME NEW a \in Agents, c \in awaited[a], stage[c] = "ok"
          PROVE  /\ token[c] = Provisioned[a] /\ Owns(c) /\ secrets[Provisioned[a]] = 1
                 /\ \A b \in Agents : enrolled[b] => Provisioned[b] # Provisioned[a]
                 /\ \A b \in Agents : c \in awaited[b] => a = b
                 /\ \A d \in Conns : Owns(d) /\ d # c => token[d] # Provisioned[a]
        <3>1. token[c] = Provisioned[a] /\ \A b \in Agents : c \in awaited[b] => a = b
            BY <2>9 DEF AwaitsItsOwn
        <3>2. Owns(c) /\ secrets[Provisioned[a]] = 1
            BY <2>9, <3>1 DEF Owns, SecretInOrder
        <3>3. \A b \in Agents : enrolled[b] => Provisioned[b] # Provisioned[a]
            BY <3>1, <3>2 DEF EnrolledIsLast
        <3>4. \A d \in Conns : Owns(d) /\ d # c => token[d] # Provisioned[a]
            BY <3>1, <3>2 DEF OneOwner
        <3> QED
            BY <3>1, <3>2, <3>3, <3>4
    <2>10. EnrolledIsLast'
        <3>1. ASSUME NEW a \in Agents, enrolled'[a] PROVE secrets'[Provisioned[a]] = 1
            BY <2>1, <2>8, <2>9, <3>1 DEF EnrolledIsLast
        <3>2. ASSUME NEW a \in Agents, enrolled'[a], NEW d \in Conns, Owns(d)'
              PROVE  token'[d] # Provisioned[a]
            <4>1. Owns(d) /\ d # c /\ token'[d] = token[d]
                BY <2>2, <2>3, <3>2
            <4> QED
                BY <2>8, <2>9, <3>2, <4>1 DEF EnrolledIsLast
        <3> QED
            BY <3>1, <3>2 DEF EnrolledIsLast
    <2>11. OneDevice'
        <3> SUFFICES ASSUME NEW a \in Agents, NEW b \in Agents, enrolled'[a], enrolled'[b],
                            Provisioned[a] = Provisioned[b]
                     PROVE  a = b
            BY DEF OneDevice
        <3>1. CASE enrolled[a] /\ enrolled[b]
            BY <3>1 DEF OneDevice
        <3>2. CASE ~enrolled[a]
            BY <2>8, <2>9, <3>2
        <3>3. CASE ~enrolled[b]
            BY <2>8, <2>9, <3>3
        <3> QED
            BY <3>1, <3>2, <3>3
    <2> QED
        BY <2>4, <2>5, <2>6, <2>7, <2>10, <2>11
<1>9. ASSUME NEW a \in Agents, NEW c \in Conns, Post(a, c) PROVE Rest
    <2>1. /\ stage[c] = "free" /\ token[c] = NoToken
          /\ stage' = [stage EXCEPT ![c] = "sent"]
          /\ token' = [token EXCEPT ![c] = Provisioned[a]]
          /\ awaited' = [awaited EXCEPT ![a] = {c}]
          /\ UNCHANGED <<used, secrets, enrolled>>
        BY <1>9 DEF Post, server, TypeOK
    <2>2. /\ \A d \in Conns : stage'[d] = IF d = c THEN "sent" ELSE stage[d]
          /\ \A d \in Conns : token'[d] = IF d = c THEN Provisioned[a] ELSE token[d]
          /\ \A b \in Agents : awaited'[b] = IF b = a THEN {c} ELSE awaited[b]
        BY <2>1 DEF TypeOK
    <2>3. \A d \in Conns : Owns(d)' <=> Owns(d) /\ d # c
        BY <2>1, <2>2 DEF Owns
    <2>4. OneOwner' /\ EnrolledIsLast'
        BY <2>1, <2>2, <2>3 DEF OneOwner, EnrolledIsLast
    <2>5. SecretInOrder'
        BY <2>1, <2>2 DEF SecretInOrder
    <2>6. SecretIsUsed' /\ OneEnrollment' /\ OneDevice'
        BY <2>1 DEF SecretIsUsed, OneEnrollment, OneDevice
    <2>7. \A b \in Agents : c \notin awaited[b] /\ awaited[b] \subseteq Conns
        <3>1. \A b \in Agents : Provisioned[b] \in Tokens
            BY EnrollmentAssumption
        <3> QED
            BY <2>1, <3>1, EnrollmentAssumption DEF AwaitsItsOwn, TypeOK
    <2>8. AwaitsItsOwn'
        BY <2>2, <2>7 DEF AwaitsItsOwn
    <2> QED
        BY <2>4, <2>5, <2>6, <2>8
<1>10. ASSUME NEW a \in Agents, GiveUp(a) PROVE Rest
    <2>1. /\ \A b \in Agents : awaited'[b] \subseteq awaited[b]
          /\ UNCHANGED <<used, secrets, stage, token, enrolled>>
        BY <1>10 DEF GiveUp, server, TypeOK
    <2>2. AwaitsItsOwn'
        BY <2>1 DEF AwaitsItsOwn
    <2> QED
        BY <2>1, <2>2 DEF OneOwner, SecretInOrder, SecretIsUsed, OneEnrollment,
                          EnrolledIsLast, OneDevice, Owns
<1>11. ASSUME NEW t \in Tokens, Expire(t) PROVE Rest
    BY <1>11 DEF Expire, server, device, OneOwner, SecretInOrder, SecretIsUsed, OneEnrollment,
                 AwaitsItsOwn, EnrolledIsLast, OneDevice, Owns
<1>12. CASE UNCHANGED vars
    BY <1>0, <1>12 DEF vars, OneOwner, SecretInOrder, SecretIsUsed, OneEnrollment,
                       AwaitsItsOwn, EnrolledIsLast, OneDevice, Owns
<1> QED
    BY <1>0, <1>1, <1>2, <1>3, <1>4, <1>5, <1>6, <1>7, <1>8, <1>9, <1>10, <1>11, <1>12
       DEF Next, Handle, Failure

LEMMA Inductive == Spec => []IInv
BY InitEstablishes, Preserved, PTL DEF Spec

\* For every number of devices, tokens and open exchanges, a token gives credentials to
\* one device row, however often the claim is released and retried.
THEOREM EnrollmentSafe == Spec => []OneEnrollment
<1>1. IInv => OneEnrollment
    BY DEF IInv
<1> QED
    BY Inductive, <1>1, PTL

\* A token enrolls one device, of all that hold it.
THEOREM DeviceSafe == Spec => []OneDevice
<1>1. IInv => OneDevice
    BY DEF IInv
<1> QED
    BY Inductive, <1>1, PTL

\* No device row is created for a token once one of its rows has credentials.
THEOREM NoGhost == Spec => NoSecondRow
<1>1. ASSUME IInv, [Next]_vars
      PROVE  [\A t \in Tokens : rows'[t] > rows[t] => secrets[t] = 0]_vars
    <2> SUFFICES ASSUME NEW t \in Tokens, rows'[t] > rows[t] PROVE secrets[t] = 0
        OBVIOUS
    <2>1. rows[t] \in Nat
        BY <1>1 DEF IInv, TypeOK
    <2>2. PICK c \in Conns : Create(c) \/ CreateFails(c)
        <3>1. rows' # rows
            BY <2>1
        <3> QED
            BY <1>1, <3>1 DEF Next, Handle, Failure, vars, server, Lookup, Claim, StoreSecret, Finish,
                    StepFails, Release, Break, Answer, Post, GiveUp, Expire
    <2>3. stage[c] = "create" /\ t = token[c]
        BY <1>1, <2>1, <2>2 DEF Create, CreateFails, Goto, IInv, TypeOK
    <2> QED
        BY <1>1, <2>3 DEF IInv, SecretInOrder
<1> QED
    BY Inductive, <1>1, PTL DEF NoSecondRow, Spec
===========================================================================
