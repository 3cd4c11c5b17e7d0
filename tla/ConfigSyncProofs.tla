------------------------- MODULE ConfigSyncProofs -------------------------
(* For every number of edits, command rows and concurrent handlers: ConfigSync is *)
(* well typed, racing handlers leave no more open config.apply commands than      *)
(* there are handlers, and none queues a revision the server knows the device to  *)
(* have, or one within its backoff. The count covers the handlers that have seen  *)
(* no open command and not inserted yet as well.                                  *)
EXTENDS ConfigSync, FiniteSetTheorems, TLAPS

\* The fields of a table row.
RowType == [doc : Docs, status : {"none"} \cup OpenStatus \cup Closed, aged : BOOLEAN]

\* Every open command came from a committed handler, so that the open commands and
\* the committed handlers together never outnumber the exchanges.
Balance == Cardinality(Open) + Cardinality(Committed) <= Cardinality(Conns)

\* Writing one field of a row, or answering, expiring or claiming it, keeps its type.
LEMMA RowSteps ==
    ASSUME NEW r \in RowType, NEW id \in Rows, NEW R \in SUBSET Results
    PROVE  /\ [r EXCEPT !.aged = TRUE] \in RowType
           /\ [r EXCEPT !.status = "delivered", !.aged = FALSE] \in RowType
           /\ Recorded(r, id, R) \in RowType
           /\ Recorded(r, id, R).status \in OpenStatus => r.status \in OpenStatus
<1> USE DEF RowType, OpenStatus, Closed, Genuine
<1>1. /\ [r EXCEPT !.aged = TRUE] \in RowType
      /\ [r EXCEPT !.status = "delivered", !.aged = FALSE] \in RowType
      /\ [r EXCEPT !.status = "expired", !.aged = FALSE] \in RowType
    OBVIOUS
<1> DEFINE mine == {a \in R : a.id = id}
<1>2. CASE mine # {}
    <2>1. (CHOOSE a \in mine : TRUE).status \in Genuine
        BY <1>2 DEF Results
    <2> HIDE DEF mine
    <2> DEFINE s == (CHOOSE a \in mine : TRUE).status
    <2> HIDE DEF s
    <2>2. /\ [r EXCEPT !.status = s, !.aged = FALSE] \in RowType
          /\ [r EXCEPT !.status = s, !.aged = FALSE].status \notin OpenStatus
        BY <2>1 DEF s
    <2>3. Recorded(r, id, R) = IF r.status \notin Genuine
                               THEN [r EXCEPT !.status = s, !.aged = FALSE]
                               ELSE IF r.status \in OpenStatus /\ r.aged
                               THEN [r EXCEPT !.status = "expired", !.aged = FALSE]
                               ELSE r
        BY <1>2 DEF Recorded, s, mine
    <2> QED
        BY <1>1, <2>2, <2>3
<1>3. CASE mine = {}
    <2>1. Recorded(r, id, R) = IF r.status \in OpenStatus /\ r.aged
                               THEN [r EXCEPT !.status = "expired", !.aged = FALSE]
                               ELSE r
        BY <1>3 DEF Recorded
    <2> QED
        BY <1>1, <2>1
<1> QED
    BY <1>1, <1>2, <1>3

\* The exchanges a request, a break and the handler's steps write are well formed.
LEMMA ExchangeSteps ==
    ASSUME NEW e \in Exchanges
    PROVE  /\ Free \in Exchanges
           /\ \A r \in Revs, R \in SUBSET Results :
                 [Free EXCEPT !.at = "sent", !.reported = r, !.acks = R] \in Exchanges
           /\ \A at \in Stages : [e EXCEPT !.at = at] \in Exchanges
           /\ \A at \in Stages, r \in Revs :
                 /\ [e EXCEPT !.at = at, !.acks = {}, !.reported = r] \in Exchanges
                 /\ [e EXCEPT !.at = at, !.held = {r}] \in Exchanges
           /\ \A at \in Stages, d \in Docs :
                 [e EXCEPT !.at = at, !.doc = d, !.reported = NoRev] \in Exchanges
           /\ \A at \in Stages, S \in SUBSET Rows :
                 [e EXCEPT !.at = at, !.claimed = S] \in Exchanges
           /\ \A r \in Revs : Heard(e, r) \in Exchanges
           /\ \A S \in SUBSET Rows : Noted(e, S) \in Exchanges
           /\ Reconciled(e) \in Exchanges
<1>1. NoRev \in Revs /\ 0 \in Docs
    BY SyncAssumption DEF Revs, Docs
<1>2. Free \in Exchanges
    BY <1>1 DEF Free, Exchanges, Stages
<1> QED
    BY <1>1, <1>2 DEF Exchanges, Stages, Free, Heard, Noted, Reconciled

\* What the history adds to an exchange is history, and a handler done goes on to the claim.
LEMMA HeardFields ==
    ASSUME NEW e \in Exchanges, NEW r \in Revs
    PROVE  /\ Heard(e, r).at = e.at /\ Heard(e, r).doc = e.doc
           /\ Heard(e, r).reported = e.reported /\ Heard(e, r).news = e.news
           /\ Heard(e, r).held = IF e.at \in Deciding THEN e.held \cup {r} ELSE e.held
BY DEF Exchanges, Heard

LEMMA NotedFields ==
    ASSUME NEW e \in Exchanges, NEW S \in SUBSET Rows
    PROVE  /\ Noted(e, S).at = e.at /\ Noted(e, S).doc = e.doc
           /\ Noted(e, S).reported = e.reported /\ Noted(e, S).held = e.held
           /\ Noted(e, S).news = IF e.at = "insert" THEN e.news \cup S ELSE e.news
BY DEF Exchanges, Noted

LEMMA ReconciledFields == \A e \in Exchanges : Reconciled(e).at = "claim"
BY DEF Exchanges, Reconciled

\* An upsert is heard by the deciding handlers, and changes nothing else of theirs.
LEMMA ReceiveMoves ==
    ASSUME TypeOK, NEW c \in Conns, Receive(c)
    PROVE  /\ known' = IF ex[c].reported = NoRev THEN known ELSE ex[c].reported
           /\ ex'[c].at = "record" /\ ex'[c].reported = ex[c].reported /\ ex'[c].held = {known'}
           /\ \A d \in Conns \ {c} :
                 /\ ex'[d].at = ex[d].at /\ ex'[d].doc = ex[d].doc
                 /\ ex'[d].reported = ex[d].reported /\ ex'[d].news = ex[d].news
                 /\ ex'[d].held = IF ex[d].at \in Deciding THEN ex[d].held \cup {known'}
                                  ELSE ex[d].held
<1>0. \A d \in Conns : ex[d] \in Exchanges
    BY DEF TypeOK
<1>1. known' \in Revs
    BY <1>0 DEF Receive, TypeOK, Exchanges
<1>2. /\ known' = IF ex[c].reported = NoRev THEN known ELSE ex[c].reported
      /\ ex'[c] = [ex[c] EXCEPT !.at = "record", !.held = {known'}]
      /\ \A d \in Conns \ {c} : ex'[d] = Heard(ex[d], known')
    BY DEF Receive
<1>3. /\ ex'[c].at = "record" /\ ex'[c].reported = ex[c].reported /\ ex'[c].held = {known'}
    BY <1>0, <1>2 DEF Exchanges
<1> QED
    BY <1>0, <1>1, <1>2, <1>3, HeardFields

\* Other handlers note the rows a statement writes, and nothing else of theirs changes.
LEMMA WriteMoves ==
    ASSUME TypeOK, NEW c \in Conns, NEW S \in SUBSET Rows,
           \A d \in Conns \ {c} : ex'[d] = Noted(ex[d], S)
    PROVE  \A d \in Conns \ {c} :
              /\ ex'[d].at = ex[d].at /\ ex'[d].doc = ex[d].doc
              /\ ex'[d].reported = ex[d].reported /\ ex'[d].held = ex[d].held
              /\ ex'[d].news = IF ex[d].at = "insert" THEN ex[d].news \cup S ELSE ex[d].news
<1> SUFFICES ASSUME NEW d \in Conns \ {c}
             PROVE  /\ ex'[d].at = ex[d].at /\ ex'[d].doc = ex[d].doc
                    /\ ex'[d].reported = ex[d].reported /\ ex'[d].held = ex[d].held
                    /\ ex'[d].news = IF ex[d].at = "insert" THEN ex[d].news \cup S ELSE ex[d].news
    OBVIOUS
<1>1. ex[d] \in Exchanges /\ ex'[d] = Noted(ex[d], S)
    BY DEF TypeOK
<1> QED
    BY <1>1, NotedFields

\* A broken, delivered or fresh exchange is at no handler's statement.
LEMMA FreeOrSent ==
    ASSUME TypeOK, NEW c \in Conns,
           Break(c) \/ Deliver(c) \/ \E reported \in Revs : Send(c, reported)
    PROVE  ex'[c].at \in {"free", "sent"} /\ \A d \in Conns \ {c} : ex'[d] = ex[d]
<1>1. CASE Break(c) \/ Deliver(c)
    BY <1>1 DEF Break, Deliver, Free, TypeOK
<1>2. ASSUME NEW reported \in Revs, Send(c, reported)
      PROVE  ex'[c].at \in {"free", "sent"} /\ \A d \in Conns \ {c} : ex'[d] = ex[d]
    BY <1>2 DEF Send, Free, TypeOK
<1> QED
    BY <1>1, <1>2

\* What recording and claiming leave the handler with, and the rows they write.
LEMMA RecordMoves ==
    ASSUME TypeOK, NEW c \in Conns, Record(c) \/ Claim(c)
    PROVE  /\ Record(c) => /\ ex'[c].at = "reconcile" /\ ex'[c].reported = Effective(c)
                           /\ ex'[c].held = ex[c].held
           /\ Claim(c) => ex'[c].at = "replied"
           /\ \E S \in SUBSET Rows :
                 /\ {id \in Rows : row'[id] # row[id]} \subseteq S
                 /\ \A d \in Conns \ {c} : ex'[d] = Noted(ex[d], S)
<1>0. ex[c] \in Exchanges /\ row \in [Rows -> [doc : Docs, status : {"none"} \cup OpenStatus \cup Closed, aged : BOOLEAN]]
    BY DEF TypeOK
<1>1. CASE Record(c)
    <2>1. ex'[c] = [ex[c] EXCEPT !.at = "reconcile", !.acks = {}, !.reported = Effective(c)]
        BY <1>1 DEF Record
    <2>2. ex'[c].at = "reconcile" /\ ex'[c].reported = Effective(c) /\ ex'[c].held = ex[c].held
        BY <1>0, <2>1 DEF Exchanges
    <2>3. \A d \in Conns \ {c} : ex'[d] = Noted(ex[d], {id \in Rows : row'[id] # row[id]})
        BY <1>1 DEF Record
    <2>4. ~Claim(c)
        BY <1>1 DEF Record, Claim
    <2> QED
        BY <2>2, <2>3, <2>4
<1>2. CASE Claim(c)
    <2>1. ex'[c] = [ex[c] EXCEPT !.at = "replied", !.claimed = Pending]
        BY <1>2 DEF Claim
    <2>2. ex'[c].at = "replied"
        BY <1>0, <2>1 DEF Exchanges
    <2>3. \A d \in Conns \ {c} : ex'[d] = Noted(ex[d], Pending)
        BY <1>2 DEF Claim
    <2>4. \A id \in Rows : row'[id] # row[id] => id \in Pending
        BY <1>2 DEF Claim
    <2>5. ~Record(c) /\ Pending \in SUBSET Rows
        BY <1>2 DEF Record, Claim, Pending
    <2> QED
        BY <2>2, <2>3, <2>4, <2>5
<1> QED
    BY <1>1, <1>2

\* A document's revision is a revision.
LEMMA RevType == \A d \in Docs : Rev(d) \in Revs
BY SyncAssumption DEF Rev, Revs, Docs

\* Every action keeps every variable in its type.
LEMMA TypePreserved == TypeOK /\ [Next]_vars => TypeOK'
<1> SUFFICES ASSUME TypeOK, [Next]_vars PROVE TypeOK'
    OBVIOUS
<1> USE SyncAssumption DEF TypeOK, tableVars, deviceVars
<1>0. /\ row \in [Rows -> RowType]
      /\ 0 \in Docs /\ desired \in Docs
    BY DEF RowType, Docs
<1>1. ASSUME Edit PROVE TypeOK'
    BY <1>1 DEF Edit
<1>2. ASSUME NEW id \in Rows, Elapse(id) PROVE TypeOK'
    BY <1>2 DEF Elapse
<1>3. ASSUME NEW c \in Conns, Receive(c) PROVE TypeOK'
    <2>1. known' \in Revs
        BY <1>3 DEF Receive, Exchanges
    <2>2. \A d \in Conns : ex'[d] \in Exchanges
        BY <1>3, <2>1, ExchangeSteps DEF Receive, Stages
    <2>3. ex' \in [Conns -> Exchanges]
        BY <1>3, <2>2 DEF Receive
    <2> QED
        BY <1>3, <2>1, <2>3 DEF Receive
<1>4. ASSUME NEW c \in Conns, Record(c) PROVE TypeOK'
    <2>1. ex[c].acks \in SUBSET Results /\ Effective(c) \in Revs
        BY DEF Effective, Exchanges
    <2>2. row' \in [Rows -> RowType]
        BY <1>0, <1>4, <2>1, RowSteps DEF Record
    <2>3. [ex[c] EXCEPT !.at = "reconcile", !.acks = {}, !.reported = Effective(c)]
             \in Exchanges
        BY <2>1, ExchangeSteps DEF Stages
    <2>4. \A d \in Conns : Noted(ex[d], {id \in Rows : row'[id] # row[id]}) \in Exchanges
        BY ExchangeSteps
    <2>5. ex' \in [Conns -> Exchanges]
        BY <1>4, <2>3, <2>4 DEF Record
    <2> QED
        BY <1>4, <2>2, <2>5 DEF Record, RowType
<1>5. ASSUME NEW c \in Conns, Reconcile(c) \/ Look(c) \/ Decide(c) PROVE TypeOK'
    <2>1. /\ Reconciled(ex[c]) \in Exchanges
          /\ [ex[c] EXCEPT !.at = "look", !.doc = desired, !.reported = NoRev] \in Exchanges
          /\ [ex[c] EXCEPT !.at = "decide"] \in Exchanges
          /\ [ex[c] EXCEPT !.at = "insert"] \in Exchanges
        BY <1>0, ExchangeSteps DEF Stages
    <2>2. ex' \in [Conns -> Exchanges]
        BY <1>5, <2>1 DEF Reconcile, Look, Decide
    <2> QED
        BY <1>5, <2>2 DEF Reconcile, Look, Decide
<1>7. ASSUME NEW c \in Conns, Insert(c) PROVE TypeOK'
    <2> DEFINE kept == {o \in Rows : rank[o] # 0 /\ ~Reusable(o)}
    <2>1. PICK id \in Rows :
             /\ row' = [o \in Rows |->
                         IF o = id THEN [doc |-> ex[c].doc, status |-> "pending", aged |-> FALSE]
                         ELSE IF o \in kept THEN row[o] ELSE NoRow]
             /\ rank' = [o \in Rows |->
                          IF o = id THEN Cardinality(kept) + 1
                          ELSE IF o \in kept
                          THEN Cardinality({p \in kept : rank[p] <= rank[o]}) ELSE 0]
             /\ ex' = [d \in Conns |-> IF d = c THEN Reconciled(ex[c]) ELSE Noted(ex[d], {id})]
        BY <1>7 DEF Insert
    <2>2. [doc |-> ex[c].doc, status |-> "pending", aged |-> FALSE] \in RowType
        BY DEF RowType, OpenStatus, Exchanges
    <2>3. NoRow \in RowType
        BY DEF RowType, NoRow, Docs
    <2>4. row' \in [Rows -> RowType]
        BY <1>0, <2>1, <2>2, <2>3
    <2> DEFINE n == Cardinality(kept) + 1
               m(o) == Cardinality({p \in kept : rank[p] <= rank[o]})
    <2>5. n \in Nat /\ \A o \in Rows : m(o) \in Nat
        <3>1. \A S \in SUBSET Rows : Cardinality(S) \in Nat
            BY FS_Subset, FS_CardinalityType
        <3>2. n \in Nat
            BY <3>1
        <3>3. ASSUME NEW o \in Rows PROVE m(o) \in Nat
            BY <3>1
        <3> QED
            BY <3>2, <3>3
    <2>6. rank' \in [Rows -> Nat]
        <3>2. rank' = [o \in Rows |-> IF o = id THEN n ELSE IF o \in kept THEN m(o) ELSE 0]
            BY <2>1
        <3> HIDE DEF n, m, kept
        <3> QED
            BY <2>5, <3>2
    <2>7. ex' \in [Conns -> Exchanges]
        <3>1. \A d \in Conns : Reconciled(ex[d]) \in Exchanges /\ Noted(ex[d], {id}) \in Exchanges
            BY ExchangeSteps
        <3> QED
            BY <2>1, <3>1
    <2> QED
        BY <1>7, <2>4, <2>6, <2>7 DEF Insert, RowType
<1>8. ASSUME NEW c \in Conns, Claim(c) PROVE TypeOK'
    <2>1. row' \in [Rows -> RowType]
        BY <1>0, <1>8, RowSteps DEF Claim
    <2>2. ex' \in [Conns -> Exchanges]
        <3>1. /\ [ex[c] EXCEPT !.at = "replied", !.claimed = Pending] \in Exchanges
              /\ \A d \in Conns : Noted(ex[d], Pending) \in Exchanges
            BY ExchangeSteps DEF Stages, Pending
        <3> QED
            BY <1>8, <3>1 DEF Claim
    <2> QED
        BY <1>8, <2>1, <2>2 DEF Claim, RowType
<1>9. ASSUME NEW c \in Conns, Break(c) PROVE TypeOK'
    BY <1>9, ExchangeSteps DEF Break
<1>10. ASSUME NEW c \in Conns, NEW reported \in Revs, Send(c, reported) PROVE TypeOK'
    <2>1. [Free EXCEPT !.at = "sent", !.reported = reported, !.acks = buffer] \in Exchanges
        BY ExchangeSteps
    <2> QED
        BY <1>10, <2>1 DEF Send
<1>11. ASSUME NEW c \in Conns, Deliver(c) PROVE TypeOK'
    BY <1>11, ExchangeSteps DEF Deliver, Exchanges
<1>12. ASSUME CycleFails \/ CycleEnds \/ Flush \/ Crash PROVE TypeOK'
    BY <1>12 DEF CycleFails, CycleEnds, Flush, Crash
<1>13. ASSUME NEW id \in Rows, NEW ok \in BOOLEAN, Apply(id, ok) PROVE TypeOK'
    BY <1>13 DEF Apply, Results, Genuine
<1>14. CASE UNCHANGED vars
    BY <1>14 DEF vars
<1> QED
    BY <1>1, <1>2, <1>3, <1>4, <1>5, <1>7, <1>8, <1>9, <1>10, <1>11, <1>12,
       <1>13, <1>14 DEF Next, Server, Device

\* The empty table and the fresh device are well typed.
LEMMA InitTyped == Init => TypeOK
<1> SUFFICES ASSUME Init PROVE TypeOK
    OBVIOUS
<1> USE SyncAssumption
<1>1. NoRow \in [doc : Docs, status : {"none"} \cup OpenStatus \cup Closed, aged : BOOLEAN]
    BY DEF NoRow, Docs
<1>2. Free \in Exchanges
    BY DEF Free, Exchanges, Stages, Revs, Docs
<1>3. NoRev \in Revs /\ 0 \in Docs
    BY DEF Revs, Docs
<1> QED
    BY <1>1, <1>2, <1>3 DEF Init, TypeOK

\* Every reachable state is well typed.
THEOREM TypeCorrect == Spec => []TypeOK
BY InitTyped, TypePreserved, PTL DEF Spec
---------------------------------------------------------------------------
(* Counting the open commands. *)

\* A step that opens no command and commits no handler keeps the balance.
LEMMA Shrinking ==
    ASSUME TypeOK, Balance, Open' \subseteq Open, Committed' \subseteq Committed
    PROVE  Balance'
<1>1. Open \in SUBSET Rows /\ Committed \in SUBSET Conns
    BY DEF Open, Committed
<1>2. IsFiniteSet(Open) /\ IsFiniteSet(Committed)
    BY <1>1, SyncAssumption, FS_Subset
<1>3. /\ Cardinality(Open') <= Cardinality(Open)
      /\ Cardinality(Committed') <= Cardinality(Committed)
      /\ IsFiniteSet(Open') /\ IsFiniteSet(Committed')
    BY <1>2, FS_Subset
<1>4. /\ Cardinality(Open) \in Nat /\ Cardinality(Open') \in Nat
      /\ Cardinality(Committed) \in Nat /\ Cardinality(Committed') \in Nat
      /\ Cardinality(Conns) \in Nat
    BY <1>2, <1>3, SyncAssumption, FS_CardinalityType
<1> QED
    BY <1>3, <1>4 DEF Balance

\* A handler that saw no open command: all there can be is its rivals' commitments.
LEMMA Committing ==
    ASSUME TypeOK, Open' = {}, Committed' \subseteq Conns
    PROVE  Balance'
<1>1. /\ Cardinality(Open') = 0
      /\ Cardinality(Committed') <= Cardinality(Conns)
      /\ Cardinality(Committed') \in Nat /\ Cardinality(Conns) \in Nat
    BY SyncAssumption, FS_EmptySet, FS_Subset, FS_CardinalityType
<1> QED
    BY <1>1 DEF Balance

\* An insert turns one commitment into one open command.
LEMMA Inserting ==
    ASSUME TypeOK, Balance, NEW c \in Committed, NEW id,
           Open' \subseteq Open \cup {id}, Committed' \subseteq Committed \ {c}
    PROVE  Balance'
<1>1. IsFiniteSet(Open) /\ IsFiniteSet(Committed)
    BY SyncAssumption, FS_Subset DEF Open, Committed
<1>2. /\ IsFiniteSet(Open \cup {id}) /\ IsFiniteSet(Committed \ {c})
      /\ Cardinality(Open \cup {id}) <= Cardinality(Open) + 1
      /\ Cardinality(Committed \ {c}) = Cardinality(Committed) - 1
    BY <1>1, FS_AddElement, FS_RemoveElement, FS_CardinalityType
<1>3. /\ IsFiniteSet(Open') /\ IsFiniteSet(Committed')
      /\ Cardinality(Open') <= Cardinality(Open \cup {id})
      /\ Cardinality(Committed') <= Cardinality(Committed \ {c})
    BY <1>2, FS_Subset
<1>4. /\ Cardinality(Open) \in Nat /\ Cardinality(Open') \in Nat
      /\ Cardinality(Committed) \in Nat /\ Cardinality(Committed') \in Nat
      /\ Cardinality(Conns) \in Nat /\ Cardinality(Open \cup {id}) \in Nat
    BY <1>1, <1>2, <1>3, SyncAssumption, FS_CardinalityType
<1> QED
    BY <1>2, <1>3, <1>4 DEF Balance

\* No step of the administrator, the handlers or the device breaks the balance.
LEMMA BalancePreserved == TypeOK /\ TypeOK' /\ Balance /\ [Next]_vars => Balance'
<1> SUFFICES ASSUME TypeOK, TypeOK', Balance, [Next]_vars PROVE Balance'
    OBVIOUS
<1> USE DEF TypeOK, tableVars, deviceVars
<1>0. row \in [Rows -> RowType] /\ ex \in [Conns -> Exchanges]
    BY DEF RowType
<1>1. ASSUME NEW id \in Rows, Elapse(id) PROVE Balance'
    <2>1. \A o \in Rows : row'[o].status = row[o].status
        BY <1>0, <1>1 DEF Elapse, RowType
    <2>2. Open' = Open /\ Committed' = Committed
        BY <1>1, <2>1 DEF Open, Committed, Elapse
    <2> QED
        BY <2>2, Shrinking
<1>2. ASSUME NEW c \in Conns, Record(c) PROVE Balance'
    <2>1. \A o \in Rows : row'[o].status \in OpenStatus => row[o].status \in OpenStatus
        BY <1>0, <1>2, RowSteps DEF Record, Exchanges
    <2>2. \A d \in Conns : ex'[d].at = ex[d].at \/ ex'[d].at = "reconcile"
        <3>1. PICK S \in SUBSET Rows : \A d \in Conns \ {c} : ex'[d] = Noted(ex[d], S)
            BY <1>2, RecordMoves
        <3>2. ex'[c].at = "reconcile"
            BY <1>2, RecordMoves
        <3>3. \A d \in Conns \ {c} : ex'[d].at = ex[d].at
            BY <3>1, WriteMoves
        <3> QED
            BY <3>2, <3>3
    <2>3. Open' \subseteq Open /\ Committed' \subseteq Committed
        BY <2>1, <2>2 DEF Open, Committed
    <2> QED
        BY <2>3, Shrinking
<1>3. ASSUME NEW c \in Conns, Look(c), ~HasOpen PROVE Balance'
    <2>1. Open' = {} /\ Committed' \subseteq Conns
        BY <1>3 DEF Look, HasOpen, Open, Committed
    <2> QED
        BY <2>1, Committing
<1>4. ASSUME NEW c \in Conns,
             \/ Look(c) /\ HasOpen
             \/ Receive(c) \/ Reconcile(c) \/ Decide(c) \/ Break(c) \/ Deliver(c)
             \/ \E reported \in Revs : Send(c, reported)
      PROVE  Balance'
    <2>1. row' = row
        BY <1>4 DEF Look, Receive, Reconcile, Decide, Break, Deliver, Send
    <2>2. \A d \in Conns : ex'[d].at \in {"decide", "insert"} => ex[d].at \in {"decide", "insert"}
        <3>1. CASE Look(c) /\ HasOpen
            BY <1>0, <3>1, ReconciledFields DEF Look
        <3>2. CASE Break(c) \/ Deliver(c)
            BY <1>0, <3>2 DEF Break, Deliver, Free, Exchanges
        <3>6. CASE Receive(c)
            BY <3>6, ReceiveMoves
        <3>3. CASE Reconcile(c)
            BY <1>0, <3>3, ReconciledFields DEF Reconcile, Exchanges
        <3>4. CASE Decide(c)
            BY <1>0, <3>4, ReconciledFields DEF Decide, Exchanges
        <3>5. CASE \E reported \in Revs : Send(c, reported)
            BY <1>0, <3>5 DEF Send, Free, Exchanges
        <3> QED
            BY <1>4, <3>1, <3>2, <3>3, <3>4, <3>5, <3>6
    <2>3. Open' = Open /\ Committed' \subseteq Committed
        BY <2>1, <2>2 DEF Open, Committed
    <2> QED
        BY <2>3, Shrinking
<1>5. ASSUME NEW c \in Conns, Insert(c) PROVE Balance'
    <2>1. PICK id \in Rows :
             /\ \A o \in Rows \ {id} : row'[o] = row[o] \/ row'[o] = NoRow
             /\ ex' = [d \in Conns |-> IF d = c THEN Reconciled(ex[c]) ELSE Noted(ex[d], {id})]
        BY <1>5 DEF Insert
    <2>2. Open' \subseteq Open \cup {id}
        BY <2>1 DEF Open, NoRow, OpenStatus
    <2>3. c \in Committed /\ Committed' \subseteq Committed \ {c}
        <3>0. {id} \in SUBSET Rows /\ \A d \in Conns \ {c} : ex'[d] = Noted(ex[d], {id})
            BY <2>1
        <3>1. \A d \in Conns \ {c} : ex'[d].at = ex[d].at
            BY <3>0, WriteMoves
        <3>2. ex'[c].at = "claim" /\ ex[c].at = "insert"
            BY <1>0, <1>5, <2>1, ReconciledFields DEF Insert
        <3> QED
            BY <3>1, <3>2 DEF Committed
    <2> QED
        BY <2>2, <2>3, Inserting
<1>6. ASSUME NEW c \in Conns, Claim(c) PROVE Balance'
    <2>1. \A o \in Rows : row'[o].status \in OpenStatus => row[o].status \in OpenStatus
        BY <1>0, <1>6 DEF Claim, Pending, OpenStatus
    <2>2. \A d \in Conns : ex'[d].at = ex[d].at \/ ex'[d].at = "replied"
        <3>1. PICK S \in SUBSET Rows : \A d \in Conns \ {c} : ex'[d] = Noted(ex[d], S)
            BY <1>6, RecordMoves
        <3>2. ex'[c].at = "replied"
            BY <1>6, RecordMoves
        <3>3. \A d \in Conns \ {c} : ex'[d].at = ex[d].at
            BY <3>1, WriteMoves
        <3> QED
            BY <3>2, <3>3
    <2>3. Open' \subseteq Open /\ Committed' \subseteq Committed
        BY <2>1, <2>2 DEF Open, Committed
    <2> QED
        BY <2>3, Shrinking
<1>7. CASE \/ Edit \/ CycleFails \/ CycleEnds \/ Flush \/ Crash
           \/ \E id \in Rows, ok \in BOOLEAN : Apply(id, ok)
           \/ UNCHANGED vars
    <2>1. Open' = Open /\ Committed' = Committed
        BY <1>7 DEF Edit, CycleFails, CycleEnds, Flush, Crash, Apply, vars, Open, Committed
    <2> QED
        BY <2>1, Shrinking
<1> QED
    BY <1>1, <1>2, <1>3, <1>4, <1>5, <1>6, <1>7 DEF Next, Server, Device

\* Initially nothing is open and nobody committed.
LEMMA InitBalance == Init => Balance
<1> SUFFICES ASSUME Init PROVE Balance
    OBVIOUS
<1>1. Open = {} /\ Committed = {}
    BY DEF Init, Open, Committed, NoRow, Free, OpenStatus
<1> QED
    BY <1>1, SyncAssumption, FS_EmptySet, FS_CardinalityType DEF Balance

\* The balance holds in every reachable state.
LEMMA Invariance == Spec => [](TypeOK /\ Balance)
BY InitTyped, InitBalance, TypePreserved, BalancePreserved, PTL DEF Spec

\* The balance bounds the open commands.
LEMMA BalanceBounds == TypeOK /\ Balance => OpenBounded
<1> SUFFICES ASSUME TypeOK, Balance PROVE OpenBounded
    OBVIOUS
<1>1. IsFiniteSet(Open) /\ IsFiniteSet(Committed)
    BY SyncAssumption, FS_Subset DEF Open, Committed
<1>2. /\ Cardinality(Open) \in Nat /\ Cardinality(Committed) \in Nat
      /\ Cardinality(Conns) \in Nat
    BY <1>1, SyncAssumption, FS_CardinalityType
<1> QED
    BY <1>2 DEF Balance, OpenBounded

\* Racing handlers leave no more open config.apply commands than there are handlers.
THEOREM RaceBounded == Spec => []OpenBounded
BY Invariance, BalanceBounds, PTL

---------------------------------------------------------------------------
(* What a handler decides from, while others write the table. *)

\* The revision a handler compares the document with is one the server knew: just
\* stored, or the stored one that stands in for an omitted one.
Informed ==
    \A c \in Conns :
        /\ ex[c].at \in Deciding => known \in ex[c].held
        /\ ex[c].at = "record" => Effective(c) \in ex[c].held
        /\ ex[c].at = "reconcile" => ex[c].reported \in ex[c].held

\* The latest row lets a handler about to insert go ahead, or another wrote it since.
Rested ==
    \A c \in Conns, id \in Rows : ex[c].at = "insert" /\ IsLatest(id) =>
        row[id].aged \/ Rev(row[id].doc) # Rev(ex[c].doc) \/ id \in ex[c].news

\* A step that writes no revision, and in the exchanges only what keeps both.
LEMMA InformedStays ==
    ASSUME TypeOK, TypeOK', Informed, DriftIsReal, known' = known,
           \A d \in Conns :
              \/ ex'[d].at \notin Deciding
              \/ /\ ex'[d].at = ex[d].at /\ ex'[d].doc = ex[d].doc
                 /\ ex'[d].reported = ex[d].reported /\ ex'[d].held = ex[d].held
    PROVE  Informed' /\ DriftIsReal'
<1> SUFFICES ASSUME NEW d \in Conns, ex'[d].at \in Deciding
             PROVE  /\ known' \in ex'[d].held
                    /\ ex'[d].at = "record" => Effective(d)' \in ex'[d].held
                    /\ ex'[d].at = "reconcile" => ex'[d].reported \in ex'[d].held
                    /\ ex'[d].at \in {"look", "decide", "insert"} =>
                          \E rev \in ex'[d].held : Rev(ex'[d].doc) # rev
    BY DEF Informed, DriftIsReal, Deciding, Rev
<1>1. /\ ex'[d].at = ex[d].at /\ ex'[d].doc = ex[d].doc
      /\ ex'[d].reported = ex[d].reported /\ ex'[d].held = ex[d].held
    OBVIOUS
<1>2. Effective(d)' = Effective(d)
    BY <1>1 DEF Effective
<1> QED
    BY <1>1, <1>2 DEF Informed, DriftIsReal

\* What a handler compares stays among the revisions it has seen known.
LEMMA InformedNext ==
    ASSUME TypeOK, TypeOK', Informed, DriftIsReal, [Next]_vars
    PROVE  Informed' /\ DriftIsReal'
<1> USE DEF TypeOK, tableVars, deviceVars
<1>1. CASE Edit \/ CycleFails \/ CycleEnds \/ Flush \/ Crash
           \/ (\E id \in Rows : Elapse(id))
           \/ (\E id \in Rows, ok \in BOOLEAN : Apply(id, ok))
           \/ UNCHANGED vars
    <2>1. ex' = ex /\ known' = known
        BY <1>1 DEF Edit, CycleFails, CycleEnds, Flush, Crash, Elapse, Apply, vars
    <2> QED
        BY <2>1, InformedStays
<1>2. ASSUME NEW c \in Conns, Receive(c) PROVE Informed' /\ DriftIsReal'
    <2>1. /\ known' = IF ex[c].reported = NoRev THEN known ELSE ex[c].reported
          /\ ex'[c].at = "record" /\ ex'[c].reported = ex[c].reported /\ ex'[c].held = {known'}
        BY <1>2, ReceiveMoves
    <2>2. \A d \in Conns \ {c} :
             /\ ex'[d].at = ex[d].at /\ ex'[d].doc = ex[d].doc /\ ex'[d].reported = ex[d].reported
             /\ ex'[d].held = IF ex[d].at \in Deciding THEN ex[d].held \cup {known'} ELSE ex[d].held
        BY <1>2, ReceiveMoves
    <2>3. Effective(c)' \in ex'[c].held
        BY <2>1 DEF Effective
    <2>4. \A d \in Conns \ {c} : Effective(d)' \in {Effective(d), known'}
        BY <2>2 DEF Effective
    <2>5. Informed'
        <3> SUFFICES ASSUME NEW d \in Conns, ex'[d].at \in Deciding
                     PROVE  /\ known' \in ex'[d].held
                            /\ ex'[d].at = "record" => Effective(d)' \in ex'[d].held
                            /\ ex'[d].at = "reconcile" => ex'[d].reported \in ex'[d].held
            BY DEF Informed, Deciding
        <3>1. CASE d = c
            BY <2>1, <2>3, <3>1
        <3>2. CASE d # c
            <4>1. /\ ex'[d].at = ex[d].at /\ ex'[d].reported = ex[d].reported
                  /\ ex'[d].held = ex[d].held \cup {known'}
                BY <2>2, <3>2
            <4>2. /\ ex[d].at = "record" => Effective(d) \in ex[d].held
                  /\ ex[d].at = "reconcile" => ex[d].reported \in ex[d].held
                BY DEF Informed
            <4> QED
                BY <2>4, <3>2, <4>1, <4>2
        <3> QED
            BY <3>1, <3>2
    <2>6. DriftIsReal'
        <3> SUFFICES ASSUME NEW d \in Conns, ex'[d].at \in {"look", "decide", "insert"}
                     PROVE  \E rev \in ex'[d].held : Rev(ex'[d].doc) # rev
            BY DEF DriftIsReal, Rev
        <3>1. d # c /\ ex[d].at \in {"look", "decide", "insert"}
            BY <2>1, <2>2
        <3>2. PICK rev \in ex[d].held : Rev(ex[d].doc) # rev
            BY <3>1 DEF DriftIsReal
        <3>3. rev \in ex'[d].held /\ ex'[d].doc = ex[d].doc
            BY <2>2, <3>1
        <3> QED
            BY <3>2, <3>3
    <2> QED
        BY <2>5, <2>6
<1>3. ASSUME NEW c \in Conns, Record(c) PROVE Informed' /\ DriftIsReal'
    <2>1. /\ ex'[c].at = "reconcile" /\ ex'[c].reported = Effective(c)
          /\ ex'[c].held = ex[c].held /\ known' = known /\ ex[c].at = "record"
        BY <1>3, RecordMoves DEF Record
    <2>2. \A d \in Conns \ {c} :
             /\ ex'[d].at = ex[d].at /\ ex'[d].doc = ex[d].doc
             /\ ex'[d].reported = ex[d].reported /\ ex'[d].held = ex[d].held
        <3>1. PICK S \in SUBSET Rows : \A d \in Conns \ {c} : ex'[d] = Noted(ex[d], S)
            BY <1>3, RecordMoves
        <3> QED
            BY <3>1, WriteMoves
    <2>3. Effective(c) \in ex[c].held /\ known \in ex[c].held
        BY <2>1 DEF Informed, Deciding
    <2>4. \A d \in Conns \ {c} : Effective(d)' = Effective(d)
        BY <2>1, <2>2 DEF Effective
    <2>5. Informed'
        BY <2>1, <2>2, <2>3, <2>4 DEF Informed
    <2>6. DriftIsReal'
        BY <2>1, <2>2 DEF DriftIsReal, Rev
    <2> QED
        BY <2>5, <2>6
<1>4. ASSUME NEW c \in Conns, Reconcile(c) PROVE Informed' /\ DriftIsReal'
    <2>1. /\ ex[c].at = "reconcile" /\ known' = known
          /\ ex' = [ex EXCEPT ![c] = ex'[c]]
          /\ \/ ex'[c].at = "claim"
             \/ /\ ex'[c].at = "look" /\ ex'[c].doc = desired /\ ex'[c].held = ex[c].held
                /\ Rev(desired) # ex[c].reported
        BY <1>4, ReconciledFields DEF Reconcile, Exchanges
    <2>2. ex[c].reported \in ex[c].held /\ known \in ex[c].held
        BY <2>1 DEF Informed, Deciding
    <2>3. \A d \in Conns \ {c} : ex'[d] = ex[d] /\ Effective(d)' = Effective(d)
        BY <2>1 DEF Effective
    <2>4. Informed'
        BY <2>1, <2>2, <2>3 DEF Informed, Deciding
    <2>5. DriftIsReal'
        BY <2>1, <2>2, <2>3 DEF DriftIsReal, Rev
    <2> QED
        BY <2>4, <2>5
<1>5. ASSUME NEW c \in Conns, Look(c) \/ Decide(c) PROVE Informed' /\ DriftIsReal'
    <2>1. /\ ex[c].at \in {"look", "decide"} /\ known' = known
          /\ ex' = [ex EXCEPT ![c] = ex'[c]]
          /\ \/ ex'[c].at = "claim"
             \/ /\ ex'[c].at \in {"decide", "insert"}
                /\ ex'[c].doc = ex[c].doc /\ ex'[c].held = ex[c].held
        BY <1>5, ReconciledFields DEF Look, Decide, Exchanges
    <2>2. \A d \in Conns \ {c} : ex'[d] = ex[d] /\ Effective(d)' = Effective(d)
        BY <2>1 DEF Effective
    <2>3. Informed'
        BY <2>1, <2>2 DEF Informed, Deciding
    <2>4. DriftIsReal'
        BY <2>1, <2>2 DEF DriftIsReal, Rev
    <2> QED
        BY <2>3, <2>4
<1>6. ASSUME NEW c \in Conns,
             \/ Insert(c) \/ Claim(c) \/ Break(c) \/ Deliver(c)
             \/ \E reported \in Revs : Send(c, reported)
      PROVE  Informed' /\ DriftIsReal'
    <2>1. known' = known
        BY <1>6 DEF Insert, Claim, Break, Deliver, Send
    <2>2. \A d \in Conns :
             \/ ex'[d].at \notin Deciding
             \/ /\ ex'[d].at = ex[d].at /\ ex'[d].doc = ex[d].doc
                /\ ex'[d].reported = ex[d].reported /\ ex'[d].held = ex[d].held
        <3>1. CASE Insert(c)
            <4>1. PICK id \in Rows : ex' = [d \in Conns |-> IF d = c THEN Reconciled(ex[c])
                                                            ELSE Noted(ex[d], {id})]
                BY <3>1 DEF Insert
            <4>2. \A d \in Conns \ {c} :
                     /\ ex'[d].at = ex[d].at /\ ex'[d].doc = ex[d].doc
                     /\ ex'[d].reported = ex[d].reported /\ ex'[d].held = ex[d].held
                <5>1. PICK S \in SUBSET Rows : \A d \in Conns \ {c} : ex'[d] = Noted(ex[d], S)
                    BY <4>1
                <5> QED
                    BY <5>1, WriteMoves
            <4>3. ex'[c].at = "claim"
                BY <4>1, ReconciledFields
            <4> QED
                BY <4>2, <4>3 DEF Deciding
        <3>2. CASE Claim(c)
            <4>1. PICK S \in SUBSET Rows : \A d \in Conns \ {c} : ex'[d] = Noted(ex[d], S)
                BY <3>2, RecordMoves
            <4>2. ex'[c].at = "replied"
                BY <3>2, RecordMoves
            <4>3. \A d \in Conns \ {c} :
                     /\ ex'[d].at = ex[d].at /\ ex'[d].doc = ex[d].doc
                     /\ ex'[d].reported = ex[d].reported /\ ex'[d].held = ex[d].held
                BY <4>1, WriteMoves
            <4> QED
                BY <4>2, <4>3 DEF Deciding
        <3>3. CASE Break(c) \/ Deliver(c) \/ \E reported \in Revs : Send(c, reported)
            <4>1. ex'[c].at \in {"free", "sent"} /\ \A d \in Conns \ {c} : ex'[d] = ex[d]
                BY <3>3, FreeOrSent
            <4> QED
                BY <4>1 DEF Deciding
        <3> QED
            BY <1>6, <3>1, <3>2, <3>3
    <2> QED
        BY <2>1, <2>2, InformedStays
<1> QED
    BY <1>1, <1>2, <1>3, <1>4, <1>5, <1>6 DEF Next, Server, Device

\* An insert's row is the latest, and no other is.
LEMMA InsertedIsLatest ==
    ASSUME TypeOK, NEW c \in Conns, Insert(c)
    PROVE  \E id \in Rows :
              /\ ex' = [d \in Conns |-> IF d = c THEN Reconciled(ex[c]) ELSE Noted(ex[d], {id})]
              /\ \A o \in Rows : IsLatest(o)' => o = id
<1> DEFINE kept == {o \in Rows : rank[o] # 0 /\ ~Reusable(o)}
           n == Cardinality(kept) + 1
           m(o) == Cardinality({p \in kept : rank[p] <= rank[o]})
<1>1. PICK id \in Rows :
         /\ rank' = [o \in Rows |-> IF o = id THEN n ELSE IF o \in kept THEN m(o) ELSE 0]
         /\ ex' = [d \in Conns |-> IF d = c THEN Reconciled(ex[c]) ELSE Noted(ex[d], {id})]
    BY DEF Insert
<1>2. IsFiniteSet(kept) /\ Cardinality(kept) \in Nat
    BY SyncAssumption, FS_Subset, FS_CardinalityType
<1>3. ASSUME NEW o \in Rows PROVE m(o) \in Nat /\ m(o) <= Cardinality(kept)
    <2>1. {p \in kept : rank[p] <= rank[o]} \subseteq kept
        OBVIOUS
    <2> QED
        BY <1>2, <2>1, FS_Subset, FS_CardinalityType
<1> HIDE DEF kept, m
<1>4. \A o \in Rows : o # id => rank'[o] < rank'[id]
    BY <1>1, <1>2, <1>3
<1>5. \A o \in Rows : rank'[o] \in Nat
    BY <1>1, <1>2, <1>3
<1>6. \A o \in Rows : IsLatest(o)' => o = id
    BY <1>4, <1>5 DEF IsLatest
<1> QED
    BY <1>1, <1>6

\* The row a handler's insert waits behind is as it was when it decided, or older still, or
\* another handler's writing.
LEMMA RestedNext ==
    ASSUME TypeOK, TypeOK', Rested, [Next]_vars
    PROVE  Rested'
<1> USE DEF TypeOK, tableVars, deviceVars
<1>1. CASE Edit \/ CycleFails \/ CycleEnds \/ Flush \/ Crash
           \/ (\E id \in Rows, ok \in BOOLEAN : Apply(id, ok))
           \/ UNCHANGED vars
    <2>1. ex' = ex /\ row' = row /\ rank' = rank
        BY <1>1 DEF Edit, CycleFails, CycleEnds, Flush, Crash, Apply, vars
    <2> QED
        BY <2>1 DEF Rested, IsLatest
<1>2. ASSUME NEW id \in Rows, Elapse(id) PROVE Rested'
    <2>1. /\ ex' = ex /\ rank' = rank
          /\ \A o \in Rows : row'[o].doc = row[o].doc /\ (row[o].aged => row'[o].aged)
        BY <1>2 DEF Elapse
    <2> QED
        BY <2>1 DEF Rested, IsLatest
<1>3. ASSUME NEW c \in Conns, Decide(c) PROVE Rested'
    <2>1. row' = row /\ rank' = rank /\ ex' = [ex EXCEPT ![c] = ex'[c]]
        BY <1>3 DEF Decide
    <2>2. ex'[c].at = "insert" => ex'[c].doc = ex[c].doc /\ ~CoolingDown(ex[c].doc)
        BY <1>3, ReconciledFields DEF Decide, Exchanges
    <2> QED
        BY <2>1, <2>2 DEF Rested, CoolingDown, IsLatest
<1>4. ASSUME NEW c \in Conns,
             \/ Reconcile(c) \/ Look(c)
             \/ Break(c) \/ Deliver(c) \/ \E reported \in Revs : Send(c, reported)
      PROVE  Rested'
    <2>1. row' = row /\ rank' = rank /\ ex' = [ex EXCEPT ![c] = ex'[c]]
        BY <1>4 DEF Reconcile, Look, Break, Deliver, Send
    <2>2. ex'[c].at # "insert"
        <3>1. CASE Reconcile(c) \/ Look(c)
            <4>1. /\ ex[c] \in Exchanges
                  /\ \/ ex'[c] = Reconciled(ex[c])
                     \/ ex'[c] = [ex[c] EXCEPT !.at = "look", !.doc = desired, !.reported = NoRev]
                     \/ ex'[c] = [ex[c] EXCEPT !.at = "decide"]
                BY <3>1 DEF Reconcile, Look
            <4> QED
                BY <4>1, ReconciledFields DEF Exchanges
        <3>2. CASE Break(c) \/ Deliver(c) \/ \E reported \in Revs : Send(c, reported)
            BY <3>2, FreeOrSent
        <3> QED
            BY <1>4, <3>1, <3>2
    <2> QED
        BY <2>1, <2>2 DEF Rested, IsLatest
<1>5. ASSUME NEW c \in Conns, Receive(c) PROVE Rested'
    <2>1. row' = row /\ rank' = rank /\ ex'[c].at = "record"
        BY <1>5, ReceiveMoves DEF Receive
    <2>2. \A d \in Conns \ {c} :
             ex'[d].at = ex[d].at /\ ex'[d].doc = ex[d].doc /\ ex'[d].news = ex[d].news
        BY <1>5, ReceiveMoves
    <2> QED
        BY <2>1, <2>2 DEF Rested, IsLatest
<1>6. ASSUME NEW c \in Conns, Record(c) \/ Claim(c) PROVE Rested'
    <2> DEFINE S == {id \in Rows : row'[id] # row[id]}
    <2>1. rank' = rank /\ ex'[c].at \in {"reconcile", "replied"}
        BY <1>6, RecordMoves DEF Record, Claim
    <2>2. PICK T \in SUBSET Rows :
             /\ S \subseteq T
             /\ \A d \in Conns \ {c} : ex'[d] = Noted(ex[d], T)
        BY <1>6, RecordMoves
    <2>0. \A d \in Conns \ {c} :
             /\ ex'[d].at = ex[d].at /\ ex'[d].doc = ex[d].doc
             /\ ex'[d].news = IF ex[d].at = "insert" THEN ex[d].news \cup T ELSE ex[d].news
        BY <2>2, WriteMoves
    <2> SUFFICES ASSUME NEW d \in Conns, NEW id \in Rows, ex'[d].at = "insert", IsLatest(id)'
                 PROVE  row'[id].aged \/ Rev(row'[id].doc) # Rev(ex'[d].doc) \/ id \in ex'[d].news
        BY DEF Rested, Rev
    <2>3. /\ d # c /\ IsLatest(id) /\ ex[d].at = "insert"
          /\ ex'[d].doc = ex[d].doc /\ ex'[d].news = ex[d].news \cup T
        BY <2>0, <2>1 DEF IsLatest
    <2>4. CASE id \in S
        BY <2>2, <2>3, <2>4
    <2>5. CASE id \notin S
        BY <2>3, <2>5 DEF Rested
    <2> QED
        BY <2>4, <2>5
<1>7. ASSUME NEW c \in Conns, Insert(c) PROVE Rested'
    <2>1. PICK new \in Rows :
             /\ ex' = [d \in Conns |-> IF d = c THEN Reconciled(ex[c]) ELSE Noted(ex[d], {new})]
             /\ \A o \in Rows : IsLatest(o)' => o = new
        BY <1>7, InsertedIsLatest
    <2>2. ex'[c].at # "insert"
        BY <2>1, ReconciledFields
    <2>3. \A d \in Conns \ {c} : ex'[d].at = "insert" => new \in ex'[d].news
        <3>1. PICK S \in SUBSET Rows :
                 new \in S /\ \A d \in Conns \ {c} : ex'[d] = Noted(ex[d], S)
            BY <2>1
        <3>2. \A d \in Conns \ {c} :
                 /\ ex'[d].at = ex[d].at
                 /\ ex'[d].news = IF ex[d].at = "insert" THEN ex[d].news \cup S ELSE ex[d].news
            BY <3>1, WriteMoves
        <3> QED
            BY <3>1, <3>2
    <2> QED
        BY <2>1, <2>2, <2>3 DEF Rested
<1> QED
    BY <1>1, <1>2, <1>3, <1>4, <1>5, <1>6, <1>7 DEF Next, Server, Device

\* At first no handler runs.
LEMMA NobodyDecides == Init => Informed /\ DriftIsReal /\ Rested
BY DEF Init, Informed, DriftIsReal, Rested, Free, Deciding

\* No handler queues what the server knew the device to have, whatever its request omitted
\* and others report meanwhile: a missing field never passes for drift.
THEOREM RealDrift == Spec => []DriftIsReal
<1>1. TypeOK /\ TypeOK' /\ Informed /\ DriftIsReal /\ [Next]_vars => (Informed /\ DriftIsReal)'
    BY InformedNext
<1> QED
    BY <1>1, NobodyDecides, TypeCorrect, PTL DEF Spec

\* No revision is queued again before the backoff since its latest attempt is over, unless
\* another handler wrote that attempt after this one decided.
THEOREM BackoffHeld == Spec => BackoffKept
<1> DEFINE Kept == \A c \in Conns, id \in Rows :
                      ex[c].at = "insert" /\ ex'[c].at = "claim" /\ IsLatest(id) =>
                         \/ row[id].aged
                         \/ Rev(row[id].doc) # Rev(ex[c].doc)
                         \/ id \in ex[c].news
<1>1. TypeOK /\ TypeOK' /\ Rested /\ [Next]_vars => Rested'
    BY RestedNext
<1>2. Rested => Kept
    BY DEF Rested
<1> HIDE DEF Kept
<1>3. Spec => [][Kept]_vars
    BY <1>1, <1>2, NobodyDecides, TypeCorrect, PTL DEF Spec
<1> QED
    BY <1>3 DEF BackoffKept, Kept
===========================================================================
