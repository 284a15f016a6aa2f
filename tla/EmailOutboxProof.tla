-------------------------- MODULE EmailOutboxProof --------------------------
(***************************************************************************)
(* Proofs about EmailOutbox, for any number of messages, workers and rows, *)
(* any clock bound, batch size, retry budget, claim TTL and retention.     *)
(***************************************************************************)
EXTENDS EmailOutbox, TLAPS

-----------------------------------------------------------------------------
(* Facts about the operators.                                              *)

\* The token a claim draws is a token, and neither a row nor a worker has it.
LEMMA ClaimTokenIsFresh ==
    ASSUME \E t \in Tokens : FreshToken(t)
    PROVE  /\ generateClaimToken \in Tokens
           /\ FreshToken(generateClaimToken)
  BY DEF generateClaimToken

\* Statements of email.sql keep rows well typed.
LEMMA StatementTypes ==
    ASSUME NEW r \in Row, NEW t \in Time
    PROVE  /\ NoRow \in Row
           /\ \A m \in Messages : EnqueueEmail(m, t) \in Row
           /\ \A k \in Tokens : ClaimRow(r, t, k) \in Row
           /\ MarkEmailSent(r, t) \in Row
           /\ MarkEmailFailed(r, t) \in Row
           /\ MarkEmailFailedPermanently(r, t) \in Row
  <1> USE DEF Row, Statuses, Time, Null
  <1>1. NoRow \in Row
    BY DEF NoRow
  <1>2. ASSUME NEW m \in Messages
        PROVE  EnqueueEmail(m, t) \in Row
    BY DEF EnqueueEmail
  <1>3. ASSUME NEW k \in Tokens
        PROVE  ClaimRow(r, t, k) \in Row
    <2>1. t + ClaimTTL \in Nat
      BY OutboxAssumption
    <2> QED
      BY <2>1 DEF ClaimRow
  <1>4. MarkEmailSent(r, t) \in Row
    BY DEF Unclaimed, MarkEmailSent
  <1>5. MarkEmailFailed(r, t) \in Row
    BY DEF Unclaimed, MarkEmailFailed
  <1>6. MarkEmailFailedPermanently(r, t) \in Row
    BY DEF Unclaimed, MarkEmailFailedPermanently
  <1> QED
    BY <1>1, <1>2, <1>3, <1>4, <1>5, <1>6

\* The row a mark statement writes is well typed.
LEMMA MarkedType ==
    ASSUME TypeOK, NEW w \in Workers, cur[w] \in Email
    PROVE  Marked(w) \in Row
  <1>1. cur[w].id \in Ids
    BY DEF Email
  <1>2. rows[cur[w].id] \in Row
    BY <1>1 DEF TypeOK
  <1>3. at[w] \in Time /\ at[w] + RetryDelay \in Time
    BY OutboxAssumption DEF TypeOK, Time
  <1> QED
    BY <1>2, <1>3, StatementTypes DEF Marked

\* An email of a batch is what a worker in state "mark" has in hand.
Holding ==
    \A w \in Workers :
       /\ pc[w] = "mark" => cur[w] \in batch[w]
       /\ pc[w] \notin {"send", "mark"} => batch[w] = {}

\* A row holds a message that was enqueued, an absent one none, and a row
\* carries a claim token exactly while it is being sent.
RowShape ==
    \A i \in Ids :
       /\ Exists(i) => rows[i].msg \in enqueued
       /\ ~Exists(i) => rows[i].msg = NoMessage
       /\ rows[i].claim_token # Null <=> rows[i].status = "sending"

TypeInv == TypeOK /\ Holding /\ RowShape

\* The empty outbox is well typed and no worker holds an email.
LEMMA InitTypeInv == Init => TypeInv
  <1> SUFFICES ASSUME Init PROVE TypeInv
    OBVIOUS
  <1>1. NoRow \in Row
    BY DEF Row, NoRow, Statuses, Time, Null
  <1>2. TypeOK
    BY <1>1 DEF Init, TypeOK, Time, Null
  <1>3. Holding /\ RowShape
    BY DEF Init, Holding, RowShape, Exists, NoRow, Null
  <1> QED
    BY <1>2, <1>3 DEF TypeInv

\* The claim statement keeps the table well typed and every row's message, and
\* the emails it hands out are emails.
LEMMA ClaimType ==
    ASSUME TypeInv, NEW w \in Workers, NEW S \in SUBSET Ids, ClaimRows(w, S)
    PROVE  /\ rows' \in [Ids -> Row]
           /\ enqueued' = enqueued => RowShape'
           /\ Claimed(w, S) \in SUBSET Email
           /\ excused' \subseteq Messages
  <1> DEFINE tok == generateClaimToken
  <1>1. tok \in Tokens
    BY ClaimTokenIsFresh DEF ClaimRows
  <1>2. at[w] \in Time /\ at[w] + ClaimTTL \in Time
    BY OutboxAssumption DEF TypeInv, TypeOK, Time
  <1>3. rows' = [i \in Ids |-> IF i \in S THEN ClaimRow(rows[i], at[w], tok) ELSE rows[i]]
    BY DEF ClaimRows, ClaimPendingEmails
  <1>4. \A i \in S : i \in Ids /\ Exists(i) /\ rows[i].msg \in Messages
    BY DEF ClaimRows, ClaimSet, Due, Exists, TypeInv, TypeOK, RowShape
  <1>5. \A i \in Ids : rows[i] \in Row
    BY DEF TypeInv, TypeOK
  <1>6. \A i \in Ids : ClaimRow(rows[i], at[w], tok) \in Row
    BY <1>1, <1>2, <1>5, StatementTypes
  <1>7. rows' \in [Ids -> Row]
    BY <1>3, <1>5, <1>6
  <1>8. enqueued' = enqueued => RowShape'
    BY <1>1, <1>3, <1>4 DEF RowShape, Exists, ClaimRow, TypeInv, Tokens, Null
  <1>9. ASSUME NEW i \in S
        PROVE  [id |-> i, msg |-> rows[i].msg, attempts |-> rows[i].attempts,
                claim_token |-> tok, until |-> at[w] + ClaimTTL] \in Email
    BY <1>1, <1>2, <1>4, <1>5 DEF Email, Row
  <1>10. Claimed(w, S) \in SUBSET Email
    BY <1>9 DEF Claimed
  <1>11. excused' \subseteq Messages
    BY <1>4 DEF ClaimRows, TypeInv, TypeOK
  <1> QED
    BY <1>7, <1>8, <1>10, <1>11

\* Every step of the outbox, a worker, the clock or the cleanup job keeps the
\* types, who holds what, and the shape of the rows.
LEMMA NextTypeInv == TypeInv /\ [Next]_vars => TypeInv'
  <1> SUFFICES ASSUME TypeInv, [Next]_vars PROVE TypeInv'
    OBVIOUS
  <1> USE DEF workerVars, historyVars
  <1>a. TypeOK /\ Holding /\ RowShape
    BY DEF TypeInv
  <1>b. ASSUME NEW w \in Workers, pc[w] = "mark"
        PROVE  cur[w] \in Email /\ cur[w].id \in Ids /\ cur[w].msg \in Messages
    BY <1>a, <1>b DEF Holding, TypeOK, Email
  <1>c. ASSUME NEW w \in Workers, NextEmail(w)
        PROVE  /\ pc' \in [Workers -> {"down", "idle", "claim", "send", "mark"}]
               /\ at' \in [Workers -> Time]
               /\ batch' \in [Workers -> SUBSET Email]
               /\ cur' \in [Workers -> Email \cup {NoEmail}]
               /\ outcome' \in [Workers -> {"none", "ok", "error"}]
               /\ Holding'
    BY <1>a, <1>c DEF NextEmail, TypeOK, Holding, Time, Null
  <1>d. ASSUME NEW w \in Workers, EndCycle(w)
        PROVE  /\ pc' \in [Workers -> {"down", "idle", "claim", "send", "mark"}]
               /\ at' \in [Workers -> Time]
               /\ batch' \in [Workers -> SUBSET Email]
               /\ cur' \in [Workers -> Email \cup {NoEmail}]
               /\ outcome' \in [Workers -> {"none", "ok", "error"}]
               /\ Holding'
    BY <1>a, <1>d DEF EndCycle, TypeOK, Holding, Time, Null
  <1>e. ASSUME NEW w \in Workers, pc[w] = "mark", enqueued' = enqueued,
               rows' = [rows EXCEPT ![cur[w].id] = Marked(w)], Owns(w)
        PROVE  rows' \in [Ids -> Row] /\ RowShape'
    <2>1. Marked(w) \in Row
      BY <1>a, <1>b, <1>e, MarkedType
    <2>2. rows' \in [Ids -> Row]
      BY <1>a, <1>b, <1>e, <2>1 DEF TypeOK
    <2>3. /\ Marked(w).msg = rows[cur[w].id].msg
          /\ Marked(w).claim_token = Null
          /\ Marked(w).status \in {"pending", "sent", "failed"}
      BY DEF Marked, MarkEmailSent, MarkEmailFailed, MarkEmailFailedPermanently, Unclaimed
    <2>4. Exists(cur[w].id)
      <3>1. cur[w].claim_token \in Tokens
        BY <1>b, <1>e DEF Email
      <3>2. rows[cur[w].id].claim_token # Null
        BY <3>1, <1>e DEF Owns, Tokens, Null
      <3> QED
        BY <3>2, <1>a, <1>b, <1>e DEF Exists, RowShape
    <2>5. RowShape'
      BY <1>a, <1>b, <1>e, <2>3, <2>4 DEF RowShape, TypeOK, Exists
    <2> QED
      BY <2>2, <2>5
  <1>1. CASE Tick
    BY <1>1, <1>a DEF Tick, TypeInv, TypeOK, Holding, RowShape, Exists, Time
  <1>2. ASSUME NEW m \in Messages, Enqueue(m)
        PROVE  TypeInv'
    <2>1. PICK i \in Ids, t \in 1..now : rows' = [rows EXCEPT ![i] = EnqueueEmail(m, t)]
      BY <1>2 DEF Enqueue
    <2>2. EnqueueEmail(m, t) \in Row
      BY <1>a DEF TypeOK, EnqueueEmail, Row, Statuses, Time, Null
    <2>3. /\ EnqueueEmail(m, t).msg = m
          /\ EnqueueEmail(m, t).claim_token = Null
          /\ EnqueueEmail(m, t).status = "pending"
      BY DEF EnqueueEmail
    <2>4. TypeOK'
      BY <1>2, <1>a, <2>1, <2>2 DEF Enqueue, TypeOK
    <2>5. Holding'
      BY <1>2, <1>a DEF Enqueue, Holding
    <2>6. RowShape'
      BY <1>2, <1>a, <2>1, <2>3 DEF Enqueue, RowShape, Exists, TypeOK
    <2> QED
      BY <2>4, <2>5, <2>6 DEF TypeInv
  <1>3. ASSUME NEW w \in Workers, StartCycle(w)
        PROVE  TypeInv'
    BY <1>3, <1>a DEF StartCycle, TypeInv, TypeOK, Holding, RowShape, Exists, Time
  <1>4. ASSUME NEW w \in Workers, ClaimPending(w)
        PROVE  TypeInv'
    <2>1. PICK S \in SUBSET Ids :
             /\ ClaimRows(w, S)
             /\ IF S = {}
                THEN EndCycle(w)
                ELSE /\ pc' = [pc EXCEPT ![w] = "send"]
                     /\ at' = [at EXCEPT ![w] = Null]
                     /\ batch' = [batch EXCEPT ![w] = Claimed(w, S)]
                     /\ UNCHANGED <<cur, outcome>>
             /\ UNCHANGED <<now, faults, enqueued, copies, errors>>
      BY <1>4 DEF ClaimPending
    <2>2. /\ rows' \in [Ids -> Row] /\ RowShape'
          /\ Claimed(w, S) \in SUBSET Email /\ excused' \subseteq Messages
      BY <2>1, ClaimType
    <2>3. CASE S = {}
      BY <2>1, <2>2, <2>3, <1>a, <1>d DEF TypeInv, TypeOK
    <2>4. CASE S # {}
      <3>1. TypeOK'
        BY <2>1, <2>2, <2>4, <1>a DEF TypeOK, Time, Null
      <3>2. Holding'
        BY <2>1, <2>4, <1>a DEF Holding, TypeOK
      <3> QED
        BY <3>1, <3>2, <2>2 DEF TypeInv
    <2> QED
      BY <2>3, <2>4
  <1>5. ASSUME NEW w \in Workers, ClaimError(w)
        PROVE  TypeInv'
    <2>1. /\ rows' \in [Ids -> Row] /\ RowShape' /\ excused' \subseteq Messages
      <3>1. CASE UNCHANGED <<rows, excused>>
        BY <3>1, <1>5, <1>a DEF ClaimError, TypeOK, RowShape, Exists
      <3>2. CASE \E S \in SUBSET Ids : S # {} /\ ClaimRows(w, S)
        BY <3>2, <1>5, ClaimType DEF ClaimError
      <3> QED
        BY <3>1, <3>2, <1>5 DEF ClaimError
    <2> QED
      BY <2>1, <1>5, <1>a, <1>d DEF ClaimError, TypeInv, TypeOK
  <1>6. ASSUME NEW w \in Workers, Send(w)
        PROVE  TypeInv'
    <2>1. PICK e \in batch[w], res \in SendResults :
          /\ cur' = [cur EXCEPT ![w] = e]
          /\ outcome' = [outcome EXCEPT
                           ![w] = IF res = "accepted" THEN "ok" ELSE "error"]
          /\ copies' = IF res = "rejected" THEN copies
                       ELSE [copies EXCEPT ![e.msg] = IF @ < 2 THEN @ + 1 ELSE @]
          /\ errors' = IF res = "accepted" THEN errors
                       ELSE [errors EXCEPT ![e.msg] = @ + 1]
          /\ excused' = IF res = "accepted_then_error"
                        THEN excused \cup {e.msg} ELSE excused
      BY <1>6 DEF Send
    <2>2. e \in Email /\ e.msg \in Messages
      BY <2>1, <1>a DEF TypeOK, Email
    <2>3. copies' \in [Messages -> 0..2] /\ errors' \in [Messages -> Nat]
      BY <2>1, <2>2, <1>a DEF TypeOK
    <2>4. TypeOK'
      BY <2>1, <2>2, <2>3, <1>6, <1>a DEF Send, TypeOK, Time
    <2>5. Holding' /\ RowShape'
      BY <2>1, <2>2, <1>6, <1>a DEF Send, TypeOK, Holding, RowShape, Exists
    <2> QED
      BY <2>4, <2>5 DEF TypeInv
  <1>7. ASSUME NEW w \in Workers, Mark(w)
        PROVE  TypeInv'
    <2>1. rows' \in [Ids -> Row] /\ RowShape'
      BY <1>7, <1>e DEF Mark
    <2> QED
      BY <1>7, <1>a, <1>c, <2>1 DEF Mark, TypeInv, TypeOK
  <1>8. ASSUME NEW w \in Workers, SkipClaimLost(w)
        PROVE  TypeInv'
    BY <1>8, <1>a, <1>c DEF SkipClaimLost, TypeInv, TypeOK, RowShape, Exists
  <1>9. ASSUME NEW w \in Workers, MarkError(w)
        PROVE  TypeInv'
    <2>1. rows' \in [Ids -> Row] /\ RowShape'
      <3>1. CASE UNCHANGED rows
        BY <3>1, <1>9, <1>a DEF MarkError, TypeOK, RowShape, Exists
      <3>2. CASE Owns(w) /\ rows' = [rows EXCEPT ![cur[w].id] = Marked(w)]
        BY <3>2, <1>9, <1>e DEF MarkError
      <3> QED
        BY <3>1, <3>2, <1>9 DEF MarkError
    <2> QED
      BY <1>9, <1>a, <1>d, <2>1 DEF MarkError, TypeInv, TypeOK
  <1>10. ASSUME NEW w \in Workers, Stop(w)
         PROVE  TypeInv'
    BY <1>10, <1>a DEF Stop, TypeInv, TypeOK, Holding, RowShape, Exists, Time, Null
  <1>11. ASSUME NEW w \in Workers, Start(w)
         PROVE  TypeInv'
    BY <1>11, <1>a DEF Start, TypeInv, TypeOK, Holding, RowShape, Exists
  <1>12. ASSUME NEW t \in 1..now,
                PruneSentEmailOutboxRows(t) \/ PruneFailedEmailOutboxRows(t)
         PROVE  TypeInv'
    <2>1. NoRow \in Row
      BY DEF NoRow, Row, Statuses, Time, Null
    <2>2. \A i \in Ids : rows'[i] \in {rows[i], NoRow}
      BY <1>12 DEF PruneSentEmailOutboxRows, PruneFailedEmailOutboxRows, Delete
    <2>3. rows' \in [Ids -> Row]
      BY <1>12, <2>1, <1>a DEF PruneSentEmailOutboxRows, PruneFailedEmailOutboxRows, Delete, TypeOK
    <2>4. RowShape'
      BY <2>2, <1>12, <1>a DEF PruneSentEmailOutboxRows, PruneFailedEmailOutboxRows,
                        Delete, RowShape, Exists, NoRow, Null
    <2>5. UNCHANGED <<now, pc, at, batch, cur, outcome, faults, enqueued, copies, errors, excused>>
      BY <1>12 DEF PruneSentEmailOutboxRows, PruneFailedEmailOutboxRows, Delete
    <2> QED
      BY <2>3, <2>4, <2>5, <1>a DEF TypeInv, TypeOK, Holding
  <1>13. CASE UNCHANGED vars
    BY <1>13, <1>a DEF vars, TypeInv, TypeOK, Holding, RowShape, Exists
  <1> QED
    BY <1>1, <1>2, <1>3, <1>4, <1>5, <1>6, <1>7, <1>8, <1>9, <1>10, <1>11, <1>12, <1>13
       DEF Next

\* Every reachable state of the outbox is well typed, for all constants.
THEOREM TypeCorrect == Spec => []TypeOK
  <1>1. TypeInv => TypeOK
    BY DEF TypeInv
  <1> QED
    BY InitTypeInv, NextTypeInv, <1>1, PTL DEF Spec

-----------------------------------------------------------------------------
(* The claim protocol.  ClaimLostOnlyAfterExpiry and ClaimedCopyIsCurrent  *)
(* are not inductive: a claim is lost through the row's own expiry, so the *)
(* row and the worker must agree on it (ClaimAgrees), tokens must tell     *)
(* claims apart (TokensDistinct), and a claim must not be decided with a   *)
(* clock reading from the future (ReadingsArePast).                        *)

\* Two emails in hand carry the same token only in one worker's batch, and
\* then they come from different rows.
TokensDistinct ==
    \A v, w \in Workers : \A e \in batch[v], f \in batch[w] :
       e.claim_token = f.claim_token => v = w /\ (e.id = f.id => e = f)

\* A standing claim: the row is the one the email was copied from.
ClaimAgrees ==
    \A w \in Workers : \A e \in batch[w] :
       rows[e.id].claim_token = e.claim_token =>
          /\ rows[e.id].msg = e.msg
          /\ rows[e.id].attempts = e.attempts
          /\ rows[e.id].claim_expires_at = e.until

\* A clock reading is never ahead of the clock.
ReadingsArePast == \A w \in Workers : at[w] <= now

ClaimInv ==
    /\ TokensDistinct
    /\ ClaimAgrees
    /\ ReadingsArePast
    /\ ClaimLostOnlyAfterExpiry

\* At the start nobody has claimed anything.
LEMMA InitClaimInv == Init => ClaimInv
  BY DEF Init, ClaimInv, TokensDistinct, ClaimAgrees, ReadingsArePast,
         ClaimLostOnlyAfterExpiry, Null

\* Steps that only take emails out of workers' hands keep the claim protocol.
LEMMA ShrinkKeepsClaims ==
    ASSUME TypeInv, ClaimInv, UNCHANGED <<rows, now>>,
           \A w \in Workers : batch'[w] \subseteq batch[w],
           \A w \in Workers : at'[w] <= now
    PROVE  ClaimInv'
  BY DEF ClaimInv, TokensDistinct, ClaimAgrees, ReadingsArePast, ClaimLostOnlyAfterExpiry

\* So do steps that, besides, rewrite rows on which nobody in hand of the new
\* state has a standing claim, into rows without a claim.
LEMMA UnclaimedRewriteKeepsClaims ==
    ASSUME TypeInv, ClaimInv, now' = now,
           \A w \in Workers : batch'[w] \subseteq batch[w],
           \A w \in Workers : at'[w] <= now,
           \A i \in Ids :
              \/ rows'[i] = rows[i]
              \/ /\ rows'[i].claim_token = Null
                 /\ \A w \in Workers : \A e \in batch'[w] :
                       e.id = i => rows[i].claim_token # e.claim_token
    PROVE  ClaimInv'
  <1>1. \A w \in Workers : \A e \in batch'[w] :
           e \in batch[w] /\ e.id \in Ids /\ e.claim_token # Null
    BY DEF TypeInv, TypeOK, Email, Tokens, Null
  <1>2. TokensDistinct' /\ ReadingsArePast'
    BY DEF ClaimInv, TokensDistinct, ReadingsArePast
  <1>3. ClaimAgrees'
    BY <1>1 DEF ClaimInv, ClaimAgrees
  <1>4. ClaimLostOnlyAfterExpiry'
    BY <1>1 DEF ClaimInv, ClaimLostOnlyAfterExpiry
  <1> QED
    BY <1>2, <1>3, <1>4 DEF ClaimInv

\* A claim statement, whether or not its worker gets the answer: the rows it
\* takes over have expired for whoever held them.
LEMMA ClaimKeepsClaims ==
    ASSUME TypeInv, ClaimInv, NEW w \in Workers, NEW S \in SUBSET Ids,
           ClaimRows(w, S), pc[w] = "claim", now' = now,
           \A v \in Workers \ {w} : batch'[v] = batch[v],
           batch'[w] \in {{}, Claimed(w, S)},
           \A v \in Workers : at'[v] <= now
    PROVE  ClaimInv'
  <1> DEFINE tok == generateClaimToken
  <1>1. tok \in Tokens /\ FreshToken(tok)
    BY ClaimTokenIsFresh DEF ClaimRows
  <1>2. at[w] \in Nat /\ at[w] <= now /\ now \in Nat
    BY DEF TypeInv, TypeOK, Time, ClaimInv, ReadingsArePast
  <1>3. \A i \in Ids : rows'[i] = IF i \in S THEN ClaimRow(rows[i], at[w], tok) ELSE rows[i]
    BY DEF ClaimRows, ClaimPendingEmails
  <1>4. \A i \in S : /\ rows'[i].claim_token = tok
                     /\ rows'[i].msg = rows[i].msg
                     /\ rows'[i].attempts = rows[i].attempts
                     /\ rows'[i].claim_expires_at = at[w] + ClaimTTL
    <2> TAKE i \in S
    <2>1. rows'[i] = ClaimRow(rows[i], at[w], tok)
      BY <1>3
    <2> HIDE DEF tok
    <2> QED
      BY <2>1 DEF ClaimRow
  <1>5. \A v \in Workers : \A e \in batch[v] :
           /\ e \in Email /\ e.id \in Ids /\ e.claim_token \in Tokens /\ e.until \in Nat
           /\ e.claim_token # tok
    BY <1>1 DEF TypeInv, TypeOK, Email, FreshToken, Time
  <1>6. batch[w] = {}
    BY DEF TypeInv, Holding
  <1>7. \A e \in Claimed(w, S) :
           /\ e.id \in S /\ e.claim_token = tok /\ e.msg = rows[e.id].msg
           /\ e.attempts = rows[e.id].attempts /\ e.until = at[w] + ClaimTTL
           /\ e = [id |-> e.id, msg |-> rows[e.id].msg, attempts |-> rows[e.id].attempts,
                   claim_token |-> tok, until |-> at[w] + ClaimTTL]
    BY DEF Claimed
  <1>8. \A v \in Workers : \A e \in batch'[v] :
           \/ v # w /\ e \in batch[v]
           \/ v = w /\ e \in Claimed(w, S)
    OBVIOUS
  <1>9. TokensDistinct'
    <2> SUFFICES ASSUME NEW u \in Workers, NEW v \in Workers,
                        NEW e \in batch'[u], NEW f \in batch'[v],
                        e.claim_token = f.claim_token
                 PROVE  u = v /\ (e.id = f.id => e = f)
      BY DEF TokensDistinct
    <2>1. CASE e \in Claimed(w, S) /\ f \in Claimed(w, S) /\ u = w /\ v = w
      BY <2>1, <1>7
    <2>2. CASE e \in batch[u] /\ f \in batch[v]
      BY <2>2 DEF ClaimInv, TokensDistinct
    <2> QED
      BY <2>1, <2>2, <1>8, <1>5, <1>7
  <1>10. ReadingsArePast'
    BY DEF ReadingsArePast
  <1>11. ClaimAgrees'
    <2> SUFFICES ASSUME NEW v \in Workers, NEW e \in batch'[v],
                        rows'[e.id].claim_token = e.claim_token
                 PROVE  /\ rows'[e.id].msg = e.msg
                        /\ rows'[e.id].attempts = e.attempts
                        /\ rows'[e.id].claim_expires_at = e.until
      BY DEF ClaimAgrees
    <2>1. CASE e \in Claimed(w, S)
      BY <2>1, <1>7, <1>4
    <2>2. CASE e \in batch[v]
      <3>1. e.id \notin S
        BY <2>2, <1>4, <1>5
      <3> QED
        BY <2>2, <3>1, <1>3, <1>5 DEF ClaimInv, ClaimAgrees
    <2> QED
      BY <2>1, <2>2, <1>8
  <1>12. ClaimLostOnlyAfterExpiry'
    <2> SUFFICES ASSUME NEW v \in Workers, NEW e \in batch'[v],
                        rows'[e.id].claim_token # e.claim_token
                 PROVE  e.until <= now
      BY DEF ClaimLostOnlyAfterExpiry
    <2>1. e \in batch[v]
      BY <1>4, <1>7, <1>8
    <2>2. CASE rows[e.id].claim_token # e.claim_token
      BY <2>1, <2>2 DEF ClaimInv, ClaimLostOnlyAfterExpiry
    <2>3. CASE rows[e.id].claim_token = e.claim_token
      <3>1. e.id \in S
        BY <2>3, <1>3, <1>5, <2>1
      <3>2. rows[e.id].status = "sending"
        BY <2>1, <2>3, <1>5 DEF TypeInv, RowShape, Tokens, Null
      <3>3. rows[e.id].claim_expires_at <= at[w]
        BY <3>1, <3>2 DEF ClaimRows, ClaimSet, Due
      <3>4. rows[e.id].claim_expires_at = e.until
        BY <2>1, <2>3 DEF ClaimInv, ClaimAgrees
      <3> QED
        BY <3>3, <3>4, <1>2, <1>5, <2>1
    <2> QED
      BY <2>2, <2>3
  <1> QED
    BY <1>9, <1>10, <1>11, <1>12 DEF ClaimInv

\* Every step keeps the claim protocol.
LEMMA NextClaimInv == TypeInv /\ ClaimInv /\ [Next]_vars => ClaimInv'
  <1> SUFFICES ASSUME TypeInv, ClaimInv, [Next]_vars PROVE ClaimInv'
    OBVIOUS
  <1> USE DEF workerVars, historyVars
  <1>a. \A w \in Workers : at[w] \in Nat /\ at[w] <= now /\ now \in Nat /\ Null <= now
    BY DEF TypeInv, TypeOK, Time, ClaimInv, ReadingsArePast, Null
  <1>b. DOMAIN batch = Workers /\ DOMAIN at = Workers /\ DOMAIN rows = Ids
    BY DEF TypeInv, TypeOK
  <1>c. ASSUME NEW w \in Workers, EndCycle(w)
        PROVE  /\ \A v \in Workers : batch'[v] \subseteq batch[v]
               /\ \A v \in Workers \ {w} : batch'[v] = batch[v]
               /\ batch'[w] = {}
               /\ \A v \in Workers : at'[v] <= now
    BY <1>a, <1>b, <1>c DEF EndCycle
  <1>d. ASSUME NEW w \in Workers, NextEmail(w)
        PROVE  /\ \A v \in Workers : batch'[v] \subseteq batch[v]
               /\ cur[w] \notin batch'[w]
               /\ \A v \in Workers : at'[v] <= now
    BY <1>a, <1>b, <1>d DEF NextEmail
  <1>e. ASSUME NEW w \in Workers, pc[w] = "mark", Owns(w), now' = now,
               rows' = [rows EXCEPT ![cur[w].id] = Marked(w)],
               \A v \in Workers : batch'[v] \subseteq batch[v],
               cur[w] \notin batch'[w],
               \A v \in Workers : at'[v] <= now
        PROVE  ClaimInv'
    <2>1. cur[w] \in batch[w] /\ cur[w].id \in Ids
      BY <1>e DEF TypeInv, TypeOK, Holding, Email
    <2>2. Marked(w).claim_token = Null
      BY DEF Marked, MarkEmailSent, MarkEmailFailed, MarkEmailFailedPermanently, Unclaimed
    <2>3. \A v \in Workers : \A e \in batch'[v] :
             e.id = cur[w].id => rows[cur[w].id].claim_token # e.claim_token
      BY <2>1, <1>e DEF Owns, ClaimInv, TokensDistinct
    <2>4. \A i \in Ids : \/ rows'[i] = rows[i]
                         \/ i = cur[w].id /\ rows'[i].claim_token = Null
      BY <2>1, <2>2, <1>e, <1>b
    <2> QED
      BY <2>3, <2>4, <1>e, UnclaimedRewriteKeepsClaims
  <1>1. CASE Tick
    <2>1. \A w \in Workers : \A e \in batch[w] : e.until \in Nat
      BY DEF TypeInv, TypeOK, Email, Time
    <2> QED
      BY <1>1, <1>a, <2>1 DEF Tick, ClaimInv, TokensDistinct, ClaimAgrees, ReadingsArePast,
                  ClaimLostOnlyAfterExpiry
  <1>2. ASSUME NEW m \in Messages, Enqueue(m)
        PROVE  ClaimInv'
    <2>1. PICK i \in Ids, t \in 1..now : NextId(i) /\ rows' = [rows EXCEPT ![i] = EnqueueEmail(m, t)]
      BY <1>2 DEF Enqueue
    <2>2. ~Exists(i)
      BY <2>1 DEF NextId, Ids
    <2>3. rows[i].claim_token = Null
      BY <2>2 DEF TypeInv, RowShape, Exists
    <2>4. \A w \in Workers : \A e \in batch[w] : e.claim_token # Null
      BY DEF TypeInv, TypeOK, Email, Tokens, Null
    <2>5. rows'[i].claim_token = Null /\ \A j \in Ids \ {i} : rows'[j] = rows[j]
      BY <2>1, <1>b DEF EnqueueEmail
    <2>6. UNCHANGED <<now, batch, at>>
      BY <1>2 DEF Enqueue
    <2> QED
      BY <2>3, <2>4, <2>5, <2>6, <1>a, UnclaimedRewriteKeepsClaims
  <1>3. ASSUME NEW w \in Workers, StartCycle(w)
        PROVE  ClaimInv'
    BY <1>3, <1>a, <1>b, ShrinkKeepsClaims DEF StartCycle
  <1>4. ASSUME NEW w \in Workers, ClaimPending(w)
        PROVE  ClaimInv'
    <2>1. PICK S \in SUBSET Ids :
             /\ ClaimRows(w, S)
             /\ IF S = {}
                THEN EndCycle(w)
                ELSE /\ pc' = [pc EXCEPT ![w] = "send"]
                     /\ at' = [at EXCEPT ![w] = Null]
                     /\ batch' = [batch EXCEPT ![w] = Claimed(w, S)]
                     /\ UNCHANGED <<cur, outcome>>
             /\ UNCHANGED <<now, faults, enqueued, copies, errors>>
      BY <1>4 DEF ClaimPending
    <2>2. pc[w] = "claim"
      BY <2>1 DEF ClaimRows
    <2>3. CASE S = {}
      BY <2>1, <2>2, <2>3, <1>c, ClaimKeepsClaims
    <2>4. CASE S # {}
      BY <2>1, <2>2, <2>4, <1>a, <1>b, ClaimKeepsClaims
    <2> QED
      BY <2>3, <2>4
  <1>5. ASSUME NEW w \in Workers, ClaimError(w)
        PROVE  ClaimInv'
    <2>1. EndCycle(w) /\ now' = now
      BY <1>5 DEF ClaimError
    <2>2. CASE UNCHANGED rows
      BY <2>1, <2>2, <1>c, ShrinkKeepsClaims
    <2>3. CASE \E S \in SUBSET Ids : S # {} /\ ClaimRows(w, S)
      <3>1. PICK S \in SUBSET Ids : ClaimRows(w, S)
        BY <2>3
      <3>2. pc[w] = "claim"
        BY <3>1 DEF ClaimRows
      <3> QED
        BY <2>1, <3>1, <3>2, <1>c, ClaimKeepsClaims
    <2> QED
      BY <2>2, <2>3, <1>5 DEF ClaimError
  <1>6. ASSUME NEW w \in Workers, Send(w)
        PROVE  ClaimInv'
    BY <1>6, <1>a, <1>b, ShrinkKeepsClaims DEF Send
  <1>7. ASSUME NEW w \in Workers, Mark(w)
        PROVE  ClaimInv'
    BY <1>7, <1>d, <1>e DEF Mark
  <1>8. ASSUME NEW w \in Workers, SkipClaimLost(w)
        PROVE  ClaimInv'
    BY <1>8, <1>d, ShrinkKeepsClaims DEF SkipClaimLost
  <1>9. ASSUME NEW w \in Workers, MarkError(w)
        PROVE  ClaimInv'
    <2>1. EndCycle(w) /\ now' = now /\ pc[w] = "mark"
      BY <1>9 DEF MarkError
    <2>2. CASE UNCHANGED rows
      BY <2>1, <2>2, <1>c, ShrinkKeepsClaims
    <2>3. CASE Owns(w) /\ rows' = [rows EXCEPT ![cur[w].id] = Marked(w)]
      BY <2>1, <2>3, <1>c, <1>e
    <2> QED
      BY <2>2, <2>3, <1>9 DEF MarkError
  <1>10. ASSUME NEW w \in Workers, Stop(w)
         PROVE  ClaimInv'
    BY <1>10, <1>a, <1>b, ShrinkKeepsClaims DEF Stop
  <1>11. ASSUME NEW w \in Workers, Start(w)
         PROVE  ClaimInv'
    BY <1>11, <1>a, ShrinkKeepsClaims DEF Start
  <1>12. ASSUME NEW t \in 1..now,
                PruneSentEmailOutboxRows(t) \/ PruneFailedEmailOutboxRows(t)
         PROVE  ClaimInv'
    <2>1. UNCHANGED <<now, at, batch>>
      BY <1>12 DEF PruneSentEmailOutboxRows, PruneFailedEmailOutboxRows, Delete
    <2>2. \A i \in Ids : \/ rows'[i] = rows[i]
                         \/ rows[i].status \in {"sent", "failed"} /\ rows'[i] = NoRow
      BY <1>12 DEF PruneSentEmailOutboxRows, PruneFailedEmailOutboxRows, Delete
    <2>3. \A i \in Ids : rows[i].status \in {"sent", "failed"} => rows[i].claim_token = Null
      BY DEF TypeInv, RowShape
    <2>4. \A w \in Workers : \A e \in batch[w] : e.claim_token # Null
      BY DEF TypeInv, TypeOK, Email, Tokens, Null
    <2>5. NoRow.claim_token = Null
      BY DEF NoRow
    <2> QED
      BY <2>1, <2>2, <2>3, <2>4, <2>5, <1>a, UnclaimedRewriteKeepsClaims
  <1>13. CASE UNCHANGED vars
    BY <1>13, <1>a, ShrinkKeepsClaims DEF vars
  <1> QED
    BY <1>1, <1>2, <1>3, <1>4, <1>5, <1>6, <1>7, <1>8, <1>9, <1>10, <1>11, <1>12, <1>13
       DEF Next

\* A worker loses its claim on an email only once the claim's time is over,
\* whatever the other workers, the cleanup job and crashed processes do.
THEOREM ClaimsAreExclusive == Spec => []ClaimLostOnlyAfterExpiry
  <1>1. ClaimInv => ClaimLostOnlyAfterExpiry
    BY DEF ClaimInv
  <1> QED
    BY InitTypeInv, NextTypeInv, InitClaimInv, NextClaimInv, <1>1, PTL DEF Spec

\* While a worker's claim stands, what it works from is the row's own content,
\* and no other worker has that claim.
THEOREM ClaimedCopiesAreCurrent == Spec => []ClaimedCopyIsCurrent
  <1>1. TypeInv /\ ClaimInv => ClaimedCopyIsCurrent
    <2> SUFFICES ASSUME TypeInv, ClaimInv, NEW w \in Workers, NEW e \in batch[w],
                        rows[e.id].claim_token = e.claim_token
                 PROVE  /\ rows[e.id].status = "sending"
                        /\ rows[e.id].msg = e.msg
                        /\ rows[e.id].attempts = e.attempts
                        /\ \A v \in Workers \ {w} : \A f \in batch[v] :
                              f.claim_token # e.claim_token
      BY DEF ClaimedCopyIsCurrent
    <2>1. e.id \in Ids /\ e.claim_token # Null
      BY DEF TypeInv, TypeOK, Email, Tokens, Null
    <2>2. rows[e.id].status = "sending"
      BY <2>1 DEF TypeInv, RowShape
    <2>3. rows[e.id].msg = e.msg /\ rows[e.id].attempts = e.attempts
      BY DEF ClaimInv, ClaimAgrees
    <2>4. \A v \in Workers \ {w} : \A f \in batch[v] : f.claim_token # e.claim_token
      BY DEF ClaimInv, TokensDistinct
    <2> QED
      BY <2>2, <2>3, <2>4
  <1> QED
    BY InitTypeInv, NextTypeInv, InitClaimInv, NextClaimInv, <1>1, PTL DEF Spec

-----------------------------------------------------------------------------
(* What the table records about the sends.  SentMeansAccepted and          *)
(* RetryBudgetExact depend on what a worker has in hand between the send   *)
(* and the mark statement: SendsAreRecorded carries it across.             *)

SendsAreRecorded ==
    \A w \in Workers :
       /\ \A e \in batch[w] : e.attempts < MaxAttempts /\ e.attempts <= errors[e.msg]
       /\ pc[w] = "mark" =>
             \/ outcome[w] = "ok" /\ copies[cur[w].msg] >= 1
             \/ outcome[w] = "error" /\ errors[cur[w].msg] > cur[w].attempts

LedgerInv == SentMeansAccepted /\ RetryBudgetExact /\ SendsAreRecorded

\* At the start nothing is sent, counted or in hand.
LEMMA InitLedgerInv == Init => LedgerInv
  BY DEF Init, LedgerInv, SentMeansAccepted, RetryBudgetExact, SendsAreRecorded,
         Exists, NoRow

\* What a mark statement of the claim's owner writes keeps the ledger.
LEMMA MarkKeepsRowLedger ==
    ASSUME TypeInv, ClaimInv, LedgerInv, NEW w \in Workers, pc[w] = "mark", Owns(w)
    PROVE  /\ Marked(w).msg = rows[cur[w].id].msg
           /\ Marked(w).status = "sent" => copies[Marked(w).msg] >= 1
           /\ Marked(w).status = "pending" => Marked(w).attempts < MaxAttempts
           /\ Marked(w).status = "failed" => Marked(w).attempts = MaxAttempts
           /\ Marked(w).status \in {"sent", "pending", "failed"}
           /\ Marked(w).attempts <= errors[Marked(w).msg]
  <1> DEFINE r == rows[cur[w].id]
  <1>1. cur[w] \in batch[w] /\ cur[w].id \in Ids /\ cur[w].attempts \in Nat
    BY DEF TypeInv, TypeOK, Holding, Email
  <1>2. r.msg = cur[w].msg /\ r.attempts = cur[w].attempts
    BY <1>1 DEF ClaimInv, ClaimAgrees, Owns
  <1>3. cur[w].attempts < MaxAttempts /\ cur[w].attempts <= errors[cur[w].msg]
    BY <1>1 DEF LedgerInv, SendsAreRecorded
  <1>4. errors[cur[w].msg] \in Nat /\ MaxAttempts \in Nat
    BY <1>1, OutboxAssumption DEF TypeInv, TypeOK, Email
  <1>5. CASE outcome[w] = "ok"
    <2>1. Marked(w) = Unclaimed(r, "sent", r.attempts, r.available_at, at[w])
      BY <1>5 DEF Marked, MarkEmailSent
    <2>2. copies[cur[w].msg] >= 1
      BY <1>5 DEF LedgerInv, SendsAreRecorded
    <2>3. /\ Marked(w).msg = r.msg /\ Marked(w).status = "sent"
          /\ Marked(w).attempts = r.attempts
      BY <2>1 DEF Unclaimed
    <2> QED
      BY <2>2, <2>3, <1>2, <1>3
  <1>6. CASE outcome[w] # "ok"
    <2>1. errors[cur[w].msg] > cur[w].attempts
      BY <1>6 DEF LedgerInv, SendsAreRecorded
    <2>2. CASE nextAttempt(w) >= MaxAttempts
      <3>1. Marked(w) = Unclaimed(r, "failed", r.attempts + 1, at[w], r.sent_at)
        BY <1>6, <2>2 DEF Marked, MarkEmailFailedPermanently
      <3>2. /\ Marked(w).msg = r.msg /\ Marked(w).status = "failed"
            /\ Marked(w).attempts = r.attempts + 1
        BY <3>1 DEF Unclaimed
      <3>3. cur[w].attempts + 1 = MaxAttempts
        BY <2>2, <1>1, <1>3, <1>4 DEF nextAttempt
      <3> QED
        BY <2>1, <3>2, <3>3, <1>1, <1>2, <1>4
    <2>3. CASE ~(nextAttempt(w) >= MaxAttempts)
      <3>1. Marked(w) = Unclaimed(r, "pending", r.attempts + 1, at[w] + RetryDelay, r.sent_at)
        BY <1>6, <2>3 DEF Marked, MarkEmailFailed
      <3>2. /\ Marked(w).msg = r.msg /\ Marked(w).status = "pending"
            /\ Marked(w).attempts = r.attempts + 1
        BY <3>1 DEF Unclaimed
      <3>3. cur[w].attempts + 1 < MaxAttempts
        BY <2>3, <1>1, <1>4 DEF nextAttempt
      <3> QED
        BY <2>1, <3>2, <3>3, <1>1, <1>2, <1>4
    <2> QED
      BY <2>2, <2>3
  <1> QED
    BY <1>5, <1>6

\* The part of the ledger that speaks of one row.
RowLedger(r) ==
    /\ r.status = "sent" => copies[r.msg] >= 1
    /\ r.status \in {"pending", "sending"} => r.attempts < MaxAttempts
    /\ r.status = "failed" => r.attempts = MaxAttempts
    /\ r.status # "absent" => r.attempts <= errors[r.msg]

\* The two ledger properties are one property of every row.
LEMMA RowLedgers == SentMeansAccepted /\ RetryBudgetExact <=> \A i \in Ids : RowLedger(rows[i])
  BY DEF SentMeansAccepted, RetryBudgetExact, RowLedger, Exists

\* Steps that send nothing, claim nothing and mark nothing keep what is in hand.
LEMMA ShrinkKeepsSends ==
    ASSUME SendsAreRecorded, UNCHANGED <<copies, errors>>,
           \A w \in Workers : batch'[w] \subseteq batch[w],
           \A w \in Workers : pc'[w] = "mark" =>
              pc[w] = "mark" /\ cur'[w] = cur[w] /\ outcome'[w] = outcome[w]
    PROVE  SendsAreRecorded'
  BY DEF SendsAreRecorded

\* Every step keeps the ledger: what the table says of a message agrees with what
\* the mail server and the senders reported.
LEMMA NextLedgerInv == TypeInv /\ ClaimInv /\ LedgerInv /\ [Next]_vars => LedgerInv'
  <1> SUFFICES ASSUME TypeInv, ClaimInv, LedgerInv, [Next]_vars PROVE LedgerInv'
    OBVIOUS
  <1> USE DEF workerVars, historyVars
  <1>a. SendsAreRecorded /\ \A i \in Ids : RowLedger(rows[i])
    BY RowLedgers DEF LedgerInv
  <1>b. /\ DOMAIN batch = Workers /\ DOMAIN pc = Workers /\ DOMAIN rows = Ids
        /\ DOMAIN cur = Workers /\ DOMAIN outcome = Workers
    BY DEF TypeInv, TypeOK
  <1>c. ASSUME SendsAreRecorded', UNCHANGED <<copies, errors>>,
               \A i \in Ids : rows'[i] = rows[i] \/ RowLedger(rows'[i])
        PROVE  LedgerInv'
    <2>1. \A i \in Ids : RowLedger(rows'[i])
      BY <1>a, <1>c
    <2>2. SentMeansAccepted' /\ RetryBudgetExact'
      BY <2>1, <1>c DEF RowLedger, SentMeansAccepted, RetryBudgetExact, Exists
    <2> QED
      BY <2>2, <1>c DEF LedgerInv
  <1>d. ASSUME NEW w \in Workers, EndCycle(w) \/ NextEmail(w), UNCHANGED <<copies, errors>>
        PROVE  SendsAreRecorded'
    BY <1>a, <1>b, <1>d, ShrinkKeepsSends DEF EndCycle, NextEmail
  <1>e. ASSUME NEW w \in Workers, pc[w] = "mark", Owns(w),
               rows' = [rows EXCEPT ![cur[w].id] = Marked(w)]
        PROVE  \A i \in Ids : rows'[i] = rows[i] \/ RowLedger(rows'[i])
    BY <1>b, <1>e, MarkKeepsRowLedger DEF RowLedger
  <1>f. ASSUME NEW w \in Workers, NEW S \in SUBSET Ids, ClaimRows(w, S)
        PROVE  /\ \A i \in Ids : rows'[i] = rows[i] \/ RowLedger(rows'[i])
               /\ \A e \in Claimed(w, S) :
                     e.attempts < MaxAttempts /\ e.attempts <= errors[e.msg]
    <2>1. \A i \in S : rows[i].status \in {"pending", "sending"}
      BY <1>f DEF ClaimRows, ClaimSet, Due
    <2>2. \A i \in S : /\ rows[i].attempts < MaxAttempts
                       /\ rows[i].attempts <= errors[rows[i].msg]
      BY <2>1, <1>a DEF RowLedger
    <2>3. ASSUME NEW i \in S
          PROVE  RowLedger(rows'[i])
      <3>1. rows'[i] = ClaimRow(rows[i], at[w], generateClaimToken)
        BY <1>f DEF ClaimRows, ClaimPendingEmails
      <3>2. /\ rows'[i].status = "sending" /\ rows'[i].msg = rows[i].msg
            /\ rows'[i].attempts = rows[i].attempts
        BY <3>1 DEF ClaimRow
      <3> QED
        BY <3>2, <2>2 DEF RowLedger
    <2>4. \A i \in Ids \ S : rows'[i] = rows[i]
      BY <1>f DEF ClaimRows, ClaimPendingEmails
    <2>5. \A e \in Claimed(w, S) : e.attempts < MaxAttempts /\ e.attempts <= errors[e.msg]
      BY <2>2 DEF Claimed
    <2> QED
      BY <2>3, <2>4, <2>5
  <1>1. CASE Tick
    BY <1>1, <1>a, <1>c, ShrinkKeepsSends DEF Tick
  <1>2. ASSUME NEW m \in Messages, Enqueue(m)
        PROVE  LedgerInv'
    <2>1. PICK i \in Ids, t \in 1..now : rows' = [rows EXCEPT ![i] = EnqueueEmail(m, t)]
      BY <1>2 DEF Enqueue
    <2>2. RowLedger(EnqueueEmail(m, t))
      BY OutboxAssumption DEF RowLedger, EnqueueEmail, TypeInv, TypeOK
    <2>3. \A j \in Ids : rows'[j] = rows[j] \/ RowLedger(rows'[j])
      BY <2>1, <2>2, <1>b
    <2>4. SendsAreRecorded'
      BY <1>2, <1>a, ShrinkKeepsSends DEF Enqueue
    <2> QED
      BY <2>3, <2>4, <1>2, <1>c DEF Enqueue
  <1>3. ASSUME NEW w \in Workers, StartCycle(w)
        PROVE  LedgerInv'
    BY <1>3, <1>a, <1>b, <1>c, ShrinkKeepsSends DEF StartCycle
  <1>4. ASSUME NEW w \in Workers, ClaimPending(w)
        PROVE  LedgerInv'
    <2>1. PICK S \in SUBSET Ids :
             /\ ClaimRows(w, S)
             /\ IF S = {}
                THEN EndCycle(w)
                ELSE /\ pc' = [pc EXCEPT ![w] = "send"]
                     /\ at' = [at EXCEPT ![w] = Null]
                     /\ batch' = [batch EXCEPT ![w] = Claimed(w, S)]
                     /\ UNCHANGED <<cur, outcome>>
             /\ UNCHANGED <<now, faults, enqueued, copies, errors>>
      BY <1>4 DEF ClaimPending
    <2>2. CASE S = {}
      BY <2>1, <2>2, <1>c, <1>d, <1>f
    <2>3. CASE S # {}
      <3>1. SendsAreRecorded'
        BY <2>1, <2>3, <1>a, <1>b, <1>f DEF SendsAreRecorded
      <3> QED
        BY <3>1, <2>1, <1>c, <1>f
    <2> QED
      BY <2>2, <2>3
  <1>5. ASSUME NEW w \in Workers, ClaimError(w)
        PROVE  LedgerInv'
    <2>1. \A i \in Ids : rows'[i] = rows[i] \/ RowLedger(rows'[i])
      BY <1>5, <1>f DEF ClaimError
    <2> QED
      BY <2>1, <1>5, <1>c, <1>d DEF ClaimError
  <1>6. ASSUME NEW w \in Workers, Send(w)
        PROVE  LedgerInv'
    <2>1. PICK e \in batch[w], res \in SendResults :
          /\ cur' = [cur EXCEPT ![w] = e]
          /\ outcome' = [outcome EXCEPT
                           ![w] = IF res = "accepted" THEN "ok" ELSE "error"]
          /\ copies' = IF res = "rejected" THEN copies
                       ELSE [copies EXCEPT ![e.msg] = IF @ < 2 THEN @ + 1 ELSE @]
          /\ errors' = IF res = "accepted" THEN errors
                       ELSE [errors EXCEPT ![e.msg] = @ + 1]
      BY <1>6 DEF Send
    <2>2. e.msg \in Messages /\ e.attempts \in Nat /\ e.attempts <= errors[e.msg]
      BY <1>a DEF TypeInv, TypeOK, Email, SendsAreRecorded
    <2>3. copies \in [Messages -> 0..2] /\ errors \in [Messages -> Nat]
      BY DEF TypeInv, TypeOK
    <2>4. \A m \in Messages : copies'[m] >= copies[m] /\ copies'[m] \in Nat
      BY <2>1, <2>2, <2>3
    <2>5. \A m \in Messages : errors'[m] >= errors[m] /\ errors'[m] \in Nat
      BY <2>1, <2>2, <2>3
    <2>6. \A v \in Workers : \A f \in batch[v] : f.msg \in Messages /\ f.attempts \in Nat
      BY DEF TypeInv, TypeOK, Email
    <2>7. \A i \in Ids : rows[i].attempts \in Nat /\ (Exists(i) => rows[i].msg \in Messages)
      BY DEF TypeInv, TypeOK, RowShape, Row
    <2>8. SentMeansAccepted'
      BY <1>6, <2>3, <2>4, <2>7 DEF Send, LedgerInv, SentMeansAccepted, Exists
    <2>9. RetryBudgetExact'
      BY <1>6, <2>3, <2>5, <2>7 DEF Send, LedgerInv, RetryBudgetExact, Exists
    <2>10. ASSUME NEW v \in Workers
           PROVE  \A f \in batch'[v] : f.attempts < MaxAttempts /\ f.attempts <= errors'[f.msg]
      BY <1>6, <2>3, <2>5, <2>6, <1>a DEF Send, SendsAreRecorded
    <2>11. ASSUME NEW v \in Workers, pc'[v] = "mark"
           PROVE  \/ outcome'[v] = "ok" /\ copies'[cur'[v].msg] >= 1
                  \/ outcome'[v] = "error" /\ errors'[cur'[v].msg] > cur'[v].attempts
      <3>1. CASE v = w
        <4>1. cur'[v] = e /\ outcome'[v] = IF res = "accepted" THEN "ok" ELSE "error"
          BY <2>1, <3>1, <1>b
        <4>2. res = "accepted" => copies'[e.msg] >= 1
          BY <2>1, <2>2, <2>3
        <4>3. res # "accepted" => errors'[e.msg] > e.attempts
          BY <2>1, <2>2, <2>3
        <4> QED
          BY <4>1, <4>2, <4>3
      <3>2. CASE v # w
        <4>1. pc[v] = "mark" /\ cur'[v] = cur[v] /\ outcome'[v] = outcome[v]
          BY <2>1, <2>11, <3>2, <1>6, <1>b DEF Send
        <4>2. cur[v].msg \in Messages /\ cur[v].attempts \in Nat
          BY <4>1, <2>6 DEF TypeInv, Holding
        <4> QED
          BY <4>1, <4>2, <2>3, <2>4, <2>5, <1>a DEF SendsAreRecorded
      <3> QED
        BY <3>1, <3>2
    <2>12. SendsAreRecorded'
      BY <2>10, <2>11 DEF SendsAreRecorded
    <2> QED
      BY <2>8, <2>9, <2>12 DEF LedgerInv
  <1>7. ASSUME NEW w \in Workers, Mark(w)
        PROVE  LedgerInv'
    BY <1>7, <1>c, <1>d, <1>e DEF Mark
  <1>8. ASSUME NEW w \in Workers, SkipClaimLost(w)
        PROVE  LedgerInv'
    BY <1>8, <1>c, <1>d DEF SkipClaimLost
  <1>9. ASSUME NEW w \in Workers, MarkError(w)
        PROVE  LedgerInv'
    <2>1. \A i \in Ids : rows'[i] = rows[i] \/ RowLedger(rows'[i])
      BY <1>9, <1>e DEF MarkError
    <2> QED
      BY <2>1, <1>9, <1>c, <1>d DEF MarkError
  <1>10. ASSUME NEW w \in Workers, Stop(w)
         PROVE  LedgerInv'
    BY <1>10, <1>a, <1>b, <1>c, ShrinkKeepsSends DEF Stop
  <1>11. ASSUME NEW w \in Workers, Start(w)
         PROVE  LedgerInv'
    BY <1>11, <1>a, <1>b, <1>c, ShrinkKeepsSends DEF Start
  <1>12. ASSUME NEW t \in 1..now,
                PruneSentEmailOutboxRows(t) \/ PruneFailedEmailOutboxRows(t)
         PROVE  LedgerInv'
    <2>1. RowLedger(NoRow)
      BY DEF RowLedger, NoRow
    <2>2. \A i \in Ids : rows'[i] = rows[i] \/ RowLedger(rows'[i])
      BY <1>12, <2>1 DEF PruneSentEmailOutboxRows, PruneFailedEmailOutboxRows, Delete
    <2>3. SendsAreRecorded'
      BY <1>12, <1>a, ShrinkKeepsSends
         DEF PruneSentEmailOutboxRows, PruneFailedEmailOutboxRows, Delete
    <2> QED
      BY <2>2, <2>3, <1>12, <1>c DEF PruneSentEmailOutboxRows, PruneFailedEmailOutboxRows, Delete
  <1>13. CASE UNCHANGED vars
    BY <1>13, <1>a, <1>c, ShrinkKeepsSends DEF vars
  <1> QED
    BY <1>1, <1>2, <1>3, <1>4, <1>5, <1>6, <1>7, <1>8, <1>9, <1>10, <1>11, <1>12, <1>13
       DEF Next

\* A row is marked sent only when the mail server accepted its message.
THEOREM SentRowsWereAccepted == Spec => []SentMeansAccepted
  <1>1. LedgerInv => SentMeansAccepted
    BY DEF LedgerInv
  <1> QED
    BY InitTypeInv, NextTypeInv, InitClaimInv, NextClaimInv, InitLedgerInv, NextLedgerInv,
       <1>1, PTL DEF Spec

\* The retry budget is exact, even when claims expire under a running send.
THEOREM RetryBudgetIsExact == Spec => []RetryBudgetExact
  <1>1. LedgerInv => RetryBudgetExact
    BY DEF LedgerInv
  <1> QED
    BY InitTypeInv, NextTypeInv, InitClaimInv, NextClaimInv, InitLedgerInv, NextLedgerInv,
       <1>1, PTL DEF Spec

====
