---------------------- MODULE EmailOutboxContractProof ----------------------
(***************************************************************************)
(* The outbox seen from outside: proofs that EmailOutbox implements        *)
(* DeliveryContract, and that duplicates have an excuse, for every value   *)
(* of the constants.  Both look at the table as a queue of messages, so    *)
(* both need that a message has one row; the types, the claim protocol and *)
(* the ledger come from EmailOutboxProof.                                  *)
(***************************************************************************)
EXTENDS EmailOutboxProof

\* No two rows hold one message.
OneRowEach ==
    \A i, j \in Ids : Exists(i) /\ Exists(j) /\ rows[i].msg = rows[j].msg => i = j

\* Only what was enqueued is in hand or was ever sent.
OnlyEnqueued ==
    /\ \A w \in Workers : \A e \in batch[w] : e.msg \in enqueued
    /\ \A m \in Messages : copies[m] > 0 => m \in enqueued

QueueInv == OneRowEach /\ OnlyEnqueued

\* The queue starts empty.
LEMMA InitQueueInv == Init => QueueInv
  BY DEF Init, QueueInv, OneRowEach, OnlyEnqueued, Exists, NoRow

\* A step after which every row that is there was there before, with the same
\* message, keeps the rows' messages apart.
LEMMA SameMessagesKeepRows ==
    ASSUME OneRowEach, \A i \in Ids : rows'[i].status # "absent" =>
                          Exists(i) /\ rows'[i].msg = rows[i].msg
    PROVE  OneRowEach'
  BY DEF OneRowEach, Exists

\* A claim statement changes no row's message and only takes rows that are there.
LEMMA ClaimedRows ==
    ASSUME TypeInv, NEW w \in Workers, NEW S \in SUBSET Ids, ClaimRows(w, S)
    PROVE  /\ \A i \in Ids : rows'[i].msg = rows[i].msg
           /\ \A i \in S : /\ rows[i].status \in {"pending", "sending"}
                           /\ rows'[i].status = "sending"
                           /\ rows'[i].claim_token = generateClaimToken
                           /\ rows[i].msg \in enqueued
           /\ \A i \in Ids \ S : rows'[i] = rows[i]
           /\ \A i \in S : rows[i].status = "sending" => rows[i].msg \in excused'
           /\ \A e \in Claimed(w, S) : /\ e.id \in S /\ e.msg = rows[e.id].msg
                                       /\ e.claim_token = generateClaimToken
           /\ excused \subseteq excused'
  <1> DEFINE tok == generateClaimToken
  <1>1. \A i \in Ids : rows'[i] = IF i \in S THEN ClaimRow(rows[i], at[w], tok) ELSE rows[i]
    BY DEF ClaimRows, ClaimPendingEmails
  <1>2. \A i \in S : rows[i].status \in {"pending", "sending"}
    BY DEF ClaimRows, ClaimSet, Due
  <1>3. \A i \in S : rows[i].msg \in enqueued
    BY <1>2 DEF TypeInv, RowShape, Exists
  <1>4. ASSUME NEW i \in S
        PROVE  /\ rows'[i].msg = rows[i].msg /\ rows'[i].status = "sending"
               /\ rows'[i].claim_token = tok
    <2>1. rows'[i] = ClaimRow(rows[i], at[w], tok)
      BY <1>1
    <2> HIDE DEF tok
    <2> QED
      BY <2>1 DEF ClaimRow
  <1>5. \A i \in S : rows[i].status = "sending" => rows[i].msg \in excused'
    BY DEF ClaimRows
  <1>6. excused \subseteq excused'
    BY DEF ClaimRows
  <1>7. \A e \in Claimed(w, S) : e.id \in S /\ e.msg = rows[e.id].msg /\ e.claim_token = tok
    BY DEF Claimed
  <1> QED
    BY <1>1, <1>2, <1>3, <1>4, <1>5, <1>6, <1>7

\* What a mark statement of the claim's owner finds and writes.
LEMMA MarkedRow ==
    ASSUME TypeInv, ClaimInv, NEW w \in Workers, pc[w] = "mark", Owns(w)
    PROVE  /\ cur[w] \in batch[w] /\ cur[w].id \in Ids /\ cur[w].claim_token # Null
           /\ rows[cur[w].id].status = "sending" /\ Exists(cur[w].id)
           /\ rows[cur[w].id].msg = cur[w].msg
           /\ Marked(w).msg = cur[w].msg /\ Marked(w).claim_token = Null
           /\ outcome[w] = "ok" => Marked(w).status = "sent"
  <1>1. cur[w] \in batch[w] /\ cur[w].id \in Ids /\ cur[w].claim_token \in Tokens
    BY DEF TypeInv, TypeOK, Holding, Email
  <1>2. cur[w].claim_token # Null
    BY <1>1 DEF Tokens, Null
  <1>3. rows[cur[w].id].status = "sending"
    BY <1>1, <1>2 DEF Owns, TypeInv, RowShape
  <1>4. rows[cur[w].id].msg = cur[w].msg
    BY <1>1 DEF Owns, ClaimInv, ClaimAgrees
  <1>5. /\ Marked(w).msg = rows[cur[w].id].msg /\ Marked(w).claim_token = Null
        /\ outcome[w] = "ok" => Marked(w).status = "sent"
    BY DEF Marked, MarkEmailSent, MarkEmailFailed, MarkEmailFailedPermanently, Unclaimed
  <1> QED
    BY <1>1, <1>2, <1>3, <1>4, <1>5 DEF Exists

-----------------------------------------------------------------------------
(* The kinds of steps there are.  The arguments below only tell apart what *)
(* a step does to the rows, to what is in hand and to the history.         *)

\* Every worker goes on with what it has, or drops at least what it has just sent.
Dropping ==
    \A v \in Workers :
       \/ UNCHANGED <<batch[v], pc[v], cur[v], outcome[v]>>
       \/ batch'[v] \subseteq batch[v] \ {cur[v]}

QuietStep == Dropping /\ UNCHANGED <<rows, historyVars>>

\* A claim statement of worker w, which gets the answer or not.
ClaimStep(w, S) ==
    /\ ClaimRows(w, S)
    /\ batch[w] = {} /\ batch'[w] \in {{}, Claimed(w, S)}
    /\ \A v \in Workers \ {w} : UNCHANGED <<batch[v], pc[v], cur[v], outcome[v]>>
    /\ UNCHANGED <<enqueued, copies, errors>>

\* A mark statement by the owner of the claim.
MarkStep(w) ==
    /\ pc[w] = "mark" /\ Owns(w)
    /\ rows' = [rows EXCEPT ![cur[w].id] = Marked(w)]
    /\ Dropping /\ cur[w] \notin batch'[w]
    /\ UNCHANGED historyVars

PruneStep(S) ==
    /\ \A i \in S : rows[i].status \in {"sent", "failed"} /\ rows'[i] = NoRow
    /\ \A i \in Ids \ S : rows'[i] = rows[i]
    /\ UNCHANGED <<batch, pc, cur, outcome, historyVars>>

\* Every step is of one of these kinds, an Enqueue or a Send.
LEMMA StepKinds ==
    ASSUME TypeInv, [Next]_vars
    PROVE  \/ QuietStep
           \/ \E m \in Messages : Enqueue(m)
           \/ \E w \in Workers, S \in SUBSET Ids : ClaimStep(w, S)
           \/ \E w \in Workers : Send(w)
           \/ \E w \in Workers : MarkStep(w)
           \/ \E S \in SUBSET Ids : PruneStep(S)
  <1> USE DEF workerVars, historyVars
  <1>a. /\ DOMAIN batch = Workers /\ DOMAIN pc = Workers
        /\ DOMAIN cur = Workers /\ DOMAIN outcome = Workers
    BY DEF TypeInv, TypeOK
  <1>b. \A w \in Workers : pc[w] \notin {"send", "mark"} => batch[w] = {}
    BY DEF TypeInv, Holding
  <1>c. ASSUME NEW w \in Workers, EndCycle(w) \/ NextEmail(w)
        PROVE  Dropping /\ cur[w] \notin batch'[w]
    BY <1>a, <1>c DEF EndCycle, NextEmail, Dropping
  <1>1. CASE Tick \/ UNCHANGED vars
    BY <1>1 DEF Tick, vars, QuietStep, Dropping
  <1>2. ASSUME NEW w \in Workers, StartCycle(w) \/ Stop(w) \/ Start(w)
        PROVE  QuietStep
    BY <1>2, <1>a, <1>b DEF StartCycle, Stop, Start, QuietStep, Dropping
  <1>3. ASSUME NEW w \in Workers, ClaimPending(w)
        PROVE  \E S \in SUBSET Ids : ClaimStep(w, S)
    <2>1. PICK S \in SUBSET Ids :
             /\ ClaimRows(w, S)
             /\ IF S = {}
                THEN EndCycle(w)
                ELSE /\ pc' = [pc EXCEPT ![w] = "send"]
                     /\ at' = [at EXCEPT ![w] = Null]
                     /\ batch' = [batch EXCEPT ![w] = Claimed(w, S)]
                     /\ UNCHANGED <<cur, outcome>>
             /\ UNCHANGED <<now, faults, enqueued, copies, errors>>
      BY <1>3 DEF ClaimPending
    <2>2. batch[w] = {}
      BY <2>1, <1>b DEF ClaimRows
    <2> QED
      BY <2>1, <2>2, <1>a DEF ClaimStep, EndCycle
  <1>4. ASSUME NEW w \in Workers, ClaimError(w)
        PROVE  QuietStep \/ \E S \in SUBSET Ids : ClaimStep(w, S)
    <2>1. EndCycle(w) /\ UNCHANGED <<enqueued, copies, errors>>
      BY <1>4 DEF ClaimError
    <2>2. CASE UNCHANGED <<rows, excused>>
      BY <2>1, <2>2, <1>c DEF QuietStep
    <2>3. CASE \E S \in SUBSET Ids : S # {} /\ ClaimRows(w, S)
      <3>1. PICK S \in SUBSET Ids : ClaimRows(w, S)
        BY <2>3
      <3>2. batch[w] = {}
        BY <3>1, <1>b DEF ClaimRows
      <3> QED
        BY <3>1, <3>2, <2>1, <1>a DEF ClaimStep, EndCycle
    <2> QED
      BY <2>2, <2>3, <1>4 DEF ClaimError
  <1>5. ASSUME NEW w \in Workers, Mark(w) \/ MarkError(w) \/ SkipClaimLost(w)
        PROVE  QuietStep \/ MarkStep(w)
    BY <1>5, <1>c DEF Mark, MarkError, SkipClaimLost, QuietStep, MarkStep
  <1>6. ASSUME NEW t \in 1..now,
               PruneSentEmailOutboxRows(t) \/ PruneFailedEmailOutboxRows(t)
        PROVE  \E S \in SUBSET Ids : PruneStep(S)
    <2>1. PICK S \in SUBSET Ids : /\ \A i \in S : rows[i].status \in {"sent", "failed"}
                                  /\ Delete(S)
      BY <1>6 DEF PruneSentEmailOutboxRows, PruneFailedEmailOutboxRows
    <2> QED
      BY <2>1 DEF Delete, PruneStep
  <1> QED
    BY <1>1, <1>2, <1>3, <1>4, <1>5, <1>6 DEF Next

-----------------------------------------------------------------------------
\* Every step keeps one row for a message and hands out only what was enqueued.
LEMMA NextQueueInv ==
    TypeInv /\ ClaimInv /\ QueueInv /\ [Next]_vars => QueueInv'
  <1> SUFFICES ASSUME TypeInv, ClaimInv, QueueInv, [Next]_vars PROVE QueueInv'
    OBVIOUS
  <1> USE DEF historyVars
  <1>a. OneRowEach /\ OnlyEnqueued /\ DOMAIN rows = Ids /\ enqueued \subseteq Messages
    BY DEF QueueInv, TypeInv, TypeOK
  <1>b. ASSUME Dropping, UNCHANGED historyVars
        PROVE  OnlyEnqueued'
    BY <1>a, <1>b DEF Dropping, OnlyEnqueued
  <1>1. CASE QuietStep
    BY <1>1, <1>a, <1>b, SameMessagesKeepRows DEF QuietStep, QueueInv, Exists
  <1>2. ASSUME NEW m \in Messages, Enqueue(m)
        PROVE  QueueInv'
    <2>1. PICK i \in Ids, t \in 1..now : rows' = [rows EXCEPT ![i] = EnqueueEmail(m, t)]
      BY <1>2 DEF Enqueue
    <2>2. rows'[i].msg = m /\ \A j \in Ids \ {i} : rows'[j] = rows[j]
      BY <2>1, <1>a DEF EnqueueEmail
    <2>3. \A j \in Ids : Exists(j) => rows[j].msg # m
      BY <1>2 DEF Enqueue, TypeInv, RowShape
    <2>4. OneRowEach'
      BY <2>2, <2>3, <1>a DEF OneRowEach, Exists
    <2>5. OnlyEnqueued'
      BY <1>2, <1>a DEF Enqueue, workerVars, OnlyEnqueued
    <2> QED
      BY <2>4, <2>5 DEF QueueInv
  <1>3. ASSUME NEW w \in Workers, NEW S \in SUBSET Ids, ClaimStep(w, S)
        PROVE  QueueInv'
    <2>1. ClaimRows(w, S)
      BY <1>3 DEF ClaimStep
    <2>2. OneRowEach'
      BY <2>1, <1>a, ClaimedRows, SameMessagesKeepRows DEF Exists
    <2>3. \A e \in Claimed(w, S) : e.msg \in enqueued
      BY <2>1, ClaimedRows
    <2>4. OnlyEnqueued'
      BY <1>3, <1>a, <2>3 DEF ClaimStep, OnlyEnqueued
    <2> QED
      BY <2>2, <2>4 DEF QueueInv
  <1>4. ASSUME NEW w \in Workers, Send(w)
        PROVE  QueueInv'
    <2>1. PICK e \in batch[w] : \/ copies' = copies
                                \/ copies' = [copies EXCEPT ![e.msg] = IF @ < 2 THEN @ + 1 ELSE @]
      BY <1>4 DEF Send
    <2>2. e.msg \in enqueued
      BY <1>a DEF OnlyEnqueued
    <2>3. \A m \in Messages : m # e.msg => copies'[m] = copies[m]
      BY <2>1 DEF TypeInv, TypeOK
    <2>4. UNCHANGED <<rows, batch, enqueued>>
      BY <1>4 DEF Send
    <2> QED
      BY <2>2, <2>3, <2>4, <1>a DEF QueueInv, OneRowEach, OnlyEnqueued, Exists
  <1>5. ASSUME NEW w \in Workers, MarkStep(w)
        PROVE  QueueInv'
    <2>1. \A i \in Ids : rows'[i].msg = rows[i].msg /\ (rows'[i] = rows[i] \/ Exists(i))
      BY <1>5, <1>a, MarkedRow DEF MarkStep
    <2> QED
      BY <1>5, <2>1, <1>a, <1>b, SameMessagesKeepRows DEF MarkStep, QueueInv, Exists
  <1>6. ASSUME NEW S \in SUBSET Ids, PruneStep(S)
        PROVE  QueueInv'
    <2>1. OneRowEach'
      BY <1>6, <1>a, SameMessagesKeepRows DEF PruneStep, NoRow, Exists
    <2>2. OnlyEnqueued'
      BY <1>6, <1>a DEF PruneStep, OnlyEnqueued
    <2> QED
      BY <2>1, <2>2 DEF QueueInv
  <1> QED
    BY <1>1, <1>2, <1>3, <1>4, <1>5, <1>6, StepKinds

-----------------------------------------------------------------------------
(* Duplicates.  A message without an excuse has not been taken over from   *)
(* anyone, so whoever has it in hand still has its claim; and once a copy  *)
(* of it was accepted, the one worker that has it in hand knows, and the   *)
(* row is no longer waiting for anybody else.                              *)

ClaimsStand ==
    \A w \in Workers : \A e \in batch[w] :
       e.msg \notin excused => rows[e.id].claim_token = e.claim_token

AcceptedAreKnown ==
    \A m \in Messages \ excused :
       /\ copies[m] <= 1
       /\ copies[m] = 1 =>
             /\ \A i \in Ids : rows[i].msg = m => rows[i].status # "pending"
             /\ \A w \in Workers : \A e \in batch[w] : e.msg = m =>
                   pc[w] = "mark" /\ cur[w] = e /\ outcome[w] = "ok"

ExcuseInv == ClaimsStand /\ AcceptedAreKnown

\* A step that keeps the history, drops what it likes and touches no row in hand, and
\* none that it makes pending again after a copy was accepted, keeps the excuses.
LEMMA DroppingKeepsExcuses ==
    ASSUME TypeInv, ExcuseInv, Dropping, UNCHANGED historyVars,
           \A w \in Workers : \A e \in batch'[w] :
              rows[e.id].claim_token = e.claim_token =>
              rows'[e.id].claim_token = rows[e.id].claim_token,
           \A i \in Ids : \/ rows'[i].status # "pending"
                          \/ rows'[i] = rows[i]
                          \/ copies[rows'[i].msg] # 1
                          \/ rows'[i].msg \in excused
    PROVE  ExcuseInv'
  <1> USE DEF historyVars
  <1>1. \A w \in Workers : \A e \in batch'[w] : e \in batch[w]
    BY DEF Dropping
  <1>2. ClaimsStand'
    BY <1>1 DEF ExcuseInv, ClaimsStand
  <1>3. \A m \in Messages \ excused : copies[m] = 1 =>
           \A i \in Ids : rows'[i].msg = m => rows'[i].status # "pending"
    BY DEF ExcuseInv, AcceptedAreKnown
  <1>4. ASSUME NEW m \in Messages \ excused, copies[m] = 1,
               NEW w \in Workers, NEW e \in batch'[w], e.msg = m
        PROVE  pc'[w] = "mark" /\ cur'[w] = e /\ outcome'[w] = "ok"
    <2>1. pc[w] = "mark" /\ cur[w] = e /\ outcome[w] = "ok"
      BY <1>1, <1>4 DEF ExcuseInv, AcceptedAreKnown
    <2> QED
      BY <2>1, <1>4 DEF Dropping
  <1> QED
    BY <1>2, <1>3, <1>4 DEF ExcuseInv, AcceptedAreKnown

\* Every step keeps the excuses.
LEMMA NextExcuseInv ==
    TypeInv /\ ClaimInv /\ QueueInv /\ ExcuseInv /\ [Next]_vars => ExcuseInv'
  <1> SUFFICES ASSUME TypeInv, ClaimInv, QueueInv, ExcuseInv, [Next]_vars PROVE ExcuseInv'
    OBVIOUS
  <1> USE DEF historyVars
  <1>a. ClaimsStand /\ AcceptedAreKnown /\ DOMAIN rows = Ids
    BY DEF ExcuseInv, TypeInv, TypeOK
  <1>b. \A w \in Workers : \A e \in batch[w] :
           e.id \in Ids /\ e.msg \in Messages /\ e.claim_token # Null
    BY DEF TypeInv, TypeOK, Email, Tokens, Null
  \* What is in hand without an excuse is in hand once, and its row is being sent.
  <1>c. ASSUME NEW w \in Workers, NEW e \in batch[w], e.msg \notin excused
        PROVE  /\ rows[e.id].status = "sending" /\ rows[e.id].msg = e.msg
               /\ rows[e.id].claim_token = e.claim_token
               /\ \A v \in Workers : \A f \in batch[v] : f.msg = e.msg => v = w /\ f = e
    <2>1. \A v \in Workers : \A f \in batch[v] : f.msg \notin excused =>
             /\ rows[f.id].claim_token = f.claim_token
             /\ rows[f.id].status = "sending" /\ rows[f.id].msg = f.msg
      BY <1>a, <1>b DEF ClaimsStand, ClaimInv, ClaimAgrees, TypeInv, RowShape
    <2>2. ASSUME NEW v \in Workers, NEW f \in batch[v], f.msg = e.msg
          PROVE  v = w /\ f = e
      <3>1. f.id = e.id
        BY <2>1, <2>2, <1>b, <1>c DEF QueueInv, OneRowEach, Exists
      <3>2. f.claim_token = e.claim_token
        BY <3>1, <2>1, <2>2, <1>c
      <3> QED
        BY <3>1, <3>2 DEF ClaimInv, TokensDistinct
    <2> QED
      BY <2>1, <2>2, <1>c
  <1>1. CASE QuietStep
    BY <1>1, DroppingKeepsExcuses DEF QuietStep
  <1>2. ASSUME NEW m \in Messages, Enqueue(m)
        PROVE  ExcuseInv'
    <2>1. PICK i \in Ids, t \in 1..now : NextId(i) /\ rows' = [rows EXCEPT ![i] = EnqueueEmail(m, t)]
      BY <1>2 DEF Enqueue
    <2>2. UNCHANGED <<batch, pc, cur, outcome, copies, excused>> /\ m \notin enqueued
      BY <1>2 DEF Enqueue, workerVars
    <2>3. ~Exists(i)
      BY <2>1 DEF NextId, Ids
    <2>4. rows[i].claim_token = Null
      BY <2>3 DEF TypeInv, RowShape, Exists
    <2>5. rows'[i].msg = m /\ \A j \in Ids \ {i} : rows'[j] = rows[j]
      BY <2>1, <1>a DEF EnqueueEmail
    <2>6. ClaimsStand'
      BY <2>2, <2>4, <2>5, <1>a, <1>b DEF ClaimsStand
    <2>7. copies[m] # 1
      BY <2>2 DEF QueueInv, OnlyEnqueued
    <2>8. AcceptedAreKnown'
      BY <2>2, <2>5, <2>7, <1>a DEF AcceptedAreKnown
    <2> QED
      BY <2>6, <2>8 DEF ExcuseInv
  <1>3. ASSUME NEW w \in Workers, NEW S \in SUBSET Ids, ClaimStep(w, S)
        PROVE  ExcuseInv'
    <2>1. /\ ClaimRows(w, S) /\ copies' = copies
          /\ batch[w] = {} /\ batch'[w] \in {{}, Claimed(w, S)}
          /\ \A v \in Workers \ {w} : UNCHANGED <<batch[v], pc[v], cur[v], outcome[v]>>
      BY <1>3 DEF ClaimStep
    <2>2. /\ \A i \in Ids : rows'[i].msg = rows[i].msg
          /\ \A i \in S : /\ rows[i].status \in {"pending", "sending"}
                          /\ rows'[i].status = "sending"
                          /\ rows'[i].claim_token = generateClaimToken
          /\ \A i \in Ids \ S : rows'[i] = rows[i]
          /\ \A i \in S : rows[i].status = "sending" => rows[i].msg \in excused'
          /\ \A e \in Claimed(w, S) : /\ e.id \in S /\ e.msg = rows[e.id].msg
                                      /\ e.claim_token = generateClaimToken
          /\ excused \subseteq excused'
      BY <2>1, ClaimedRows
    <2>3. \A v \in Workers : \A e \in batch'[v] :
             \/ v # w /\ e \in batch[v]
             \/ v = w /\ e \in Claimed(w, S)
      BY <2>1
    <2>4. ASSUME NEW v \in Workers, NEW e \in batch'[v], e.msg \notin excused'
          PROVE  rows'[e.id].claim_token = e.claim_token
      <3>1. CASE e \in Claimed(w, S)
        BY <3>1, <2>2
      <3>2. CASE e \in batch[v]
        <4>1. rows[e.id].status = "sending" /\ rows[e.id].msg = e.msg
              /\ rows[e.id].claim_token = e.claim_token
          BY <3>2, <2>2, <2>4, <1>c
        <4>2. e.id \notin S
          BY <4>1, <2>2, <2>4
        <4> QED
          BY <4>1, <4>2, <2>2, <3>2, <1>b
      <3> QED
        BY <3>1, <3>2, <2>3
    <2>5. ASSUME NEW m \in Messages \ excused', copies[m] = 1
          PROVE  /\ \A i \in Ids : rows'[i].msg = m => rows'[i].status # "pending"
                 /\ \A v \in Workers : \A e \in batch'[v] : e.msg = m =>
                       pc'[v] = "mark" /\ cur'[v] = e /\ outcome'[v] = "ok"
      <3>1. \A i \in S : rows[i].msg # m
        BY <2>2, <2>5, <1>a DEF AcceptedAreKnown
      <3> QED
        BY <3>1, <2>1, <2>2, <2>3, <2>5, <1>a DEF AcceptedAreKnown
    <2>6. \A m \in Messages \ excused' : copies[m] <= 1
      BY <2>2, <1>a DEF AcceptedAreKnown
    <2> QED
      BY <2>1, <2>4, <2>5, <2>6 DEF ExcuseInv, ClaimsStand, AcceptedAreKnown
  <1>4. ASSUME NEW w \in Workers, Send(w)
        PROVE  ExcuseInv'
    <2>1. PICK e \in batch[w], res \in SendResults :
          /\ cur' = [cur EXCEPT ![w] = e]
          /\ outcome' = [outcome EXCEPT
                           ![w] = IF res = "accepted" THEN "ok" ELSE "error"]
          /\ copies' = IF res = "rejected" THEN copies
                       ELSE [copies EXCEPT ![e.msg] = IF @ < 2 THEN @ + 1 ELSE @]
          /\ excused' = IF res = "accepted_then_error"
                        THEN excused \cup {e.msg} ELSE excused
      BY <1>4 DEF Send
    <2>2. /\ UNCHANGED <<rows, batch>> /\ pc[w] = "send"
          /\ pc' = [pc EXCEPT ![w] = "mark"]
      BY <1>4 DEF Send
    <2>3. ClaimsStand'
      BY <2>1, <2>2, <1>a DEF ClaimsStand
    <2>4. \A v \in Workers \ {w} : pc'[v] = pc[v] /\ cur'[v] = cur[v] /\ outcome'[v] = outcome[v]
      BY <2>1, <2>2 DEF TypeInv, TypeOK
    <2>5. copies \in [Messages -> 0..2] /\ e.msg \in Messages
      BY <1>b DEF TypeInv, TypeOK
    <2>6. ASSUME NEW m \in Messages \ excused', m # e.msg
          PROVE  /\ copies'[m] <= 1
                 /\ copies'[m] = 1 =>
                    /\ \A i \in Ids : rows'[i].msg = m => rows'[i].status # "pending"
                    /\ \A v \in Workers : \A f \in batch'[v] : f.msg = m =>
                          pc'[v] = "mark" /\ cur'[v] = f /\ outcome'[v] = "ok"
      <3>1. copies'[m] = copies[m] /\ m \notin excused
        BY <2>1, <2>5, <2>6
      <3>2. ASSUME copies[m] = 1, NEW v \in Workers, NEW f \in batch[v], f.msg = m
            PROVE  v # w
        BY <3>1, <3>2, <2>2, <1>a DEF AcceptedAreKnown
      <3> QED
        BY <3>1, <3>2, <2>2, <2>4, <1>a DEF AcceptedAreKnown
    <2>7. ASSUME e.msg \notin excused'
          PROVE  /\ copies'[e.msg] <= 1
                 /\ copies'[e.msg] = 1 =>
                    /\ \A i \in Ids : rows'[i].msg = e.msg => rows'[i].status # "pending"
                    /\ \A v \in Workers : \A f \in batch'[v] : f.msg = e.msg =>
                          pc'[v] = "mark" /\ cur'[v] = f /\ outcome'[v] = "ok"
      <3>1. e.msg \notin excused /\ res \in {"accepted", "rejected"}
        BY <2>1, <2>7 DEF SendResults
      <3>2. copies[e.msg] = 0
        BY <3>1, <2>2, <2>5, <1>a DEF AcceptedAreKnown
      <3>3. CASE res = "rejected"
        BY <3>2, <3>3, <2>1
      <3>4. CASE res = "accepted"
        <4>1. copies'[e.msg] = 1
          BY <3>2, <3>4, <2>1, <2>5
        <4>2. cur'[w] = e /\ outcome'[w] = "ok" /\ pc'[w] = "mark"
          BY <3>4, <2>1, <2>2 DEF TypeInv, TypeOK
        <4>3. \A i \in Ids : rows[i].msg = e.msg => rows[i].status # "pending"
          BY <3>1, <1>b, <1>c DEF QueueInv, OneRowEach, Exists
        <4> QED
          BY <4>1, <4>2, <4>3, <3>1, <2>2, <1>c
      <3> QED
        BY <3>1, <3>3, <3>4
    <2>8. AcceptedAreKnown'
      BY <2>6, <2>7 DEF AcceptedAreKnown
    <2> QED
      BY <2>3, <2>8 DEF ExcuseInv
  <1>5. ASSUME NEW w \in Workers, MarkStep(w)
        PROVE  ExcuseInv'
    <2>1. /\ cur[w] \in batch[w] /\ cur[w].id \in Ids
          /\ Marked(w).msg = cur[w].msg
          /\ outcome[w] = "ok" => Marked(w).status = "sent"
          /\ rows'[cur[w].id] = Marked(w)
          /\ \A i \in Ids \ {cur[w].id} : rows'[i] = rows[i]
      BY <1>5, <1>a, MarkedRow DEF MarkStep
    <2>2. ASSUME NEW v \in Workers, NEW e \in batch'[v],
                 rows[e.id].claim_token = e.claim_token
          PROVE  rows'[e.id].claim_token = rows[e.id].claim_token
      <3>1. e \in batch[v] /\ e.id \in Ids
        BY <1>5, <1>b DEF MarkStep, Dropping
      <3>2. e.id # cur[w].id
        BY <1>5, <2>1, <2>2, <3>1 DEF MarkStep, Owns, ClaimInv, TokensDistinct
      <3> QED
        BY <3>1, <3>2, <2>1
    <2>3. \/ Marked(w).status # "pending" \/ copies[Marked(w).msg] # 1
          \/ Marked(w).msg \in excused
      BY <2>1, <1>a, <1>b DEF AcceptedAreKnown
    <2> QED
      BY <1>5, <2>1, <2>2, <2>3, DroppingKeepsExcuses DEF MarkStep
  <1>6. ASSUME NEW S \in SUBSET Ids, PruneStep(S)
        PROVE  ExcuseInv'
    <2>1. \A i \in S : rows[i].claim_token = Null
      BY <1>6 DEF PruneStep, TypeInv, RowShape
    <2>2. \A w \in Workers : \A e \in batch'[w] :
             rows[e.id].claim_token = e.claim_token => rows'[e.id] = rows[e.id]
      BY <1>6, <1>b, <2>1 DEF PruneStep
    <2>3. \A i \in Ids : rows'[i].status # "pending" \/ rows'[i] = rows[i]
      BY <1>6 DEF PruneStep, NoRow
    <2>4. Dropping /\ UNCHANGED historyVars
      BY <1>6 DEF PruneStep, Dropping
    <2> QED
      BY <2>2, <2>3, <2>4, DroppingKeepsExcuses
  <1> QED
    BY <1>1, <1>2, <1>3, <1>4, <1>5, <1>6, StepKinds

\* A message is delivered twice only after an ambiguous send or the takeover of an
\* expired claim: no retry, batch, prune, crash or restart alone duplicates mail.
THEOREM DuplicatesHaveExcuses == Spec => []DuplicatesAreExcused
  <1>1. Init => ExcuseInv
    BY DEF Init, ExcuseInv, ClaimsStand, AcceptedAreKnown
  <1>2. ExcuseInv => DuplicatesAreExcused
    BY DEF ExcuseInv, AcceptedAreKnown, DuplicatesAreExcused
  <1> QED
    BY InitTypeInv, NextTypeInv, InitClaimInv, NextClaimInv, InitQueueInv, NextQueueInv,
       NextExcuseInv, <1>1, <1>2, PTL DEF Spec

-----------------------------------------------------------------------------
(* The contract.  Where a message stands is read off its one row.          *)

Standing(r) == IF r.status \in {"pending", "sending"} THEN "queued" ELSE r.status

\* With one row for a message, MailState is the standing of that row, whichever row
\* CHOOSE would look at.
LEMMA MailStates ==
    TypeInv /\ OneRowEach =>
       \A m \in Messages :
          /\ m \notin enqueued => MailState(m) = "new"
          /\ \A i \in Ids : rows[i].msg = m => MailState(m) = Standing(rows[i])
          /\ m \in enqueued /\ (\A i \in Ids : rows[i].msg # m) => MailState(m) = "forgotten"
  <1> SUFFICES ASSUME TypeInv, OneRowEach, NEW m \in Messages
               PROVE  /\ m \notin enqueued => MailState(m) = "new"
                      /\ \A i \in Ids : rows[i].msg = m => MailState(m) = Standing(rows[i])
                      /\ m \in enqueued /\ (\A i \in Ids : rows[i].msg # m) =>
                            MailState(m) = "forgotten"
    OBVIOUS
  <1>1. m \notin enqueued => MailState(m) = "new"
    BY DEF MailState
  <1>2. ASSUME NEW i \in Ids, rows[i].msg = m
        PROVE  MailState(m) = Standing(rows[i])
    <2>1. \A j \in Ids : rows[j].msg = m => Exists(j) /\ m \in enqueued
      BY MessageAssumption DEF TypeInv, RowShape
    <2>2. \A j \in Ids : rows[j].msg = m => j = i
      BY <1>2, <2>1 DEF OneRowEach
    <2>3. (CHOOSE j \in Ids : rows[j].msg = m) = i
      BY <1>2, <2>2
    <2> QED
      BY <1>2, <2>1, <2>3 DEF MailState, Standing
  <1>3. m \in enqueued /\ (\A i \in Ids : rows[i].msg # m) => MailState(m) = "forgotten"
    BY DEF MailState
  <1> QED
    BY <1>1, <1>2, <1>3

\* The same of the next state.
LEMMA NextMailStates ==
    (TypeInv /\ OneRowEach)' =>
       (\A m \in Messages :
          /\ m \notin enqueued => MailState(m) = "new"
          /\ \A i \in Ids : rows[i].msg = m => MailState(m) = Standing(rows[i])
          /\ m \in enqueued /\ (\A i \in Ids : rows[i].msg # m) => MailState(m) = "forgotten")'
  BY MailStates, PTL

\* A message whose row keeps its standing, if it has one, stands where it stood.
LEMMA SameStanding ==
    ASSUME TypeInv, OneRowEach, TypeInv', OneRowEach', enqueued' = enqueued,
           NEW m \in Messages,
           \A i \in Ids : rows[i].msg = m \/ rows'[i].msg = m =>
              rows'[i].msg = rows[i].msg /\ Standing(rows'[i]) = Standing(rows[i])
    PROVE  MailState(m)' = MailState(m)
  <1>1. CASE m \notin enqueued
    BY <1>1, MailStates, NextMailStates
  <1>2. CASE \E i \in Ids : rows[i].msg = m
    <2>1. PICK i \in Ids : rows[i].msg = m
      BY <1>2
    <2>2. rows'[i].msg = m /\ Standing(rows'[i]) = Standing(rows[i])
      BY <2>1
    <2>3. MailState(m) = Standing(rows[i])
      BY <2>1, MailStates
    <2>4. MailState(m)' = Standing(rows'[i])
      BY <2>2, NextMailStates DEF Standing
    <2> QED
      BY <2>2, <2>3, <2>4
  <1>3. CASE m \in enqueued /\ \A i \in Ids : rows[i].msg # m
    BY <1>3, MailStates, NextMailStates
  <1> QED
    BY <1>1, <1>2, <1>3

\* Every step of the outbox is a step of the contract, or none it can see.
LEMMA NextContract ==
    /\ TypeInv /\ ClaimInv /\ LedgerInv /\ QueueInv
    /\ TypeInv' /\ QueueInv' /\ [Next]_vars
    => [Contract!ContractNext]_(Contract!contractVars)
  <1> SUFFICES ASSUME TypeInv, ClaimInv, LedgerInv, QueueInv, TypeInv', QueueInv', [Next]_vars
               PROVE  [Contract!ContractNext]_(Contract!contractVars)
    OBVIOUS
  <1> DEFINE mail == [m \in Messages |-> MailState(m)]
  <1> USE DEF historyVars
  <1>a. OneRowEach /\ OneRowEach' /\ OnlyEnqueued /\ enqueued \subseteq Messages
    BY DEF QueueInv, TypeInv, TypeOK
  <1>b. DOMAIN rows = Ids
    BY DEF TypeInv, TypeOK
  <1>c. \A i \in Ids : Exists(i) => rows[i].msg \in Messages
    BY <1>a DEF TypeInv, RowShape
  <1>d. ASSUME UNCHANGED <<copies, errors>>, \A m \in Messages : MailState(m)' = MailState(m)
        PROVE  UNCHANGED Contract!contractVars
    BY <1>d DEF Contract!contractVars
  <1>1. CASE QuietStep
    BY <1>1, <1>a, <1>d, SameStanding DEF QuietStep
  <1>2. ASSUME NEW m \in Messages, Enqueue(m)
        PROVE  Contract!Accept(m)
    <2>1. PICK i \in Ids, t \in 1..now : NextId(i) /\ rows' = [rows EXCEPT ![i] = EnqueueEmail(m, t)]
      BY <1>2 DEF Enqueue
    <2>2. /\ m \notin enqueued /\ enqueued' = enqueued \cup {m} /\ UNCHANGED <<copies, errors>>
      BY <1>2 DEF Enqueue
    <2>3. /\ rows'[i].msg = m /\ rows'[i].status = "pending"
          /\ \A j \in Ids \ {i} : rows'[j] = rows[j]
      BY <2>1, <1>b DEF EnqueueEmail
    <2>4. rows[i].msg \notin Messages
      BY <2>1, MessageAssumption DEF NextId, Ids, TypeInv, RowShape
    <2>5. MailState(m) = "new"
      BY <2>2, <1>a, MailStates
    <2>6. MailState(m)' = "queued"
      BY <2>3, <1>a, NextMailStates DEF Standing
    <2>7. ASSUME NEW n \in Messages \ {m}
          PROVE  MailState(n)' = MailState(n)
      <3>1. \A j \in Ids : rows'[j].msg = n <=> rows[j].msg = n
        BY <2>3, <2>4
      <3>2. CASE n \notin enqueued
        BY <3>2, <2>2, <1>a, MailStates, NextMailStates
      <3>3. CASE \E j \in Ids : rows[j].msg = n
        <4>1. PICK j \in Ids : rows[j].msg = n
          BY <3>3
        <4>2. rows'[j] = rows[j]
          BY <4>1, <2>3, <2>4
        <4> QED
          BY <4>1, <4>2, <1>a, MailStates, NextMailStates
      <3>4. CASE n \in enqueued /\ \A j \in Ids : rows[j].msg # n
        BY <3>1, <3>4, <2>2, <1>a, MailStates, NextMailStates
      <3> QED
        BY <3>2, <3>3, <3>4
    <2>8. mail[m] = "new" /\ mail' = [mail EXCEPT ![m] = "queued"]
      BY <2>5, <2>6, <2>7
    <2> QED
      BY <2>2, <2>8 DEF Contract!Accept
  <1>3. ASSUME NEW w \in Workers, NEW S \in SUBSET Ids, ClaimStep(w, S)
        PROVE  UNCHANGED Contract!contractVars
    <2>1. ClaimRows(w, S) /\ UNCHANGED <<enqueued, copies, errors>>
      BY <1>3 DEF ClaimStep
    <2>2. \A i \in Ids : rows'[i].msg = rows[i].msg /\ Standing(rows'[i]) = Standing(rows[i])
      BY <2>1, ClaimedRows DEF Standing
    <2> QED
      BY <2>1, <2>2, <1>a, <1>d, SameStanding
  <1>4. ASSUME NEW w \in Workers, Send(w)
        PROVE  \E m \in Messages : \E arrived, failed \in BOOLEAN :
                  Contract!Attempt(m, arrived, failed)
    <2>1. PICK e \in batch[w], res \in SendResults :
          /\ copies' = IF res = "rejected" THEN copies
                       ELSE [copies EXCEPT ![e.msg] = IF @ < 2 THEN @ + 1 ELSE @]
          /\ errors' = IF res = "accepted" THEN errors
                       ELSE [errors EXCEPT ![e.msg] = @ + 1]
      BY <1>4 DEF Send
    <2>2. UNCHANGED <<rows, enqueued>>
      BY <1>4 DEF Send
    <2>3. \A m \in Messages : MailState(m)' = MailState(m)
      BY <2>2 DEF MailState
    <2>4. e.msg \in enqueued /\ e.msg \in Messages
      BY <1>a DEF OnlyEnqueued
    <2>5. mail[e.msg] # "new"
      <3>1. \A i \in Ids : Standing(rows[i]) # "new"
        BY DEF TypeInv, TypeOK, Row, Statuses, Standing
      <3> QED
        BY <2>4, <3>1, <1>a, MailStates
    <2>6. Contract!Attempt(e.msg, res # "rejected", res # "accepted")
      BY <2>1, <2>3, <2>5 DEF SendResults, Contract!Attempt, Contract!OneMore
    <2> QED
      BY <2>4, <2>6
  <1>5. ASSUME NEW w \in Workers, MarkStep(w)
        PROVE  \/ UNCHANGED Contract!contractVars
               \/ \E m \in Messages : Contract!SettleSent(m) \/ Contract!SettleFailed(m)
    <2>a. pc[w] = "mark" /\ Owns(w) /\ UNCHANGED <<enqueued, copies, errors>>
      BY <1>5 DEF MarkStep
    <2>b. PICK i \in Ids, m \in Messages : i = cur[w].id /\ m = cur[w].msg
      BY <2>a, <1>c, MarkedRow
    <2>1. rows' = [rows EXCEPT ![i] = Marked(w)]
      BY <1>5, <2>b DEF MarkStep
    <2>2. rows[i].status = "sending" /\ rows[i].msg = m /\ Marked(w).msg = m
      BY <2>a, <2>b, MarkedRow
    <2>3. rows'[i] = Marked(w) /\ \A j \in Ids \ {i} : rows'[j] = rows[j]
      BY <2>1, <2>2, <1>b
    <2>4. \A n \in Messages \ {m} : MailState(n)' = MailState(n)
      BY <2>a, <2>2, <2>3, <1>a, SameStanding
    <2>5. MailState(m) = "queued"
      BY <2>2, <1>a, MailStates DEF Standing
    <2>6. MailState(m)' = Standing(rows'[i])
      BY <2>2, <2>3, <1>a, NextMailStates DEF Standing
    <2>7. /\ Marked(w).status = "sent" => copies[m] >= 1
          /\ Marked(w).status = "failed" => Marked(w).attempts = MaxAttempts
          /\ Marked(w).status \in {"sent", "pending", "failed"}
          /\ Marked(w).attempts <= errors[m]
      BY <2>1, <2>2, <2>a, MarkKeepsRowLedger
    <2>8. CASE Marked(w).status = "pending"
      BY <2>a, <2>3, <2>4, <2>5, <2>6, <2>8, <1>d DEF Standing
    <2>9. CASE Marked(w).status = "sent"
      <3>1. mail[m] = "queued" /\ mail' = [mail EXCEPT ![m] = "sent"]
        BY <2>3, <2>4, <2>5, <2>6, <2>9 DEF Standing
      <3>2. copies[m] > 0
        BY <2>2, <2>7, <2>9 DEF TypeInv, TypeOK
      <3> QED
        BY <2>a, <3>1, <3>2 DEF Contract!SettleSent
    <2>10. CASE Marked(w).status = "failed"
      <3>1. mail[m] = "queued" /\ mail' = [mail EXCEPT ![m] = "failed"]
        BY <2>3, <2>4, <2>5, <2>6, <2>10 DEF Standing
      <3>2. errors[m] >= MaxAttempts
        BY <2>2, <2>7, <2>10, OutboxAssumption DEF TypeInv, TypeOK
      <3> QED
        BY <2>a, <3>1, <3>2 DEF Contract!SettleFailed
    <2> QED
      BY <2>7, <2>8, <2>9, <2>10
  <1>6. ASSUME NEW S \in SUBSET Ids, PruneStep(S)
        PROVE  \E F \in SUBSET Messages : Contract!Forget(F)
    <2> DEFINE F == {rows[i].msg : i \in S}
    <2>1. /\ \A i \in S : rows[i].status \in {"sent", "failed"} /\ rows'[i] = NoRow
          /\ \A i \in Ids \ S : rows'[i] = rows[i]
          /\ UNCHANGED <<enqueued, copies, errors>>
      BY <1>6 DEF PruneStep
    <2>2. \A i \in S : i \in Ids /\ Exists(i) /\ rows[i].msg \in Messages
      BY <2>1, <1>c DEF Exists
    <2>3. \A i \in Ids : rows'[i].msg \in Messages => i \notin S
      BY <2>1, MessageAssumption DEF NoRow
    <2>4. ASSUME NEW m \in F
          PROVE  MailState(m) \in Contract!Settled /\ MailState(m)' = "forgotten"
      <3>1. PICK i \in S : rows[i].msg = m
        OBVIOUS
      <3>2. MailState(m) = rows[i].status
        BY <3>1, <2>1, <2>2, <1>a, MailStates DEF Standing
      <3>3. \A j \in Ids : rows[j].msg = m => j = i
        <4>1. \A j \in Ids : rows[j].msg = m => Exists(j)
          BY <3>1, <2>2, MessageAssumption DEF TypeInv, RowShape
        <4> QED
          BY <3>1, <4>1, <2>2, <1>a DEF OneRowEach
      <3>4. \A j \in Ids : rows'[j].msg # m
        BY <3>1, <3>3, <2>1, <2>2, <2>3
      <3>5. m \in enqueued' /\ m \in Messages
        BY <3>1, <2>1, <2>2 DEF TypeInv, RowShape
      <3>6. MailState(m)' = "forgotten"
        BY <3>4, <3>5, <1>a, NextMailStates
      <3> QED
        BY <3>1, <3>2, <3>6, <2>1 DEF Contract!Settled
    <2>5. ASSUME NEW m \in Messages \ F
          PROVE  MailState(m)' = MailState(m)
      <3>1. \A i \in Ids : rows[i].msg = m \/ rows'[i].msg = m => rows'[i] = rows[i]
        BY <2>1, <2>3, <2>5
      <3> QED
        BY <3>1, <2>1, <1>a, SameStanding
    <2>6. F \in SUBSET Messages
      BY <2>2
    <2> HIDE DEF F
    <2>7. /\ \A m \in F : mail[m] \in Contract!Settled
          /\ mail' = [m \in Messages |-> IF m \in F THEN "forgotten" ELSE mail[m]]
      BY <2>4, <2>5, <2>6
    <2>8. Contract!Forget(F)
      BY <2>1, <2>7 DEF Contract!Forget
    <2> QED
      BY <2>6, <2>8
  <1> QED
    BY <1>1, <1>2, <1>3, <1>4, <1>5, <1>6, StepKinds DEF Contract!ContractNext

\* The empty outbox is the contract's initial state.
LEMMA InitContract == Init => Contract!ContractInit
  BY DEF Init, Contract!ContractInit, MailState

\* The outbox implements the delivery contract: with any number of workers that crash,
\* lose answers and claims and race with the pruning, no message is lost, none is
\* settled without its cause and none comes back.
THEOREM OutboxImplementsContract == Spec => ImplementsContract
  BY InitTypeInv, NextTypeInv, InitClaimInv, NextClaimInv, InitLedgerInv, NextLedgerInv,
     InitQueueInv, NextQueueInv, InitContract, NextContract, PTL
     DEF Spec, ImplementsContract, Contract!ContractSpec

=============================================================================
