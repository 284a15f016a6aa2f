---------------------------- MODULE EmailOutbox -----------------------------
(***************************************************************************)
(* The durable email outbox: the table email_outbox, the request code that *)
(* enqueues into it, the worker processes that claim, send and mark its    *)
(* rows (internal/email/processor.go over internal/database/               *)
(* email_outbox_store.go), and the cleanup job that prunes settled rows.   *)
(*                                                                         *)
(* SQLite runs one statement at a time (one open connection per process    *)
(* and a database-wide write lock), so each statement is one atomic step;  *)
(* everything between two statements interleaves: other workers, the       *)
(* clock, crashes and restarts, and the pruning of the rows.               *)
(*                                                                         *)
(* Time is a counter.  Every timestamp a worker's statement uses is read   *)
(* from the clock in an earlier step (at[w]), as time.Now() is called      *)
(* before the statement gets the database.                                 *)
(***************************************************************************)
EXTENDS Naturals, FiniteSets

CONSTANTS
    Messages,       \* messages the application enqueues, each once
    Workers,        \* worker processes
    MaxRows,        \* bound: largest row id
    MaxTime,        \* bound: last value of the clock
    MaxFaults,      \* bound: crashes and failed statements
    MaxTokens,      \* bound: claim tokens that can be in use at one time
    BatchSize,      \* Processor.batchSize
    MaxAttempts,    \* Processor.maxAttempts
    RetryDelay,     \* Processor.retryDelay
    ClaimTTL,       \* Processor.claimTTL
    SentRetention,  \* CleanupJob.sentEmailRetention
    FailedRetention \* CleanupJob.failedEmailRetention

\* NewProcessor replaces a zero option by a positive default and ClaimPending
\* rejects a non-positive limit or TTL; the configuration rejects retention
\* below an hour.
ASSUME OutboxAssumption ==
    /\ MaxRows \in Nat \ {0} /\ MaxTime \in Nat \ {0}
    /\ MaxFaults \in Nat /\ MaxTokens \in Nat
    /\ BatchSize \in Nat \ {0}
    /\ MaxAttempts \in Nat \ {0}
    /\ RetryDelay \in Nat \ {0}
    /\ ClaimTTL \in Nat \ {0}
    /\ SentRetention \in Nat \ {0} /\ FailedRetention \in Nat \ {0}

VARIABLES
    now,        \* the clock
    rows,       \* the table email_outbox, by id
    pc,         \* pc[w] : where worker w is in its job loop
    at,         \* at[w] : the clock value worker w read last
    batch,      \* batch[w] : claimed emails worker w has not finished
    cur,        \* cur[w] : the email whose send just returned
    outcome,    \* outcome[w] : what that send returned
    faults,     \* crashes and failed statements so far
    enqueued,   \* history: the messages enqueued so far
    copies,     \* history: copies of a message the mail server accepted
    errors,     \* history: sends of a message that returned an error
    excused     \* history: messages with an ambiguous send or a reclaim

workerVars == <<pc, at, batch, cur, outcome>>
historyVars == <<enqueued, copies, errors, excused>>
vars == <<now, rows, pc, at, batch, cur, outcome, faults,
          enqueued, copies, errors, excused>>

-----------------------------------------------------------------------------
(* Types.  Null stands for SQL NULL in a time column and for the empty     *)
(* claim token; the clock starts at 1.                                     *)

Null == 0
Ids == 1..MaxRows
Time == Nat
Tokens == 1..MaxTokens
NoMessage == "no message"

\* The mark of an id with no row is no message.
ASSUME MessageAssumption == NoMessage \notin Messages

Statuses == {"absent", "pending", "sending", "sent", "failed"}

Row == [status : Statuses, msg : Messages \cup {NoMessage}, attempts : Nat,
        available_at : Time, claim_expires_at : Time,
        claim_token : Tokens \cup {Null}, sent_at : Time]

\* An id with no row.
NoRow == [status |-> "absent", msg |-> NoMessage, attempts |-> 0,
          available_at |-> Null, claim_expires_at |-> Null,
          claim_token |-> Null, sent_at |-> Null]

\* OutboxEmail; "until", the claim's expiry, is history: the code drops it.
Email == [id : Ids, msg : Messages, attempts : Nat, claim_token : Tokens,
          until : Time]
NoEmail == [id |-> 0, msg |-> NoMessage, attempts |-> 0, claim_token |-> Null,
            until |-> Null]

TypeOK ==
    /\ now \in Time
    /\ rows \in [Ids -> Row]
    /\ pc \in [Workers -> {"down", "idle", "claim", "send", "mark"}]
    /\ at \in [Workers -> Time]
    /\ batch \in [Workers -> SUBSET Email]
    /\ cur \in [Workers -> Email \cup {NoEmail}]
    /\ outcome \in [Workers -> {"none", "ok", "error"}]
    /\ faults \in Nat
    /\ enqueued \subseteq Messages
    /\ copies \in [Messages -> 0..2]
    /\ errors \in [Messages -> Nat]
    /\ excused \subseteq Messages

-----------------------------------------------------------------------------
(* The statements of internal/db/queries/email.sql.                        *)

Exists(i) == rows[i].status # "absent"

\* INSERT: an INTEGER PRIMARY KEY without AUTOINCREMENT takes the largest id
\* in the table plus one, so an id comes back once the last rows are pruned.
NextId(i) ==
    /\ \A j \in Ids : Exists(j) => j < i
    /\ i > 1 => Exists(i - 1)

EnqueueEmail(m, t) ==
    [status |-> "pending", msg |-> m, attempts |-> 0, available_at |-> t,
     claim_expires_at |-> Null, claim_token |-> Null, sent_at |-> Null]

\* Mutants of Due: a claim is ignored, or never expires.
DueIgnoringClaims(i, t) ==
    rows[i].status \in {"pending", "sending"} /\ rows[i].available_at <= t
DueOnlyPending(i, t) ==
    rows[i].status = "pending" /\ rows[i].available_at <= t

\* Rows the claim statement may take at clock reading t.
Due(i, t) ==
    \/ rows[i].status = "pending" /\ rows[i].available_at <= t
    \/ /\ rows[i].status = "sending"
       /\ rows[i].claim_expires_at # Null
       /\ rows[i].claim_expires_at <= t

\* ORDER BY available_at, id
Before(i, j) ==
    \/ rows[i].available_at < rows[j].available_at
    \/ rows[i].available_at = rows[j].available_at /\ i < j

\* The first BatchSize due rows.
ClaimSet(S, t) ==
    LET due == {i \in Ids : Due(i, t)} IN
    /\ S \subseteq due
    /\ \A i \in S : Cardinality({j \in due : Before(j, i)}) < BatchSize
    /\ \A i \in due \ S : Cardinality({j \in due : Before(j, i)}) >= BatchSize

ClaimRow(r, t, token) ==
    [status |-> "sending", msg |-> r.msg, attempts |-> r.attempts,
     available_at |-> r.available_at, claim_expires_at |-> t + ClaimTTL,
     claim_token |-> token, sent_at |-> r.sent_at]

ClaimPendingEmails(S, t, token) ==
    [i \in Ids |-> IF i \in S THEN ClaimRow(rows[i], t, token) ELSE rows[i]]

\* What a mark statement writes into the row it selects: the claim columns are
\* cleared in every case.
Unclaimed(r, status, attempts, available_at, sent_at) ==
    [status |-> status, msg |-> r.msg, attempts |-> attempts,
     available_at |-> available_at, claim_expires_at |-> Null,
     claim_token |-> Null, sent_at |-> sent_at]

\* Mutant of MarkEmailSent: the claim is released but the row stays queued.
ReleaseEmail(r, t) == Unclaimed(r, "pending", r.attempts, r.available_at, r.sent_at)

MarkEmailSent(r, t) == Unclaimed(r, "sent", r.attempts, r.available_at, t)

\* Mutant of MarkEmailFailed: a status no query selects.
MarkEmailRetry(r, t) == Unclaimed(r, "retry", r.attempts + 1, t, r.sent_at)

MarkEmailFailed(r, t) == Unclaimed(r, "pending", r.attempts + 1, t, r.sent_at)

MarkEmailFailedPermanently(r, t) ==
    Unclaimed(r, "failed", r.attempts + 1, t, r.sent_at)

\* WHERE id = ? AND claim_token = ? of the three mark statements.
Owns(w) == rows[cur[w].id].claim_token = cur[w].claim_token

-----------------------------------------------------------------------------

Init ==
    /\ now = 1
    /\ rows = [i \in Ids |-> NoRow]
    /\ pc = [w \in Workers |-> "idle"]
    /\ at = [w \in Workers |-> Null]
    /\ batch = [w \in Workers |-> {}]
    /\ cur = [w \in Workers |-> NoEmail]
    /\ outcome = [w \in Workers |-> "none"]
    /\ faults = 0
    /\ enqueued = {}
    /\ copies = [m \in Messages |-> 0]
    /\ errors = [m \in Messages |-> 0]
    /\ excused = {}

Tick ==
    /\ now < MaxTime
    /\ now' = now + 1
    /\ UNCHANGED <<rows, workerVars, faults, historyVars>>

\* A request enqueues a message that is available at once; it read the clock, t,
\* before its transaction got the database.
Enqueue(m) ==
    /\ m \notin enqueued
    /\ \E i \in Ids, t \in 1..now :
          /\ NextId(i)
          /\ rows' = [rows EXCEPT ![i] = EnqueueEmail(m, t)]
    /\ enqueued' = enqueued \cup {m}
    /\ UNCHANGED <<now, workerVars, faults, copies, errors, excused>>

-----------------------------------------------------------------------------
(* The worker: one run of ProcessPending after another.                    *)

\* ProcessPending starts and reads the clock for the claim.
StartCycle(w) ==
    /\ pc[w] = "idle"
    /\ pc' = [pc EXCEPT ![w] = "claim"]
    /\ at' = [at EXCEPT ![w] = now]
    /\ UNCHANGED <<now, rows, batch, cur, outcome, faults, historyVars>>

\* A token no row and no worker holds: a token nobody remembers may come back,
\* which nobody can tell from a new random one.
FreshToken(t) ==
    /\ \A i \in Ids : rows[i].claim_token # t
    /\ \A v \in Workers : \A e \in batch[v] : e.claim_token # t

\* Mutant of generateClaimToken: the same token for every claim.
constantClaimToken == CHOOSE t \in Tokens : TRUE

generateClaimToken == CHOOSE t \in Tokens : FreshToken(t)

\* ProcessPending returns: the job waits for its next tick.
EndCycle(w) ==
    /\ pc' = [pc EXCEPT ![w] = "idle"]
    /\ at' = [at EXCEPT ![w] = Null]
    /\ batch' = [batch EXCEPT ![w] = {}]
    /\ cur' = [cur EXCEPT ![w] = NoEmail]
    /\ outcome' = [outcome EXCEPT ![w] = "none"]

\* The claim statement runs and marks S; rows it takes over from an expired
\* claim are noted in the history.
ClaimRows(w, S) ==
    /\ pc[w] = "claim"
    /\ \E t \in Tokens : FreshToken(t)
    /\ ClaimSet(S, at[w])
    /\ rows' = ClaimPendingEmails(S, at[w], generateClaimToken)
    /\ excused' = excused \cup
                    {rows[i].msg : i \in {j \in S : rows[j].status = "sending"}}

\* The claimed rows as ClaimPending hands them to the processor.
Claimed(w, S) ==
    {[id |-> i, msg |-> rows[i].msg, attempts |-> rows[i].attempts,
      claim_token |-> generateClaimToken, until |-> at[w] + ClaimTTL] : i \in S}

ClaimPending(w) ==
    \E S \in SUBSET Ids :
       /\ ClaimRows(w, S)
       /\ IF S = {}
          THEN EndCycle(w)
          ELSE /\ pc' = [pc EXCEPT ![w] = "send"]
               /\ at' = [at EXCEPT ![w] = Null]
               /\ batch' = [batch EXCEPT ![w] = Claimed(w, S)]
               /\ UNCHANGED <<cur, outcome>>
       /\ UNCHANGED <<now, faults, enqueued, copies, errors>>

\* The claim statement fails, or its answer is lost after it was committed:
\* ProcessPending returns the error and the runner keeps the job.
ClaimError(w) ==
    /\ faults < MaxFaults
    /\ faults' = faults + 1
    /\ \/ /\ pc[w] = "claim"
          /\ UNCHANGED <<rows, excused>>
       \/ \E S \in SUBSET Ids : S # {} /\ ClaimRows(w, S)
    /\ EndCycle(w)
    /\ UNCHANGED <<now, enqueued, copies, errors>>

\* Sender.Send for some email of the batch (RETURNING promises no order).  The
\* server may accept the message and the session may still end in an error.
\* The clock for the mark statement is read when Send returns.
SendResults == {"accepted", "rejected", "accepted_then_error"}

Send(w) ==
    /\ pc[w] = "send"
    /\ \E e \in batch[w], res \in SendResults :
          /\ cur' = [cur EXCEPT ![w] = e]
          /\ outcome' = [outcome EXCEPT
                           ![w] = IF res = "accepted" THEN "ok" ELSE "error"]
          /\ copies' = IF res = "rejected" THEN copies
                       ELSE [copies EXCEPT ![e.msg] = IF @ < 2 THEN @ + 1 ELSE @]
          /\ errors' = IF res = "accepted" THEN errors
                       ELSE [errors EXCEPT ![e.msg] = @ + 1]
          /\ excused' = IF res = "accepted_then_error"
                        THEN excused \cup {e.msg} ELSE excused
    /\ pc' = [pc EXCEPT ![w] = "mark"]
    /\ at' = [at EXCEPT ![w] = now]
    /\ UNCHANGED <<now, rows, batch, faults, enqueued>>

\* The loop goes on with the rest of the batch, or ProcessPending returns.
NextEmail(w) ==
    LET rest == batch[w] \ {cur[w]} IN
    /\ pc' = [pc EXCEPT ![w] = IF rest = {} THEN "idle" ELSE "send"]
    /\ at' = [at EXCEPT ![w] = Null]
    /\ batch' = [batch EXCEPT ![w] = rest]
    /\ cur' = [cur EXCEPT ![w] = NoEmail]
    /\ outcome' = [outcome EXCEPT ![w] = "none"]

\* Mutant of nextAttempt: this failed send is not counted.
thisAttempt(w) == cur[w].attempts

nextAttempt(w) == cur[w].attempts + 1

\* Mutant of Marked: the error of Send is dropped.
MarkedIgnoringError(w) == MarkEmailSent(rows[cur[w].id], at[w])

\* What the statement chosen for worker w's finished send writes.
Marked(w) ==
    LET r == rows[cur[w].id] IN
    IF outcome[w] = "ok" THEN MarkEmailSent(r, at[w])
    ELSE IF nextAttempt(w) >= MaxAttempts
         THEN MarkEmailFailedPermanently(r, at[w])
         ELSE MarkEmailFailed(r, at[w] + RetryDelay)

\* MarkSent, MarkFailed or MarkFailedPermanently by the owner of the claim.
Mark(w) ==
    /\ pc[w] = "mark"
    /\ Owns(w)
    /\ rows' = [rows EXCEPT ![cur[w].id] = Marked(w)]
    /\ NextEmail(w)
    /\ UNCHANGED <<now, faults, historyVars>>

\* The mark statement selects no row (sql.ErrNoRows): skip this email.
SkipClaimLost(w) ==
    /\ pc[w] = "mark"
    /\ ~Owns(w)
    /\ NextEmail(w)
    /\ UNCHANGED <<now, rows, faults, historyVars>>

\* Any other error of the mark statement (its answer may be lost after it was
\* committed) ends ProcessPending; what is left of the batch stays "sending" in
\* the table until the claim expires.
MarkError(w) ==
    /\ pc[w] = "mark"
    /\ faults < MaxFaults
    /\ faults' = faults + 1
    /\ \/ UNCHANGED rows
       \/ Owns(w) /\ rows' = [rows EXCEPT ![cur[w].id] = Marked(w)]
    /\ EndCycle(w)
    /\ UNCHANGED <<now, historyVars>>

\* The process dies, or its context is cancelled: from then on Send and the
\* mark statements return the context's error and the job loop exits, so the
\* rows stay as they are in both cases.
Stop(w) ==
    /\ pc[w] # "down"
    /\ faults < MaxFaults
    /\ faults' = faults + 1
    /\ pc' = [pc EXCEPT ![w] = "down"]
    /\ at' = [at EXCEPT ![w] = Null]
    /\ batch' = [batch EXCEPT ![w] = {}]
    /\ cur' = [cur EXCEPT ![w] = NoEmail]
    /\ outcome' = [outcome EXCEPT ![w] = "none"]
    /\ UNCHANGED <<now, rows, historyVars>>

Start(w) ==
    /\ pc[w] = "down"
    /\ pc' = [pc EXCEPT ![w] = "idle"]
    /\ UNCHANGED <<now, rows, at, batch, cur, outcome, faults, historyVars>>

-----------------------------------------------------------------------------
(* The cleanup job's statements.  A run of the job reads the clock once and  *)
(* then waits for the database, so a statement's cut-off comes from some    *)
(* earlier clock value t; a failed statement changes nothing.               *)

\* DELETE of a set of rows; one that selects no row is no step.
Delete(S) ==
    /\ S # {}
    /\ rows' = [i \in Ids |-> IF i \in S THEN NoRow ELSE rows[i]]
    /\ UNCHANGED <<now, workerVars, faults, historyVars>>

PruneSentEmailOutboxRows(t) ==
    Delete({i \in Ids : /\ rows[i].status = "sent"
                        /\ rows[i].sent_at # Null
                        /\ rows[i].sent_at + SentRetention <= t})

\* Mutant of PruneFailedEmailOutboxRows: every old row is deleted.
PruneOldEmailOutboxRows(t) ==
    Delete({i \in Ids : Exists(i) /\ rows[i].available_at + FailedRetention <= t})

PruneFailedEmailOutboxRows(t) ==
    Delete({i \in Ids : /\ rows[i].status = "failed"
                        /\ rows[i].available_at + FailedRetention <= t})

-----------------------------------------------------------------------------

Progress(w) ==
    \/ StartCycle(w) \/ ClaimPending(w) \/ Send(w)
    \/ Mark(w) \/ SkipClaimLost(w) \/ Start(w)

Next ==
    \/ Tick
    \/ \E m \in Messages : Enqueue(m)
    \/ \E w \in Workers :
          \/ StartCycle(w) \/ ClaimPending(w) \/ ClaimError(w) \/ Send(w)
          \/ Mark(w) \/ SkipClaimLost(w) \/ MarkError(w)
          \/ Stop(w) \/ Start(w)
    \/ \E t \in 1..now :
          PruneSentEmailOutboxRows(t) \/ PruneFailedEmailOutboxRows(t)

Spec == Init /\ [][Next]_vars

-----------------------------------------------------------------------------
(* Correctness.                                                            *)

\* A worker that still works on an email loses its claim only after the claim's
\* time has run out: no second worker, no mark of a stale worker and no reuse of
\* a pruned row's id takes the row away earlier (ClaimPendingEmails' WHERE).
ClaimLostOnlyAfterExpiry ==
    \A w \in Workers : \A e \in batch[w] :
       rows[e.id].claim_token # e.claim_token => e.until <= now

\* While a claim stands, the copy the processor works from (recipient, body and
\* the attempt count it bases the retry decision on) is the row's, and nobody
\* else works under the same claim.
ClaimedCopyIsCurrent ==
    \A w \in Workers : \A e \in batch[w] :
       rows[e.id].claim_token = e.claim_token =>
          /\ rows[e.id].status = "sending"
          /\ rows[e.id].msg = e.msg
          /\ rows[e.id].attempts = e.attempts
          /\ \A v \in Workers \ {w} : \A f \in batch[v] : f.claim_token # e.claim_token

\* A row marked sent was accepted by the mail server: no stale MarkSent lands on
\* another message's row, not even when the row id was reused after pruning.
SentMeansAccepted ==
    \A i \in Ids : rows[i].status = "sent" => copies[rows[i].msg] >= 1

\* The retry budget is exact: a row still in the queue has attempts left, a
\* failed row used all of them, and every counted attempt is a failed send of
\* that row's own message.
RetryBudgetExact ==
    \A i \in Ids :
       /\ rows[i].status \in {"pending", "sending"} => rows[i].attempts < MaxAttempts
       /\ rows[i].status = "failed" => rows[i].attempts = MaxAttempts
       /\ Exists(i) => rows[i].attempts <= errors[rows[i].msg]

\* A message is delivered twice only if a send was ambiguous (accepted, then an
\* error) or an expired claim on it was taken over; a retry, a batch, a prune or
\* a restart alone never duplicates mail.
DuplicatesAreExcused ==
    \A m \in Messages : copies[m] = 2 => m \in excused

\* Each message has at most one row, so the outbox as a queue of messages is
\* well defined: where message m stands.
MailState(m) ==
    IF m \notin enqueued THEN "new"
    ELSE IF \E i \in Ids : rows[i].msg = m
         THEN LET r == rows[CHOOSE i \in Ids : rows[i].msg = m]
              IN  IF r.status \in {"pending", "sending"} THEN "queued" ELSE r.status
         ELSE "forgotten"

Contract == INSTANCE DeliveryContract
               WITH mail <- [m \in Messages |-> MailState(m)]

\* The outbox implements the delivery contract: at-least-once delivery, no
\* message lost, none settled without cause, none resurrected.
ImplementsContract == Contract!ContractSpec

\* A row nobody is at work on: its first send or its retry is due, or the claim
\* on it has run out.
Unattended(i) ==
    \/ rows[i].status = "pending" /\ rows[i].available_at <= now
    \/ rows[i].status = "sending" /\ rows[i].claim_expires_at <= now

\* A claim statement takes a row from a worker that is still at work on it.
TakeOver ==
    \E w \in Workers : \E e \in batch[w] :
       /\ rows[e.id].claim_token = e.claim_token
       /\ rows'[e.id].claim_token \notin {e.claim_token, Null}

\* No row is left unattended for ever, also when the worker that had claimed it
\* died or lost its answer, and although ClaimPendingEmails asks for the oldest rows
\* first and a retried row is asked for again.  The one exception: workers that go on
\* for ever to outlive their claims take rows from each other without counting an
\* attempt, and what stands behind those rows waits.
NoRowIsStranded ==
    \/ []<><<TakeOver>>_vars
    \/ \A i \in Ids : Unattended(i) ~> ~Unattended(i)

=============================================================================
