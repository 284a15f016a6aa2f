-------------------------- MODULE MCEmailOutboxLive --------------------------
(***************************************************************************)
(* EmailOutbox with a clock that never stops, in finitely many states.     *)
(*                                                                         *)
(* The clock stands at MaxTime and the times in use move into the past     *)
(* instead.  A statement compares a time with a reading of the clock at    *)
(* most one tick old (a bound of this run), so older times need only keep  *)
(* the order in which the rows are asked for.                              *)
(***************************************************************************)
EXTENDS MCEmailOutbox

ASSUME LiveAssumption ==
    /\ {ClaimTTL, RetryDelay} = {1}
    /\ MaxTime = MaxRows + 2
    /\ MaxTokens > MaxRows

\* Before every reading of the clock that is in use.
Past == MaxTime - 2

\* Init, with the clock where it stands and with a history that does not grow.
LiveInit ==
    /\ now = MaxTime
    /\ rows = [i \in Ids |-> NoRow]
    /\ pc = [w \in Workers |-> "idle"]
    /\ at = [w \in Workers |-> Null]
    /\ batch = [w \in Workers |-> {}]
    /\ cur = [w \in Workers |-> NoEmail]
    /\ outcome = [w \in Workers |-> "none"]
    /\ faults = 0
    /\ enqueued = {}
    /\ copies = [m \in Messages |-> 2]
    /\ errors = [m \in Messages |-> 0]
    /\ excused = Messages

-----------------------------------------------------------------------------

Older(x) == IF x <= Past + 1 THEN Past ELSE x - 1

\* Times further back than Past keep their order only.
OlderInOrder(x) ==
    IF x > Past + 1 THEN x - 1
    ELSE Past - Cardinality({rows[i].available_at : i \in Ids} \cap (x + 1)..(Past + 1))

\* A row one tick later.  The times of a settled row no longer matter, and claim
\* tokens are renamed after their rows.
OlderRow(i) ==
    CASE rows[i].status = "pending" ->
            [rows[i] EXCEPT !.available_at = OlderInOrder(@)]
      [] rows[i].status = "sending" ->
            [rows[i] EXCEPT !.available_at = OlderInOrder(@),
                            !.claim_expires_at = Older(@), !.claim_token = i]
      [] rows[i].status \in {"sent", "failed"} ->
            [rows[i] EXCEPT !.available_at = Past, !.sent_at = Null]
      [] rows[i].status = "absent" -> NoRow

\* An email at hand; of one whose claim is lost only that is kept.
OlderEmail(e) ==
    IF rows[e.id].claim_token = e.claim_token
    THEN [e EXCEPT !.claim_token = e.id, !.until = Older(@)]
    ELSE [e EXCEPT !.claim_token = MaxTokens, !.until = Past, !.attempts = 0]

\* A tick, again and again.  It comes while mail is being sent and while a claim
\* statement waits, not between the end of a send and its mark (a bound of this run).
LiveTick ==
    /\ \A w \in Workers : at[w] \in {Null, now} /\ pc[w] # "mark"
    /\ rows' = [i \in Ids |-> OlderRow(i)]
    /\ at' = [w \in Workers |-> IF at[w] = Null THEN Null ELSE Older(at[w])]
    /\ batch' = [w \in Workers |-> {OlderEmail(e) : e \in batch[w]}]
    /\ errors' = [m \in Messages |-> 0]
    /\ UNCHANGED <<now, pc, cur, outcome, faults, enqueued, copies, excused>>

\* Messages are enqueued in one order, since they are interchangeable, and with
\* the present time; settled rows are not pruned.
EnqueueInTurn ==
    /\ \/ Enqueue(m1)
       \/ m1 \in enqueued /\ Enqueue(m2)
    /\ \A i \in Ids : Exists(i)' => Exists(i) \/ rows'[i].available_at = now

LiveNext ==
    \/ LiveTick
    \/ EnqueueInTurn
    \/ \E w \in Workers :
          \/ StartCycle(w) \/ ClaimPending(w) \/ ClaimError(w) \/ Send(w)
          \/ Mark(w) \/ SkipClaimLost(w) \/ MarkError(w)
          \/ Stop(w) \/ Start(w)

\* The ticker of every worker fires again and again, a statement that got the
\* database returns, and whoever runs the process restarts it.  Nothing is
\* assumed of the clock, of the senders' success or of the cleanup job.
LiveSpec ==
    /\ LiveInit /\ [][LiveNext]_vars
    /\ \A w \in Workers : WF_vars(Progress(w))

=============================================================================
