-------------------------- MODULE DeliveryContract --------------------------
(***************************************************************************)
(* What the email outbox promises to the code that enqueues mail, with no  *)
(* table, claim, worker or clock in sight:                                 *)
(*                                                                         *)
(*  - an enqueued message stays queued until it is settled;                *)
(*  - it is settled as "sent" only once the mail server has accepted at    *)
(*    least one copy of it;                                                *)
(*  - it is settled as "failed" only after MaxAttempts failed sends of     *)
(*    that very message;                                                   *)
(*  - a settled message never returns to the queue, and only settled       *)
(*    messages are forgotten.                                              *)
(*                                                                         *)
(* Copies may be delivered at any time after the message was enqueued,     *)
(* even after it was settled: delivery is at-least-once.  EmailOutbox      *)
(* implements this specification.                                          *)
(***************************************************************************)
EXTENDS Naturals

CONSTANTS
    Messages,       \* the messages the application may enqueue
    MaxAttempts     \* failed sends after which a message is given up

VARIABLES
    mail,           \* mail[m] : where message m stands
    copies,         \* copies[m] : accepted copies of m: 0, 1 or 2 (two or more)
    errors          \* errors[m] : sends of m that reported an error

contractVars == <<mail, copies, errors>>

\* One more accepted copy; 2 stands for "more than one".
OneMore(n) == IF n < 2 THEN n + 1 ELSE n

Settled == {"sent", "failed"}

ContractInit ==
    /\ mail = [m \in Messages |-> "new"]
    /\ copies = [m \in Messages |-> 0]
    /\ errors = [m \in Messages |-> 0]

Accept(m) ==
    /\ mail[m] = "new"
    /\ mail' = [mail EXCEPT ![m] = "queued"]
    /\ UNCHANGED <<copies, errors>>

\* A send attempt: a copy may arrive, and an error may be reported.
Attempt(m, arrived, failed) ==
    /\ mail[m] # "new"
    /\ arrived \/ failed
    /\ copies' = IF arrived THEN [copies EXCEPT ![m] = OneMore(@)] ELSE copies
    /\ errors' = IF failed THEN [errors EXCEPT ![m] = @ + 1] ELSE errors
    /\ UNCHANGED mail

SettleSent(m) ==
    /\ mail[m] = "queued"
    /\ copies[m] > 0
    /\ mail' = [mail EXCEPT ![m] = "sent"]
    /\ UNCHANGED <<copies, errors>>

SettleFailed(m) ==
    /\ mail[m] = "queued"
    /\ errors[m] >= MaxAttempts
    /\ mail' = [mail EXCEPT ![m] = "failed"]
    /\ UNCHANGED <<copies, errors>>

\* Retention: any settled messages may be forgotten together.
Forget(S) ==
    /\ \A m \in S : mail[m] \in Settled
    /\ mail' = [m \in Messages |-> IF m \in S THEN "forgotten" ELSE mail[m]]
    /\ UNCHANGED <<copies, errors>>

ContractNext ==
    \/ \E m \in Messages :
          \/ Accept(m)
          \/ \E arrived, failed \in BOOLEAN : Attempt(m, arrived, failed)
          \/ SettleSent(m)
          \/ SettleFailed(m)
    \/ \E S \in SUBSET Messages : Forget(S)

ContractSpec == ContractInit /\ [][ContractNext]_contractVars

=============================================================================
