-------------------------------- MODULE TOTP --------------------------------
(***************************************************************************)
(* Two-factor authentication of one user: internal/auth/totp.go over       *)
(* internal/auth/totp_store.go, the user's row of user_totp and its rows   *)
(* of totp_backup_codes.                                                   *)
(*                                                                         *)
(* As in Accounts, a request is a process whose statements and             *)
(* transactions are atomic and interleave with those of other requests.    *)
(* Time is counted in TOTP time steps.  A TOTP code is the pair of the     *)
(* secret and the step it was computed for: two codes are equal only if    *)
(* both agree (a six-digit coincidence is left out).  Requests with a code *)
(* that matches nothing change nothing and are left out.                   *)
(***************************************************************************)
EXTENDS Naturals

CONSTANTS
    Requests,       \* requests that may be in flight together
    Operations,     \* the operations clients use, of AllOperations
    CodesPerSet,    \* totpBackupCodeCount
    MaxTime,        \* bound: last time step
    MaxSecrets,     \* bound: secrets ever generated
    MaxSets         \* bound: sets of backup codes ever generated

AllOperations == {"begin", "confirm", "disable", "regenerate", "login"}

ASSUME TOTPAssumption ==
    /\ CodesPerSet \in Nat \ {0}
    /\ MaxTime \in Nat \ {0} /\ MaxSecrets \in Nat /\ MaxSets \in Nat
    /\ Operations \subseteq AllOperations

VARIABLES
    now,        \* the current time step
    secret,     \* user_totp.secret, NoSecret when there is no row
    enabled,    \* user_totp.enabled_at IS NOT NULL
    last,       \* user_totp.last_used_counter
    codes,      \* the rows of totp_backup_codes
    used,       \* those with used_at IS NOT NULL
    req,        \* req[r] : request r and what it has read
    secrets,    \* history: secrets generated
    sets,       \* history: sets of backup codes generated
    confirmed,  \* history: secrets a code of which confirmed a setup
    optedIn,    \* history: a setup was completed and 2FA not disabled since
    accepted,   \* history: how often each TOTP code was accepted (2: more than
                \*   once) since the row was inserted
    spent       \* history: how often each backup code was accepted

row == <<secret, enabled, last>>
history == <<secrets, sets, confirmed, optedIn, accepted, spent>>
vars == <<now, secret, enabled, last, codes, used, req, secrets, sets,
          confirmed, optedIn, accepted, spent>>

-----------------------------------------------------------------------------
NoSecret == 0
Null == 0                       \* the first time step is 1
Secrets == 1..MaxSecrets
Steps == 1..(MaxTime + 1)
TOTPCodes == [secret : Secrets, step : Steps]
BackupCodes == [set : 1..MaxSets, n : 1..CodesPerSet]
NoCode == [set |-> 0, n |-> 0]

Idle == [op |-> "none", pc |-> "idle", secret |-> NoSecret, step |-> Null,
         code |-> NoCode, late |-> FALSE]
Request == [op : AllOperations \cup {"none"},
            pc : {"idle", "claim", "consume", "write"},
            secret : Secrets \cup {NoSecret}, step : Steps \cup {Null},
            code : BackupCodes \cup {NoCode},
            late : BOOLEAN]  \* history: a setup was completed since it looked

\* The shape of the state; 2FA is enabled only on an existing row.
TypeOK ==
    /\ now \in 1..MaxTime
    /\ secret \in Secrets \cup {NoSecret}
    /\ enabled \in BOOLEAN /\ (enabled => secret # NoSecret)
    /\ last \in Steps \cup {Null}
    /\ codes \subseteq BackupCodes /\ used \subseteq codes
    /\ req \in [Requests -> Request]
    /\ secrets \in 0..MaxSecrets /\ sets \in 0..MaxSets
    /\ confirmed \subseteq Secrets /\ optedIn \in BOOLEAN
    /\ accepted \in [TOTPCodes -> 0..2] /\ spent \in [BackupCodes -> 0..2]

OneMore(n) == IF n < 2 THEN n + 1 ELSE n

-----------------------------------------------------------------------------

Init ==
    /\ now = 1
    /\ secret = NoSecret /\ enabled = FALSE /\ last = Null
    /\ codes = {} /\ used = {}
    /\ req = [r \in Requests |-> Idle]
    /\ secrets = 0 /\ sets = 0
    /\ confirmed = {} /\ optedIn = FALSE
    /\ accepted = [c \in TOTPCodes |-> 0]
    /\ spent = [c \in BackupCodes |-> 0]

Tick ==
    /\ now < MaxTime
    /\ now' = now + 1
    /\ UNCHANGED <<row, codes, used, req, history>>

Continue(r, op, pc, s, step, code) ==
    req' = [req EXCEPT ![r] = [op |-> op, pc |-> pc, secret |-> s, step |-> step,
                               code |-> code, late |-> FALSE]]
End(r) == req' = [req EXCEPT ![r] = Idle]

(* BeginTOTPSetup: refuse if enabled, then store a new pending secret.     *)

\* Mutant: a setup is begun whatever the row says.
BeginAnyway(r) ==
    /\ req[r] = Idle /\ "begin" \in Operations
    /\ Continue(r, "begin", "write", NoSecret, Null, NoCode)
    /\ UNCHANGED <<now, row, codes, used, history>>

BeginTOTPSetup(r) ==
    /\ req[r] = Idle /\ "begin" \in Operations
    /\ ~enabled
    /\ Continue(r, "begin", "write", NoSecret, Null, NoCode)
    /\ UNCHANGED <<now, row, codes, used, history>>

\* The upsert keeps last_used_counter and clears enabled_at, whatever it finds.
UpsertPendingTOTP(r) ==
    /\ req[r].op = "begin" /\ req[r].pc = "write"
    /\ secrets < MaxSecrets
    /\ secrets' = secrets + 1
    /\ secret' = secrets + 1
    /\ enabled' = FALSE
    /\ last' = IF secret = NoSecret THEN Null ELSE last
    /\ optedIn' = (optedIn /\ ~req[r].late)
    /\ End(r)
    /\ UNCHANGED <<now, codes, used, sets, confirmed, accepted, spent>>

(* The operations that take a code read the row first: a setup is confirmed *)
(* on a row that is not enabled, the others need one that is.               *)

Readable(op) ==
    /\ op \in Operations \ {"begin"}
    /\ secret # NoSecret
    /\ enabled <=> op # "confirm"

\* The previous, the current and the next step are accepted.
VerifyWithCounter(step) == step <= now + 1 /\ now <= step + 1

\* With a TOTP code of the secret in the row.
ReadForCode(r, op, step) ==
    /\ req[r] = Idle
    /\ Readable(op)
    /\ VerifyWithCounter(step)
    /\ Continue(r, op, "claim", secret, step, NoCode)
    /\ UNCHANGED <<now, row, codes, used, history>>

\* With a backup code, which confirming a setup does not take.
ReadForBackupCode(r, op, c) ==
    /\ req[r] = Idle
    /\ op # "confirm"
    /\ Readable(op)
    /\ Continue(r, op, "consume", NoSecret, Null, c)
    /\ UNCHANGED <<now, row, codes, used, history>>

\* Mutant: the same step is good again.
NotOlder(step) == last = Null \/ last <= step

\* last_used_counter IS NULL OR last_used_counter < @counter
Newer(step) == last = Null \/ last < step

\* A code whose counter cannot be claimed is refused; as a backup code it
\* matches nothing.
ClaimTOTPCounter(r) ==
    LET c == [secret |-> req[r].secret, step |-> req[r].step] IN
    /\ req[r].pc = "claim"
    /\ IF secret # NoSecret /\ Newer(req[r].step)
       THEN /\ last' = req[r].step
            /\ accepted' = [accepted EXCEPT ![c] = OneMore(@)]
            /\ Continue(r, req[r].op, "write", req[r].secret, req[r].step, NoCode)
       ELSE /\ End(r)
            /\ UNCHANGED <<last, accepted>>
    /\ UNCHANGED <<now, secret, enabled, codes, used, secrets, sets, confirmed,
                   optedIn, spent>>

\* Mutant: used codes are not told from unused ones.
Present(c) == c \in codes

\* user_id = ? AND code_hash = ? AND used_at IS NULL
Unused(c) == c \in codes \ used

ConsumeTOTPBackupCode(r) ==
    LET c == req[r].code IN
    /\ req[r].pc = "consume"
    /\ IF Unused(c)
       THEN /\ used' = used \cup {c}
            /\ spent' = [spent EXCEPT ![c] = OneMore(@)]
            /\ Continue(r, req[r].op, "write", NoSecret, Null, c)
       ELSE /\ End(r)
            /\ UNCHANGED <<used, spent>>
    /\ UNCHANGED <<now, row, codes, secrets, sets, confirmed, optedIn, accepted>>

-----------------------------------------------------------------------------
(* What the operations do once the code is accepted.                       *)

\* Mutant: the new codes join the ones in the table.
InsertCodes ==
    /\ sets < MaxSets
    /\ sets' = sets + 1
    /\ codes' = codes \cup [set : {sets + 1}, n : 1..CodesPerSet]
    /\ used' = used

\* DeleteTOTPBackupCodesByUserID and a CreateTOTPBackupCode for each new code.
NewCodes ==
    /\ sets < MaxSets
    /\ sets' = sets + 1
    /\ codes' = [set : {sets + 1}, n : 1..CodesPerSet]
    /\ used' = {}

\* Mutant: the statement inserts the row it does not find.
RowAlwaysFound == TRUE

\* The row EnableTOTP looks for is there.
RowFound == secret # NoSecret

\* One transaction; that the update finds a row is not checked.
EnableTOTPWithBackupCodes(r) ==
    /\ req[r].op = "confirm" /\ req[r].pc = "write"
    /\ enabled' = RowFound
    /\ confirmed' = confirmed \cup {req[r].secret}
    /\ optedIn' = RowFound
    /\ NewCodes
    /\ req' = [q \in Requests |->
                 IF q = r THEN Idle ELSE [req[q] EXCEPT !.late = req[q].op = "begin"]]
    /\ UNCHANGED <<now, secret, last, secrets, accepted, spent>>

ReplaceBackupCodes(r) ==
    /\ req[r].op = "regenerate" /\ req[r].pc = "write"
    /\ NewCodes
    /\ End(r)
    /\ UNCHANGED <<now, row, secrets, confirmed, optedIn, accepted, spent>>

DeleteTOTPAndBackupCodes(r) ==
    /\ req[r].op = "disable" /\ req[r].pc = "write"
    /\ secret' = NoSecret /\ enabled' = FALSE /\ last' = Null
    /\ codes' = {} /\ used' = {}
    /\ optedIn' = FALSE
    /\ accepted' = [c \in TOTPCodes |-> 0]
    /\ End(r)
    /\ UNCHANGED <<now, secrets, sets, confirmed, spent>>

\* VerifyTOTPLogin goes on to createSessionForUser; sessions are Accounts' state.
LoginSucceeds(r) ==
    /\ req[r].op = "login" /\ req[r].pc = "write"
    /\ End(r)
    /\ UNCHANGED <<now, row, codes, used, history>>

(* The request ends early: an error, a disconnected client, a crash.       *)

Abort(r) ==
    /\ req[r] # Idle
    /\ End(r)
    /\ UNCHANGED <<now, row, codes, used, history>>

-----------------------------------------------------------------------------

Next ==
    \/ Tick
    \/ \E r \in Requests :
          \/ BeginTOTPSetup(r)
          \/ UpsertPendingTOTP(r)
          \/ \E op \in Operations, step \in Steps : ReadForCode(r, op, step)
          \/ \E op \in Operations, c \in BackupCodes : ReadForBackupCode(r, op, c)
          \/ ClaimTOTPCounter(r)
          \/ ConsumeTOTPBackupCode(r)
          \/ EnableTOTPWithBackupCodes(r)
          \/ ReplaceBackupCodes(r)
          \/ DeleteTOTPAndBackupCodes(r)
          \/ LoginSucceeds(r)
          \/ Abort(r)

Spec == Init /\ [][Next]_vars

-----------------------------------------------------------------------------
(* Correctness.                                                            *)

\* A TOTP code is accepted once, by whichever request claims its counter first, in
\* every step of its validity window and across new setups, as long as the row
\* lives.  (Disabling 2FA deletes the row and its counter: a request that read the
\* old secret may then have a code accepted against the counter of a new row.)
CodeAcceptedOnce ==
    \A c \in TOTPCodes : accepted[c] <= 1

\* A backup code is accepted once, whatever requests present it together and
\* however they race with regenerating the codes or disabling 2FA.
BackupCodeAcceptedOnce ==
    \A c \in BackupCodes : spent[c] <= 1

\* The table holds one whole set of codes (used or not) or none, and one whenever
\* 2FA is enabled: two requests that replace the codes at the same time leave no
\* mixture, and nobody is left with the authenticator as the only way in.
BackupCodesAreWhole ==
    \/ codes = {} /\ ~enabled
    \/ \E n \in 1..MaxSets : codes = [set : {n}, n : 1..CodesPerSet]

\* 2FA is on only with a secret from which the user confirmed a code.
EnabledSecretWasConfirmed ==
    enabled => secret \in confirmed

\* Once a setup is complete, 2FA stays on until it is disabled with a code, or until
\* a setup that had found it off before then writes its secret over the row
\* (BeginTOTPSetup's check and its upsert are two statements).
StaysOnUntilDisabled ==
    optedIn => enabled

=============================================================================
