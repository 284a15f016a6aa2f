----------------------------- MODULE TOTPProof ------------------------------
(***************************************************************************)
(* Proofs about TOTP, for any number of requests in flight, any size of a  *)
(* set of backup codes and any bounds on time, secrets and sets.           *)
(***************************************************************************)
EXTENDS TOTP, TLAPS

-----------------------------------------------------------------------------
(* Types.  TypeOK is not inductive: the statements that follow a check use *)
(* what the request read, so a request must have read it.                  *)

\* What a request has in hand at each point.
RequestShape ==
    \A r \in Requests :
       /\ req[r].pc = "claim" => req[r].secret \in Secrets /\ req[r].step \in Steps
       /\ req[r].pc = "consume" => req[r].code \in BackupCodes /\ req[r].op # "confirm"
       /\ req[r].op = "confirm" => req[r].secret \in Secrets

TypeInv == TypeOK /\ RequestShape

\* Requests as the handlers build them are requests.
LEMMA RequestTypes ==
    /\ Idle \in Request
    /\ \A op \in AllOperations, pc \in {"claim", "consume", "write"},
          s \in Secrets \cup {NoSecret}, step \in Steps \cup {Null},
          code \in BackupCodes \cup {NoCode} :
          [op |-> op, pc |-> pc, secret |-> s, step |-> step, code |-> code,
           late |-> FALSE] \in Request
  BY DEF Request, Idle, NoSecret, Null

\* Codes of one set, of the next number, are backup codes.
LEMMA NewCodesType ==
    ASSUME TypeOK, NewCodes
    PROVE  /\ codes' \subseteq BackupCodes /\ used' \subseteq codes'
           /\ sets' \in 0..MaxSets
           /\ sets' \in 1..MaxSets /\ codes' = [set : {sets'}, n : 1..CodesPerSet]
  <1>1. sets + 1 \in 1..MaxSets
    BY TOTPAssumption DEF TypeOK, NewCodes
  <1>2. [set : {sets + 1}, n : 1..CodesPerSet] \subseteq BackupCodes
    BY <1>1 DEF BackupCodes
  <1> QED
    BY <1>1, <1>2 DEF NewCodes

\* Nobody has set anything up.
LEMMA InitTypeInv == Init => TypeInv
  <1> SUFFICES ASSUME Init PROVE TypeInv
    OBVIOUS
  <1>1. now \in 1..MaxTime /\ secrets \in 0..MaxSecrets /\ sets \in 0..MaxSets
    BY TOTPAssumption DEF Init
  <1>2. /\ req \in [Requests -> Request]
        /\ accepted \in [TOTPCodes -> 0..2] /\ spent \in [BackupCodes -> 0..2]
    BY RequestTypes DEF Init
  <1>3. TypeOK
    BY <1>1, <1>2 DEF Init, TypeOK
  <1>4. RequestShape
    BY DEF Init, RequestShape, Idle
  <1> QED
    BY <1>3, <1>4 DEF TypeInv

\* A request that ends keeps the others.
LEMMA EndKeepsRequests ==
    ASSUME TypeInv, NEW r \in Requests, End(r)
    PROVE  req' \in [Requests -> Request] /\ RequestShape'
  BY RequestTypes DEF TypeInv, TypeOK, End, RequestShape, Idle

\* A request that goes on with what its handler gives it keeps the others.
LEMMA ContinueKeepsRequests ==
    ASSUME TypeInv, NEW r \in Requests, NEW op \in AllOperations,
           NEW pc \in {"claim", "consume", "write"}, NEW s \in Secrets \cup {NoSecret},
           NEW step \in Steps \cup {Null}, NEW code \in BackupCodes \cup {NoCode},
           pc = "claim" => s \in Secrets /\ step \in Steps,
           pc = "consume" => code \in BackupCodes /\ op # "confirm",
           op = "confirm" => s \in Secrets,
           Continue(r, op, pc, s, step, code)
    PROVE  req' \in [Requests -> Request] /\ RequestShape'
  <1> DEFINE q == [op |-> op, pc |-> pc, secret |-> s, step |-> step, code |-> code,
                   late |-> FALSE]
  <1>1. q \in Request
    BY RequestTypes
  <1>2. req' = [req EXCEPT ![r] = q]
    BY DEF Continue
  <1>3. /\ q.pc = "claim" => q.secret \in Secrets /\ q.step \in Steps
        /\ q.pc = "consume" => q.code \in BackupCodes /\ q.op # "confirm"
        /\ q.op = "confirm" => q.secret \in Secrets
    OBVIOUS
  <1> HIDE DEF q
  <1> QED
    BY <1>1, <1>2, <1>3 DEF TypeInv, TypeOK, RequestShape

\* Every step of a request and of the clock keeps the types.
LEMMA NextTypeInv == TypeInv /\ [Next]_vars => TypeInv'
  <1> SUFFICES ASSUME TypeInv, [Next]_vars PROVE TypeInv'
    OBVIOUS
  <1> USE DEF row, history
  <1>a. TypeOK /\ RequestShape
    BY DEF TypeInv
  <1>b. \A r \in Requests : req[r] \in Request
    BY <1>a DEF TypeOK
  <1>1. CASE Tick
    BY <1>1, <1>a, TOTPAssumption DEF Tick, TypeInv, TypeOK, RequestShape
  <1>2. ASSUME NEW r \in Requests, BeginTOTPSetup(r)
        PROVE  TypeInv'
    <2>1. req' \in [Requests -> Request] /\ RequestShape'
      BY <1>2, ContinueKeepsRequests DEF BeginTOTPSetup, AllOperations
    <2> QED
      BY <1>2, <1>a, <2>1 DEF BeginTOTPSetup, TypeInv, TypeOK
  <1>3. ASSUME NEW r \in Requests, UpsertPendingTOTP(r)
        PROVE  TypeInv'
    <2>1. req' \in [Requests -> Request] /\ RequestShape'
      BY <1>3, EndKeepsRequests DEF UpsertPendingTOTP
    <2>2. secret' \in Secrets /\ secrets' \in 0..MaxSecrets
      BY <1>3, <1>a, TOTPAssumption DEF UpsertPendingTOTP, TypeOK, Secrets
    <2>3. last' \in Steps \cup {Null}
      BY <1>3, <1>a DEF UpsertPendingTOTP, TypeOK
    <2>4. optedIn' \in BOOLEAN
      BY <1>3 DEF UpsertPendingTOTP
    <2> QED
      BY <1>3, <1>a, <2>1, <2>2, <2>3, <2>4 DEF UpsertPendingTOTP, TypeInv, TypeOK
  <1>4. ASSUME NEW r \in Requests, NEW op \in Operations, NEW step \in Steps,
               ReadForCode(r, op, step)
        PROVE  TypeInv'
    <2>1. op \in AllOperations /\ secret \in Secrets
      BY <1>4, <1>a, TOTPAssumption DEF ReadForCode, Readable, TypeOK
    <2>2. req' \in [Requests -> Request] /\ RequestShape'
      BY <1>4, <2>1, ContinueKeepsRequests DEF ReadForCode
    <2> QED
      BY <1>4, <1>a, <2>2 DEF ReadForCode, TypeInv, TypeOK
  <1>5. ASSUME NEW r \in Requests, NEW op \in Operations, NEW c \in BackupCodes,
               ReadForBackupCode(r, op, c)
        PROVE  TypeInv'
    <2>1. op \in AllOperations /\ op # "confirm"
      BY <1>5, TOTPAssumption DEF ReadForBackupCode
    <2>2. req' \in [Requests -> Request] /\ RequestShape'
      BY <1>5, <2>1, ContinueKeepsRequests DEF ReadForBackupCode
    <2> QED
      BY <1>5, <1>a, <2>2 DEF ReadForBackupCode, TypeInv, TypeOK
  <1>6. ASSUME NEW r \in Requests, ClaimTOTPCounter(r)
        PROVE  TypeInv'
    <2> DEFINE c == [secret |-> req[r].secret, step |-> req[r].step]
    <2>1. /\ req[r].secret \in Secrets /\ req[r].step \in Steps
          /\ req[r].op \in AllOperations \cup {"none"}
      BY <1>6, <1>a, <1>b DEF ClaimTOTPCounter, RequestShape, Request
    <2>2. CASE secret # NoSecret /\ Newer(req[r].step)
      <3>1. /\ last' = req[r].step
            /\ accepted' = [accepted EXCEPT ![c] = OneMore(@)]
            /\ Continue(r, req[r].op, "write", req[r].secret, req[r].step, NoCode)
        BY <1>6, <2>2 DEF ClaimTOTPCounter
      <3>2. accepted' \in [TOTPCodes -> 0..2]
        <4>1. c \in TOTPCodes
          BY <2>1 DEF TOTPCodes
        <4>2. accepted[c] \in 0..2
          BY <4>1, <1>a DEF TypeOK
        <4>3. OneMore(accepted[c]) \in 0..2
          BY <4>2 DEF OneMore
        <4> QED
          BY <3>1, <4>3, <1>a DEF TypeOK
      <3>3. req' \in [Requests -> Request] /\ RequestShape'
        <4>1. CASE req[r].op \in AllOperations
          BY <4>1, <3>1, <2>1, ContinueKeepsRequests
        <4>2. CASE req[r].op = "none"
          BY <4>2, <3>1, <2>1, <1>a, <1>b DEF Continue, Request, TypeOK, RequestShape
        <4> QED
          BY <4>1, <4>2, <2>1
      <3> QED
        BY <3>1, <3>2, <3>3, <2>1, <1>6, <1>a DEF ClaimTOTPCounter, TypeInv, TypeOK
    <2>3. CASE ~(secret # NoSecret /\ Newer(req[r].step))
      <3>1. req' \in [Requests -> Request] /\ RequestShape'
        BY <1>6, <2>3, EndKeepsRequests DEF ClaimTOTPCounter
      <3> QED
        BY <1>6, <1>a, <2>3, <3>1 DEF ClaimTOTPCounter, TypeInv, TypeOK
    <2> QED
      BY <2>2, <2>3
  <1>7. ASSUME NEW r \in Requests, ConsumeTOTPBackupCode(r)
        PROVE  TypeInv'
    <2>1. /\ req[r].code \in BackupCodes /\ req[r].op # "confirm"
          /\ req[r].op \in AllOperations \cup {"none"}
      BY <1>7, <1>a, <1>b DEF ConsumeTOTPBackupCode, RequestShape, Request
    <2>2. CASE Unused(req[r].code)
      <3>1. /\ used' = used \cup {req[r].code}
            /\ spent' = [spent EXCEPT ![req[r].code] = OneMore(@)]
            /\ Continue(r, req[r].op, "write", NoSecret, Null, req[r].code)
        BY <1>7, <2>2 DEF ConsumeTOTPBackupCode
      <3>2. spent' \in [BackupCodes -> 0..2] /\ used' \subseteq codes
        BY <3>1, <2>2, <1>a DEF TypeOK, OneMore, Unused
      <3>3. req' \in [Requests -> Request] /\ RequestShape'
        <4>1. CASE req[r].op \in AllOperations
          BY <4>1, <3>1, <2>1, ContinueKeepsRequests
        <4>2. CASE req[r].op = "none"
          BY <4>2, <3>1, <2>1, <1>a, <1>b DEF Continue, Request, TypeOK, RequestShape
        <4> QED
          BY <4>1, <4>2, <2>1
      <3> QED
        BY <3>2, <3>3, <1>7, <1>a DEF ConsumeTOTPBackupCode, TypeInv, TypeOK
    <2>3. CASE ~Unused(req[r].code)
      <3>1. req' \in [Requests -> Request] /\ RequestShape'
        BY <1>7, <2>3, EndKeepsRequests DEF ConsumeTOTPBackupCode
      <3> QED
        BY <1>7, <1>a, <2>3, <3>1 DEF ConsumeTOTPBackupCode, TypeInv, TypeOK
    <2> QED
      BY <2>2, <2>3
  <1>8. ASSUME NEW r \in Requests, EnableTOTPWithBackupCodes(r)
        PROVE  TypeInv'
    <2>1. req[r].secret \in Secrets
      BY <1>8, <1>a DEF EnableTOTPWithBackupCodes, RequestShape
    <2>2. req' \in [Requests -> Request]
      <3>1. ASSUME NEW q \in Requests, NEW l \in BOOLEAN
            PROVE  [req[q] EXCEPT !.late = l] \in Request
        BY <1>b DEF Request
      <3>2. \A q \in Requests : [req[q] EXCEPT !.late = req[q].op = "begin"] \in Request
        BY <3>1
      <3> QED
        BY <1>8, <3>2, RequestTypes DEF EnableTOTPWithBackupCodes
    <2>3. \A q \in Requests : q # r => /\ req'[q].op = req[q].op /\ req'[q].pc = req[q].pc
                                       /\ req'[q].secret = req[q].secret
                                       /\ req'[q].step = req[q].step
                                       /\ req'[q].code = req[q].code
      BY <1>8, <1>b DEF EnableTOTPWithBackupCodes, Request
    <2>4. RequestShape'
      BY <1>8, <1>a, <2>3 DEF EnableTOTPWithBackupCodes, RequestShape, Idle
    <2> QED
      BY <1>8, <1>a, <2>1, <2>2, <2>4, NewCodesType
         DEF EnableTOTPWithBackupCodes, RowFound, TypeInv, TypeOK
  <1>9. ASSUME NEW r \in Requests, ReplaceBackupCodes(r)
        PROVE  TypeInv'
    <2>1. req' \in [Requests -> Request] /\ RequestShape'
      BY <1>9, EndKeepsRequests DEF ReplaceBackupCodes
    <2> QED
      BY <1>9, <1>a, <2>1, NewCodesType DEF ReplaceBackupCodes, TypeInv, TypeOK
  <1>10. ASSUME NEW r \in Requests, DeleteTOTPAndBackupCodes(r)
         PROVE  TypeInv'
    <2>1. req' \in [Requests -> Request] /\ RequestShape'
      BY <1>10, EndKeepsRequests DEF DeleteTOTPAndBackupCodes
    <2>2. accepted' \in [TOTPCodes -> 0..2]
      BY <1>10 DEF DeleteTOTPAndBackupCodes
    <2> QED
      BY <1>10, <1>a, <2>1, <2>2 DEF DeleteTOTPAndBackupCodes, TypeInv, TypeOK
  <1>11. ASSUME NEW r \in Requests, LoginSucceeds(r) \/ Abort(r)
         PROVE  TypeInv'
    <2>1. req' \in [Requests -> Request] /\ RequestShape'
      BY <1>11, EndKeepsRequests DEF LoginSucceeds, Abort
    <2> QED
      BY <1>11, <1>a, <2>1 DEF LoginSucceeds, Abort, TypeInv, TypeOK
  <1>12. CASE UNCHANGED vars
    BY <1>12, <1>a DEF vars, TypeInv, TypeOK, RequestShape
  <1> QED
    BY <1>1, <1>2, <1>3, <1>4, <1>5, <1>6, <1>7, <1>8, <1>9, <1>10, <1>11, <1>12 DEF Next

\* Every reachable state of a user's second factor is well typed, and 2FA is enabled
\* only on an existing row.
THEOREM TypeCorrect == Spec => []TypeOK
  <1>1. TypeInv => TypeOK
    BY DEF TypeInv
  <1> QED
    BY InitTypeInv, NextTypeInv, <1>1, PTL DEF Spec

-----------------------------------------------------------------------------
(* TOTP codes.  That a code is good once rests on last_used_counter: a     *)
(* code that was accepted is not newer than it, also for a request that    *)
(* read the row before.                                                    *)

CounterCoversAccepted ==
    /\ \A c \in TOTPCodes : accepted[c] <= 1 /\ (accepted[c] >= 1 => c.step <= last)
    /\ secret = NoSecret => \A c \in TOTPCodes : accepted[c] = 0

\* Every step keeps the counter ahead of the codes that were accepted.
LEMMA NextCounter ==
    TypeInv /\ CounterCoversAccepted /\ [Next]_vars => CounterCoversAccepted'
  <1> SUFFICES ASSUME TypeInv, CounterCoversAccepted, [Next]_vars
               PROVE  CounterCoversAccepted'
    OBVIOUS
  <1> USE DEF row, history
  <1>1. ASSUME NEW r \in Requests, UpsertPendingTOTP(r)
        PROVE  CounterCoversAccepted'
    <2>1. secret' # NoSecret
      BY <1>1 DEF UpsertPendingTOTP, TypeInv, TypeOK, NoSecret
    <2> QED
      BY <1>1, <2>1 DEF UpsertPendingTOTP, CounterCoversAccepted
  <1>2. ASSUME NEW r \in Requests, ClaimTOTPCounter(r)
        PROVE  CounterCoversAccepted'
    <2> DEFINE c == [secret |-> req[r].secret, step |-> req[r].step]
    <2>1. c \in TOTPCodes /\ c.step = req[r].step /\ req[r].step \in Nat
      BY <1>2, TOTPAssumption
         DEF ClaimTOTPCounter, TypeInv, RequestShape, TOTPCodes, Steps
    <2>2. CASE secret # NoSecret /\ Newer(req[r].step)
      <3>1. /\ last' = req[r].step /\ secret' = secret
            /\ accepted' = [accepted EXCEPT ![c] = OneMore(@)]
        BY <1>2, <2>2 DEF ClaimTOTPCounter
      <3>2. last < req[r].step /\ last \in Nat
        <4>1. last \in Nat
          BY TOTPAssumption DEF TypeInv, TypeOK, Null, Steps
        <4>2. 0 < req[r].step
          BY <1>2, TOTPAssumption DEF ClaimTOTPCounter, TypeInv, RequestShape, Steps
        <4> QED
          BY <2>1, <2>2, <4>1, <4>2 DEF Newer, Null
      <3>3. accepted \in [TOTPCodes -> 0..2]
        BY DEF TypeInv, TypeOK
      <3>4. accepted[c] = 0
        BY <2>1, <3>2, <3>3 DEF CounterCoversAccepted
      <3>5. \A d \in TOTPCodes : d.step \in Nat
        BY TOTPAssumption DEF TOTPCodes, Steps
      <3>6. ASSUME NEW d \in TOTPCodes
            PROVE  accepted'[d] <= 1 /\ (accepted'[d] >= 1 => d.step <= last')
        <4>1. CASE d = c
          BY <4>1, <2>1, <3>1, <3>3, <3>4 DEF OneMore
        <4>2. CASE d # c
          <5>1. accepted'[d] = accepted[d]
            BY <4>2, <3>1, <3>3
          <5> QED
            BY <5>1, <3>1, <3>2, <3>5, <2>1 DEF CounterCoversAccepted
        <4> QED
          BY <4>1, <4>2
      <3> QED
        BY <2>2, <3>1, <3>6 DEF CounterCoversAccepted
    <2>3. CASE ~(secret # NoSecret /\ Newer(req[r].step))
      BY <1>2, <2>3 DEF ClaimTOTPCounter, CounterCoversAccepted
    <2> QED
      BY <2>2, <2>3
  <1>3. ASSUME NEW r \in Requests, DeleteTOTPAndBackupCodes(r)
        PROVE  CounterCoversAccepted'
    BY <1>3 DEF DeleteTOTPAndBackupCodes, CounterCoversAccepted
  <1>4. CASE UNCHANGED <<row, accepted>>
    BY <1>4 DEF CounterCoversAccepted
  <1>5. ASSUME NEW r \in Requests, EnableTOTPWithBackupCodes(r)
        PROVE  CounterCoversAccepted'
    BY <1>5 DEF EnableTOTPWithBackupCodes, CounterCoversAccepted
  <1> QED
    BY <1>1, <1>2, <1>3, <1>4, <1>5
       DEF Next, Tick, BeginTOTPSetup, ReadForCode, ReadForBackupCode,
           ConsumeTOTPBackupCode, ReplaceBackupCodes, LoginSucceeds, Abort, vars

\* However many requests present it, a TOTP code is accepted once in the life of the
\* user's row (ClaimTOTPCounter).
THEOREM CodesAreAcceptedOnce == Spec => []CodeAcceptedOnce
  <1>1. Init => CounterCoversAccepted
    BY DEF Init, CounterCoversAccepted
  <1>2. CounterCoversAccepted => CodeAcceptedOnce
    BY DEF CounterCoversAccepted, CodeAcceptedOnce
  <1> QED
    BY InitTypeInv, NextTypeInv, NextCounter, <1>1, <1>2, PTL DEF Spec

-----------------------------------------------------------------------------
(* Backup codes.  That a code is good once rests on used_at, and on a new  *)
(* set having no code of an old one.                                       *)

SpentAreUsed ==
    /\ \A c \in codes : c.set <= sets
    /\ \A c \in BackupCodes :
          /\ spent[c] <= 1
          /\ spent[c] >= 1 => c.set <= sets /\ (c \in codes => c \in used)

\* A new set of codes has no code that was ever accepted.
LEMMA NewCodesAreUnspent ==
    ASSUME TypeInv, SpentAreUsed, NewCodes, spent' = spent
    PROVE  SpentAreUsed'
  <1>1. sets \in Nat /\ sets' = sets + 1
    BY DEF TypeInv, TypeOK, NewCodes
  <1>2. \A c \in codes' : c.set = sets + 1
    BY DEF NewCodes
  <1>3. \A c \in BackupCodes : c.set \in Nat
    BY TOTPAssumption DEF BackupCodes
  <1>4. \A c \in BackupCodes : spent[c] >= 1 => c.set <= sets /\ c \notin codes'
    BY <1>1, <1>2, <1>3 DEF SpentAreUsed
  <1>5. \A c \in codes' : c.set <= sets'
    BY <1>1, <1>2
  <1>6. \A c \in BackupCodes : spent[c] >= 1 => c.set <= sets'
    BY <1>1, <1>3, <1>4
  <1> QED
    BY <1>4, <1>5, <1>6 DEF SpentAreUsed

\* Every step keeps the spent codes apart from those that can be used.
LEMMA NextSpent == TypeInv /\ SpentAreUsed /\ [Next]_vars => SpentAreUsed'
  <1> SUFFICES ASSUME TypeInv, SpentAreUsed, [Next]_vars PROVE SpentAreUsed'
    OBVIOUS
  <1> USE DEF row, history
  <1>1. ASSUME NEW r \in Requests, ConsumeTOTPBackupCode(r)
        PROVE  SpentAreUsed'
    <2> DEFINE c == req[r].code
    <2>1. CASE Unused(c)
      <3>1. /\ used' = used \cup {c} /\ codes' = codes /\ sets' = sets
            /\ spent' = [spent EXCEPT ![c] = OneMore(@)]
        BY <1>1, <2>1 DEF ConsumeTOTPBackupCode
      <3>2. c \in codes /\ c \in BackupCodes /\ c \notin used
        BY <2>1 DEF Unused, TypeInv, TypeOK
      <3>3. spent \in [BackupCodes -> 0..2]
        BY DEF TypeInv, TypeOK
      <3>4. spent[c] = 0
        BY <3>2, <3>3 DEF SpentAreUsed
      <3>5. spent'[c] = 1 /\ \A d \in BackupCodes \ {c} : spent'[d] = spent[d]
        BY <3>1, <3>2, <3>3, <3>4 DEF OneMore
      <3> HIDE DEF c
      <3> QED
        BY <3>1, <3>2, <3>5 DEF SpentAreUsed
    <2>2. CASE ~Unused(c)
      BY <1>1, <2>2 DEF ConsumeTOTPBackupCode, SpentAreUsed
    <2> QED
      BY <2>1, <2>2
  <1>2. ASSUME NEW r \in Requests, EnableTOTPWithBackupCodes(r) \/ ReplaceBackupCodes(r)
        PROVE  SpentAreUsed'
    BY <1>2, NewCodesAreUnspent DEF EnableTOTPWithBackupCodes, ReplaceBackupCodes
  <1>3. ASSUME NEW r \in Requests, DeleteTOTPAndBackupCodes(r)
        PROVE  SpentAreUsed'
    BY <1>3 DEF DeleteTOTPAndBackupCodes, SpentAreUsed
  <1>4. CASE UNCHANGED <<codes, used, sets, spent>>
    BY <1>4 DEF SpentAreUsed
  <1> QED
    BY <1>1, <1>2, <1>3, <1>4
       DEF Next, Tick, BeginTOTPSetup, UpsertPendingTOTP, ReadForCode, ReadForBackupCode,
           ClaimTOTPCounter, LoginSucceeds, Abort, vars

\* However many requests present it, a backup code is accepted once, across new sets
\* and new setups (ConsumeTOTPBackupCode).
THEOREM BackupCodesAreAcceptedOnce == Spec => []BackupCodeAcceptedOnce
  <1>1. Init => SpentAreUsed
    BY DEF Init, SpentAreUsed
  <1>2. SpentAreUsed => BackupCodeAcceptedOnce
    BY DEF SpentAreUsed, BackupCodeAcceptedOnce
  <1> QED
    BY InitTypeInv, NextTypeInv, NextSpent, <1>1, <1>2, PTL DEF Spec

-----------------------------------------------------------------------------
\* Every step replaces the codes as a whole and leaves none only with 2FA off.
LEMMA NextWhole == TypeInv /\ BackupCodesAreWhole /\ [Next]_vars => BackupCodesAreWhole'
  <1> SUFFICES ASSUME TypeInv, BackupCodesAreWhole, [Next]_vars PROVE BackupCodesAreWhole'
    OBVIOUS
  <1> USE DEF row, history
  <1>1. ASSUME NEW r \in Requests, UpsertPendingTOTP(r)
        PROVE  BackupCodesAreWhole'
    BY <1>1 DEF UpsertPendingTOTP, BackupCodesAreWhole
  <1>2. ASSUME NEW r \in Requests, EnableTOTPWithBackupCodes(r) \/ ReplaceBackupCodes(r)
        PROVE  BackupCodesAreWhole'
    <2>1. NewCodes
      BY <1>2 DEF EnableTOTPWithBackupCodes, ReplaceBackupCodes
    <2>2. sets' \in 1..MaxSets /\ codes' = [set : {sets'}, n : 1..CodesPerSet]
      BY <2>1, NewCodesType DEF TypeInv
    <2> QED
      BY <2>2 DEF BackupCodesAreWhole
  <1>3. ASSUME NEW r \in Requests, DeleteTOTPAndBackupCodes(r)
        PROVE  BackupCodesAreWhole'
    BY <1>3 DEF DeleteTOTPAndBackupCodes, BackupCodesAreWhole
  <1>4. CASE UNCHANGED <<codes, enabled>>
    BY <1>4 DEF BackupCodesAreWhole
  <1> QED
    BY <1>1, <1>2, <1>3, <1>4
       DEF Next, Tick, BeginTOTPSetup, ReadForCode, ReadForBackupCode, ClaimTOTPCounter,
           ConsumeTOTPBackupCode, LoginSucceeds, Abort, vars

\* The table holds one whole set of backup codes or none, and one while 2FA is on,
\* whatever requests replace the codes together.
THEOREM BackupCodesStayWhole == Spec => []BackupCodesAreWhole
  <1>1. Init => BackupCodesAreWhole
    BY DEF Init, BackupCodesAreWhole
  <1> QED
    BY InitTypeInv, NextTypeInv, NextWhole, <1>1, PTL DEF Spec

-----------------------------------------------------------------------------
(* 2FA stays on.  The upsert of a setup turns it off; the only setups in   *)
(* flight while it is on began before, and are marked late.                *)

SetupsAreLate ==
    /\ optedIn => enabled
    /\ \A r \in Requests : /\ optedIn /\ req[r].op = "begin" => req[r].late
                           /\ req[r].pc \in {"claim", "consume"} => req[r].op # "begin"

\* Every step keeps 2FA on, or has the leave of a code or of a late setup.
LEMMA NextSetupsAreLate == TypeInv /\ SetupsAreLate /\ [Next]_vars => SetupsAreLate'
  <1> SUFFICES ASSUME TypeInv, SetupsAreLate, [Next]_vars PROVE SetupsAreLate'
    OBVIOUS
  <1> USE DEF row, history
  <1>a. \A r \in Requests : req[r] \in Request
    BY DEF TypeInv, TypeOK
  <1>b. DOMAIN req = Requests
    BY DEF TypeInv, TypeOK
  <1>1. ASSUME NEW r \in Requests, BeginTOTPSetup(r)
        PROVE  SetupsAreLate'
    BY <1>1, <1>b DEF BeginTOTPSetup, Continue, TypeInv, TypeOK, SetupsAreLate
  <1>2. ASSUME NEW r \in Requests, UpsertPendingTOTP(r)
        PROVE  SetupsAreLate'
    BY <1>2, <1>b DEF UpsertPendingTOTP, End, Idle, SetupsAreLate
  <1>3. ASSUME NEW r \in Requests, NEW op \in Operations,
               \/ \E step \in Steps : ReadForCode(r, op, step)
               \/ \E c \in BackupCodes : ReadForBackupCode(r, op, c)
        PROVE  SetupsAreLate'
    <2>1. op # "begin"
      BY <1>3 DEF ReadForCode, ReadForBackupCode, Readable
    <2>2. req'[r].op # "begin" /\ \A q \in Requests \ {r} : req'[q] = req[q]
      BY <1>3, <1>b, <2>1 DEF ReadForCode, ReadForBackupCode, Continue
    <2>3. optedIn' = optedIn /\ enabled' = enabled
      BY <1>3 DEF ReadForCode, ReadForBackupCode
    <2> QED
      BY <2>2, <2>3 DEF SetupsAreLate
  <1>4. ASSUME NEW r \in Requests, ClaimTOTPCounter(r) \/ ConsumeTOTPBackupCode(r)
        PROVE  SetupsAreLate'
    <2>1. \A q \in Requests \ {r} : req'[q] = req[q]
      BY <1>4, <1>b DEF ClaimTOTPCounter, ConsumeTOTPBackupCode, Continue, End
    <2>2. \/ req'[r].op = "none"
          \/ req'[r].op = req[r].op /\ req[r].op # "begin"
      BY <1>4, <1>b DEF ClaimTOTPCounter, ConsumeTOTPBackupCode, Continue, End, Idle,
                        SetupsAreLate
    <2>3. optedIn' = optedIn /\ enabled' = enabled
      BY <1>4 DEF ClaimTOTPCounter, ConsumeTOTPBackupCode
    <2> QED
      BY <2>1, <2>2, <2>3 DEF SetupsAreLate
  <1>5. ASSUME NEW r \in Requests, EnableTOTPWithBackupCodes(r)
        PROVE  SetupsAreLate'
    <2>1. \A q \in Requests : /\ req'[q].op = "begin" => req'[q].late
                               /\ \/ req'[q].op = "none"
                                  \/ req'[q].op = req[q].op /\ req'[q].pc = req[q].pc
      BY <1>5, <1>a DEF EnableTOTPWithBackupCodes, Idle, Request
    <2> QED
      BY <1>5, <2>1 DEF EnableTOTPWithBackupCodes, SetupsAreLate
  <1>6. ASSUME NEW r \in Requests, DeleteTOTPAndBackupCodes(r)
        PROVE  SetupsAreLate'
    BY <1>6, <1>b DEF DeleteTOTPAndBackupCodes, End, Idle, SetupsAreLate
  <1>7. ASSUME NEW r \in Requests, ReplaceBackupCodes(r) \/ LoginSucceeds(r) \/ Abort(r)
        PROVE  SetupsAreLate'
    <2>1. End(r) /\ optedIn' = optedIn /\ enabled' = enabled
      BY <1>7 DEF ReplaceBackupCodes, LoginSucceeds, Abort
    <2> QED
      BY <2>1, <1>b DEF End, Idle, SetupsAreLate
  <1>8. CASE UNCHANGED <<enabled, optedIn, req>>
    BY <1>8 DEF SetupsAreLate
  <1> QED
    BY <1>1, <1>2, <1>3, <1>4, <1>5, <1>6, <1>7, <1>8 DEF Next, Tick, vars

\* 2FA stays on until a request with a code disables it, except for a setup that began
\* before it was on (BeginTOTPSetup checks and writes in two statements).
THEOREM TwoFactorStaysOn == Spec => []StaysOnUntilDisabled
  <1>1. Init => SetupsAreLate
    BY DEF Init, SetupsAreLate, Idle
  <1>2. SetupsAreLate => StaysOnUntilDisabled
    BY DEF SetupsAreLate, StaysOnUntilDisabled
  <1> QED
    BY InitTypeInv, NextTypeInv, NextSetupsAreLate, <1>1, <1>2, PTL DEF Spec

=============================================================================
