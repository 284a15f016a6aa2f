--------------------------- MODULE RateLimiterProof ---------------------------
(***************************************************************************)
(* Proofs about RateLimiter, for any clients, addresses and requests, any  *)
(* limits, windows and map size, and any delay shorter than the windows.   *)
(***************************************************************************)
EXTENDS RateLimiter, FiniteSetTheorems, TLAPS

-----------------------------------------------------------------------------
(* The invariants.                                                         *)

\* Types, with the map and the requests finite and the histories empty at span 0.
TypeInv ==
    /\ TypeOK
    /\ IsFiniteSet(DOMAIN entries) /\ IsFiniteSet(DOMAIN req)
    /\ \A b \in Bucket : log[b][0] = 0
    /\ \A ip \in IPs : passed[ip][0] = 0

\* A bucket's admissions against its entry.  Its window was opened by a reading up to
\* MaxDelay old: so it is open for at least Window - MaxDelay - left ticks, within which
\* every admission was counted, and for at most Window - left, within which every counted
\* request was admitted (until left stops at -MaxDelay).  A stretch of Window - MaxDelay
\* meets no third window.
WindowInv(b) ==
    LET W == Window[b.policy]
        M == MaxRequests[b.policy]
    IN
    IF b \notin DOMAIN entries
    THEN \A n \in Spans : n <= W - MaxDelay => log[b][n] <= M
    ELSE LET e == entries[b] IN
         /\ e.left <= W
         /\ \A n \in Spans : n <= W - MaxDelay - e.left => log[b][n] <= e.count
         /\ \A n \in Spans : n <= W - MaxDelay => log[b][n] <= M + e.count
         /\ e.left > -MaxDelay =>
               \A n \in Spans : n > W - e.left => log[b][n] >= e.count

\* Requests of a client between its ceiling and its narrow limit, read less than m
\* ticks ago.
Between(ip, m) ==
    {r \in DOMAIN req : /\ req[r].pc = "limit" /\ req[r].next = 2
                        /\ req[r].ip = ip /\ req[r].age < m}

Ceiling(ip) == [policy |-> "ip", ip |-> ip, email |-> NoEmail]

\* Those were admitted by the ceiling since their reading; and so were those the narrow
\* limits admitted, up to MaxDelay earlier.
CeilingInv(ip) ==
    /\ \A m \in 0..(MaxDelay + 1) : Cardinality(Between(ip, m)) <= log[Ceiling(ip)][m]
    /\ \A n \in 1..LongestWindow :
          passed[ip][n] + Cardinality(Between(ip, MaxDelay + 1))
             <= log[Ceiling(ip)][n + MaxDelay]

LimiterInv ==
    /\ TypeInv
    /\ \A b \in Bucket : WindowInv(b)
    /\ \A ip \in IPs : CeilingInv(ip)

-----------------------------------------------------------------------------
(* Constants and histories.                                                *)

\* The policies' numbers.
LEMMA ConstantFacts ==
    /\ MaxDelay \in Nat /\ LongestWindow \in Nat \ {0} /\ MaxDelay < LongestWindow
    /\ MaxEntries \in Nat \ {0} /\ CleanupEvery \in Nat \ {0}
    /\ \A p \in Policies : /\ MaxRequests[p] \in Nat \ {0} /\ Window[p] \in Nat \ {0}
                           /\ MaxDelay < Window[p] /\ Window[p] <= LongestWindow
  <1>1. /\ Window["ip"] \in Nat \ {0} /\ Window["ip_email"] \in Nat \ {0}
        /\ MaxDelay \in Nat /\ MaxDelay < Window["ip"] /\ MaxDelay < Window["ip_email"]
    BY LimiterAssumption DEF Policies
  <1>2. {Window[p] : p \in Policies} = {Window["ip"], Window["ip_email"]}
    BY DEF Policies
  <1>3. \E x \in {Window["ip"], Window["ip_email"]} :
           \A y \in {Window["ip"], Window["ip_email"]} : x >= y
    BY <1>1
  <1>4. /\ LongestWindow \in {Window["ip"], Window["ip_email"]}
        /\ LongestWindow >= Window["ip"] /\ LongestWindow >= Window["ip_email"]
    BY <1>2, <1>3 DEF LongestWindow, Max
  <1> QED
    BY <1>1, <1>4, LimiterAssumption DEF Policies

\* Time left, a tick later.
LEMMA ClampFacts ==
    ASSUME NEW x \in Int
    PROVE  Max({x - 1, -MaxDelay}) = IF x - 1 >= -MaxDelay THEN x - 1 ELSE -MaxDelay
  <1>1. MaxDelay \in Nat
    BY ConstantFacts
  <1>2. \E y \in {x - 1, -MaxDelay} : \A z \in {x - 1, -MaxDelay} : y >= z
    BY <1>1
  <1>3. /\ Max({x - 1, -MaxDelay}) \in {x - 1, -MaxDelay}
        /\ Max({x - 1, -MaxDelay}) >= x - 1 /\ Max({x - 1, -MaxDelay}) >= -MaxDelay
    BY <1>2 DEF Max
  <1> QED
    BY <1>1, <1>3

\* The histories.
LEMMA HistoryFacts ==
    ASSUME NEW h \in [Spans -> Nat]
    PROVE  /\ Older(h) \in [Spans -> Nat] /\ OneMore(h) \in [Spans -> Nat]
           /\ 0 \in Spans /\ Older(h)[0] = 0 /\ OneMore(h)[0] = 0
           /\ \A n \in Spans \ {0} : /\ n - 1 \in Spans /\ n >= 1
                                     /\ Older(h)[n] = h[n - 1]
                                     /\ OneMore(h)[n] = h[n] + 1
  <1>1. LongestWindow + MaxDelay \in Nat
    BY ConstantFacts
  <1>2. \A n \in Spans \ {0} : n - 1 \in Spans /\ n >= 1
    BY <1>1 DEF Spans
  <1>3. 0 \in Spans /\ Spans \subseteq Nat
    BY <1>1 DEF Spans
  <1> QED
    BY <1>2, <1>3 DEF Older, OneMore

\* A bucket is of a policy.
LEMMA BucketFacts ==
    /\ \A b \in Bucket : b.policy \in Policies /\ b.ip \in IPs
    /\ \A ip \in IPs : Ceiling(ip) \in Bucket /\ Ceiling(ip).policy = "ip" /\ Ceiling(ip).ip = ip
    /\ \A b \in Bucket : b.policy = "ip" => b = Ceiling(b.ip)
  <1>1. \A b \in Bucket : b.policy \in Policies /\ b.ip \in IPs
    BY DEF Bucket, Policies
  <1>2. \A ip \in IPs : Ceiling(ip) \in Bucket /\ Ceiling(ip).policy = "ip" /\ Ceiling(ip).ip = ip
    BY DEF Bucket, Ceiling
  <1>3. \A b \in Bucket : b.policy = "ip" => b = Ceiling(b.ip)
    BY DEF Bucket, Ceiling
  <1> QED
    BY <1>1, <1>2, <1>3

-----------------------------------------------------------------------------
(* Allow.                                                                  *)

\* What the cleanup leaves: a part of the map, without entries that are over.
LEMMA CleanupFacts ==
    ASSUME TypeInv, NEW age
    PROVE  LET map == AfterCleanup(age) IN
           /\ DOMAIN map \subseteq DOMAIN entries
           /\ \A b \in DOMAIN map : map[b] = entries[b]
           /\ \A b \in DOMAIN entries \ DOMAIN map : Expired(entries[b], age)
           /\ IsFiniteSet(DOMAIN map) /\ Cardinality(DOMAIN map) <= MaxEntries
           /\ Cardinality(DOMAIN map) \in Nat
  <1> DEFINE map == AfterCleanup(age)
  <1>1. /\ DOMAIN map \subseteq DOMAIN entries
        /\ \A b \in DOMAIN map : map[b] = entries[b]
        /\ \A b \in DOMAIN entries \ DOMAIN map : Expired(entries[b], age)
    BY DEF AfterCleanup
  <1> HIDE DEF map
  <1>2. IsFiniteSet(DOMAIN entries) /\ Cardinality(DOMAIN entries) <= MaxEntries
    BY DEF TypeInv, TypeOK
  <1>3. IsFiniteSet(DOMAIN map) /\ Cardinality(DOMAIN map) <= Cardinality(DOMAIN entries)
    BY <1>1, <1>2, FS_Subset
  <1>4. Cardinality(DOMAIN map) \in Nat /\ Cardinality(DOMAIN entries) \in Nat
    BY <1>2, <1>3, FS_CardinalityType
  <1>5. Cardinality(DOMAIN map) <= MaxEntries
    BY <1>2, <1>3, <1>4, ConstantFacts
  <1> QED
    BY <1>1, <1>3, <1>4, <1>5 DEF map

\* The bucket of a request at its limit.
LEMMA KeyFacts ==
    ASSUME TypeInv, NEW r \in DOMAIN req
    PROVE  /\ Key(r) \in Bucket
           /\ Key(r).ip = req[r].ip
           /\ req[r].next = 1 => Key(r).policy = "ip"
           /\ req[r].next = 2 => Key(r).policy = "ip_email"
           /\ req[r].next \in {1, 2} /\ Len(Specs) = 2
           /\ req[r] \in Request /\ req[r].age \in 0..MaxDelay /\ req[r].ip \in IPs
  <1>1. req[r] \in Request
    BY DEF TypeInv, TypeOK
  <1>2. Len(Specs) = 2 /\ DOMAIN Specs = {1, 2} /\ Specs[1] = "ip" /\ Specs[2] = "ip_email"
    BY DEF Specs
  <1>3. /\ req[r].next \in {1, 2} /\ req[r].ip \in IPs /\ req[r].age \in 0..MaxDelay
        /\ req[r].email \in Emails \cup {NoEmail}
    BY <1>1, <1>2 DEF Request
  <1> QED
    BY <1>1, <1>2, <1>3 DEF Key, Bucket

\* A call of Allow, by its outcome: e is what the admitted request leaves of the entry.
Left(b, map, age) ==
    IF b \in DOMAIN map /\ ~Expired(map[b], age) THEN Counted(map[b]) ELSE Opened(b, age)

\* An admission.
LEMMA AdmitFacts ==
    ASSUME TypeInv, NEW r \in Requests, Allow(r),
           Admits(AfterCleanup(req[r].age), Key(r), req[r].age)
    PROVE  LET b == Key(r)
               map == AfterCleanup(req[r].age)
           IN
           /\ r \in DOMAIN req /\ req[r].pc = "limit"
           /\ DOMAIN entries' = DOMAIN map \cup {b}
           /\ entries'[b] = Left(b, map, req[r].age)
           /\ \A c \in DOMAIN map \ {b} : entries'[c] = entries[c]
           /\ IsFiniteSet(DOMAIN entries') /\ Cardinality(DOMAIN entries') <= MaxEntries
           /\ log' = [log EXCEPT ![b] = OneMore(@)]
           /\ passed' = IF b.policy = "ip" THEN passed
                        ELSE [passed EXCEPT ![b.ip] = OneMore(@)]
           /\ DOMAIN req' = DOMAIN req
           /\ \A s \in DOMAIN req \ {r} : req'[s] = req[s]
           /\ req'[r] = IF req[r].next = 1 THEN [req[r] EXCEPT !.next = 2]
                        ELSE [req[r] EXCEPT !.pc = "served"]
           /\ calls' = (calls + 1) % CleanupEvery
  <1>1. PICK b, map, age : b = Key(r) /\ age = req[r].age /\ map = AfterCleanup(age)
    OBVIOUS
  <1>2. r \in DOMAIN req /\ req[r].pc = "limit"
    BY DEF Allow
  <1>3. /\ entries' = Store(map, b, Left(b, map, age))
        /\ log' = [log EXCEPT ![b] = OneMore(@)]
        /\ passed' = IF b.policy = "ip" THEN passed
                     ELSE [passed EXCEPT ![b.ip] = OneMore(@)]
        /\ req' = [req EXCEPT ![r] =
                     IF req[r].next < Len(Specs) THEN [req[r] EXCEPT !.next = @ + 1]
                     ELSE [req[r] EXCEPT !.pc = "served"]]
        /\ calls' = (calls + 1) % CleanupEvery
    BY <1>1 DEF Allow, Left
  <1>4. /\ \A c \in DOMAIN map : map[c] = entries[c]
        /\ IsFiniteSet(DOMAIN map) /\ Cardinality(DOMAIN map) <= MaxEntries
        /\ Cardinality(DOMAIN map) \in Nat
    BY <1>1, CleanupFacts
  <1>5. /\ DOMAIN entries' = DOMAIN map \cup {b}
        /\ entries'[b] = Left(b, map, age)
        /\ \A c \in DOMAIN map \ {b} : entries'[c] = entries[c]
    BY <1>3, <1>4 DEF Store
  <1>6. /\ IsFiniteSet(DOMAIN map \cup {b})
        /\ Cardinality(DOMAIN map \cup {b}) =
              IF b \in DOMAIN map THEN Cardinality(DOMAIN map) ELSE Cardinality(DOMAIN map) + 1
    BY <1>4, FS_AddElement
  <1>7. b \notin DOMAIN map => Cardinality(DOMAIN map) < MaxEntries
    BY <1>1 DEF Admits
  <1>8. IsFiniteSet(DOMAIN entries') /\ Cardinality(DOMAIN entries') <= MaxEntries
    BY <1>4, <1>5, <1>6, <1>7, ConstantFacts
  <1>9. req[r].next \in {1, 2} /\ Len(Specs) = 2
    BY <1>2, KeyFacts
  <1>10. /\ DOMAIN req' = DOMAIN req
         /\ \A s \in DOMAIN req \ {r} : req'[s] = req[s]
         /\ req'[r] = IF req[r].next < Len(Specs) THEN [req[r] EXCEPT !.next = @ + 1]
                      ELSE [req[r] EXCEPT !.pc = "served"]
    BY <1>2, <1>3
  <1>11. req'[r] = IF req[r].next = 1 THEN [req[r] EXCEPT !.next = 2]
                   ELSE [req[r] EXCEPT !.pc = "served"]
    BY <1>9, <1>10
  <1> QED
    BY <1>1, <1>2, <1>3, <1>5, <1>8, <1>10, <1>11

\* A refusal.
LEMMA RefuseFacts ==
    ASSUME TypeInv, NEW r \in Requests, Allow(r),
           ~Admits(AfterCleanup(req[r].age), Key(r), req[r].age)
    PROVE  /\ r \in DOMAIN req /\ req[r].pc = "limit"
           /\ entries' = AfterCleanup(req[r].age)
           /\ log' = log /\ passed' = passed
           /\ DOMAIN req' = DOMAIN req
           /\ \A s \in DOMAIN req \ {r} : req'[s] = req[s]
           /\ req'[r] = [req[r] EXCEPT !.pc = "refused"]
           /\ calls' = (calls + 1) % CleanupEvery
  BY DEF Allow

\* The entry an admitted request leaves.
LEMMA LeftFacts ==
    ASSUME TypeInv, NEW r \in Requests, Allow(r),
           Admits(AfterCleanup(req[r].age), Key(r), req[r].age)
    PROVE  LET b == Key(r)
               age == req[r].age
               e == entries'[b]
               M == MaxRequests[b.policy]
           IN
           /\ e \in Entry /\ e.count \in 1..M
           /\ \/ /\ b \in DOMAIN entries /\ ~Expired(entries[b], age)
                 /\ e.count = entries[b].count + 1 /\ e.left = entries[b].left
              \/ /\ b \in DOMAIN entries => Expired(entries[b], age)
                 /\ e.count = 1 /\ e.left = Window[b.policy] - age
  <1>1. PICK b, map, age : b = Key(r) /\ age = req[r].age /\ map = AfterCleanup(age)
    OBVIOUS
  <1>2. r \in DOMAIN req /\ entries'[b] = Left(b, map, age)
    BY <1>1, AdmitFacts
  <1>3. /\ b \in Bucket /\ b.policy \in Policies /\ age \in 0..MaxDelay
    BY <1>1, <1>2, KeyFacts, BucketFacts
  <1>4. /\ DOMAIN map \subseteq DOMAIN entries
        /\ \A c \in DOMAIN map : map[c] = entries[c]
        /\ \A c \in DOMAIN entries \ DOMAIN map : Expired(entries[c], age)
    BY <1>1, CleanupFacts
  <1>5. /\ MaxRequests[b.policy] \in Nat \ {0} /\ Window[b.policy] \in Nat \ {0}
        /\ MaxDelay < Window[b.policy] /\ Window[b.policy] <= LongestWindow
        /\ MaxDelay \in Nat /\ LongestWindow \in Nat
    BY <1>3, ConstantFacts
  <1>6. CASE b \in DOMAIN map /\ ~Expired(map[b], age)
    <2>1. entries[b] \in Entry /\ entries[b].count \in 1..MaxRequests[b.policy]
      BY <1>4, <1>6 DEF TypeInv, TypeOK
    <2>2. entries[b].count < MaxRequests[b.policy]
      BY <1>1, <1>4, <1>6 DEF Admits
    <2>3. entries'[b] = [count |-> entries[b].count + 1, left |-> entries[b].left]
      BY <1>2, <1>4, <1>6 DEF Left, Counted
    <2>4. b \in DOMAIN entries /\ ~Expired(entries[b], age)
      BY <1>4, <1>6
    <2>5. entries[b].count + 1 \in 1..MaxRequests[b.policy] /\ entries[b].count + 1 \in Nat
      BY <1>5, <2>1, <2>2
    <2>6. entries'[b] \in Entry
      BY <2>1, <2>3, <2>5 DEF Entry
    <2> QED
      BY <1>1, <2>3, <2>4, <2>5, <2>6
  <1>7. CASE ~(b \in DOMAIN map /\ ~Expired(map[b], age))
    <2>1. entries'[b] = [count |-> 1, left |-> Window[b.policy] - age]
      BY <1>2, <1>7 DEF Left, Opened
    <2>2. b \in DOMAIN entries => Expired(entries[b], age)
      BY <1>4, <1>7
    <2>3. 1 \in 1..MaxRequests[b.policy] /\ Window[b.policy] - age \in -MaxDelay..LongestWindow
      BY <1>3, <1>5
    <2>4. entries'[b] \in Entry
      BY <2>1, <2>3 DEF Entry
    <2> QED
      BY <1>1, <2>1, <2>2, <2>3, <2>4
  <1> QED
    BY <1>6, <1>7

-----------------------------------------------------------------------------
(* Types.                                                                  *)

\* A tick.
LEMMA TickFacts ==
    ASSUME TypeInv, Tick
    PROVE  /\ DOMAIN entries' = DOMAIN entries
           /\ \A b \in DOMAIN entries :
                 /\ entries'[b] \in Entry /\ entries'[b].count = entries[b].count
                 /\ entries[b].left \in Int
                 /\ entries'[b].left = IF entries[b].left - 1 >= -MaxDelay
                                       THEN entries[b].left - 1 ELSE -MaxDelay
           /\ DOMAIN req' = DOMAIN req
           /\ \A r \in DOMAIN req :
                 /\ req'[r] \in Request
                 /\ req'[r].pc = req[r].pc /\ req'[r].next = req[r].next
                 /\ req'[r].ip = req[r].ip
                 /\ req[r].pc = "limit" => /\ req[r].age \in 0..(MaxDelay - 1)
                                           /\ req'[r].age = req[r].age + 1
           /\ log' = [b \in Bucket |-> Older(log[b])]
           /\ passed' = [ip \in IPs |-> Older(passed[ip])]
           /\ calls' = calls
  <1>1. MaxDelay \in Nat /\ LongestWindow \in Nat
    BY ConstantFacts
  <1>2. DOMAIN entries' = DOMAIN entries /\ DOMAIN req' = DOMAIN req
    BY DEF Tick
  <1>3. ASSUME NEW b \in DOMAIN entries
        PROVE  /\ entries'[b] \in Entry /\ entries'[b].count = entries[b].count
               /\ entries[b].left \in Int
               /\ entries'[b].left = IF entries[b].left - 1 >= -MaxDelay
                                     THEN entries[b].left - 1 ELSE -MaxDelay
    <2>1. entries[b] \in Entry
      BY DEF TypeInv, TypeOK
    <2>2. /\ entries[b].left \in -MaxDelay..LongestWindow /\ entries[b].count \in Nat
          /\ entries[b].left \in Int
      BY <1>1, <2>1 DEF Entry
    <2> DEFINE l == Max({entries[b].left - 1, -MaxDelay})
    <2>3. entries'[b] = [count |-> entries[b].count, left |-> l]
      BY DEF Tick
    <2>4. l = IF entries[b].left - 1 >= -MaxDelay THEN entries[b].left - 1 ELSE -MaxDelay
      BY <2>2, ClampFacts
    <2> HIDE DEF l
    <2>5. l \in -MaxDelay..LongestWindow
      BY <1>1, <2>2, <2>4
    <2> QED
      BY <2>2, <2>3, <2>4, <2>5 DEF Entry
  <1>4. ASSUME NEW r \in DOMAIN req
        PROVE  /\ req'[r] \in Request
               /\ req'[r].pc = req[r].pc /\ req'[r].next = req[r].next
               /\ req'[r].ip = req[r].ip
               /\ req[r].pc = "limit" => /\ req[r].age \in 0..(MaxDelay - 1)
                                         /\ req'[r].age = req[r].age + 1
    <2>1. req[r] \in Request /\ req[r].age \in 0..MaxDelay
      BY KeyFacts
    <2>2. req[r].pc = "limit" => req[r].age < MaxDelay
      BY DEF Tick
    <2>3. req'[r] = IF req[r].pc = "limit" THEN [req[r] EXCEPT !.age = @ + 1] ELSE req[r]
      BY DEF Tick
    <2>4. req[r].pc = "limit" => req[r].age + 1 \in 0..MaxDelay /\ req[r].age \in 0..(MaxDelay - 1)
      BY <1>1, <2>1, <2>2
    <2> QED
      BY <2>1, <2>3, <2>4 DEF Request
  <1> QED
    BY <1>2, <1>3, <1>4 DEF Tick

\* Every step keeps the types: the map never passes its limit, and no count its policy's.
LEMMA NextTypeInv ==
    ASSUME TypeInv, [Next]_vars
    PROVE  TypeInv'
  <1>a. /\ DOMAIN entries \subseteq Bucket /\ Cardinality(DOMAIN entries) <= MaxEntries
        /\ \A b \in DOMAIN entries :
              entries[b] \in Entry /\ entries[b].count \in 1..MaxRequests[b.policy]
        /\ calls \in 0..(CleanupEvery - 1)
        /\ DOMAIN req \subseteq Requests /\ \A r \in DOMAIN req : req[r] \in Request
        /\ log \in [Bucket -> [Spans -> Nat]]
        /\ passed \in [IPs -> [Spans -> Nat]]
        /\ IsFiniteSet(DOMAIN entries) /\ IsFiniteSet(DOMAIN req)
        /\ \A b \in Bucket : log[b][0] = 0
        /\ \A ip \in IPs : passed[ip][0] = 0
    BY DEF TypeInv, TypeOK
  <1>b. MaxEntries \in Nat \ {0} /\ CleanupEvery \in Nat \ {0}
    BY ConstantFacts
  <1>1. CASE Tick
    <2>1. \A b \in DOMAIN entries' :
             entries'[b] \in Entry /\ entries'[b].count \in 1..MaxRequests[b.policy]
      BY <1>a, <1>1, TickFacts
    <2>2. log' \in [Bucket -> [Spans -> Nat]] /\ \A b \in Bucket : log'[b][0] = 0
      BY <1>a, <1>1, TickFacts, HistoryFacts
    <2>3. passed' \in [IPs -> [Spans -> Nat]] /\ \A ip \in IPs : passed'[ip][0] = 0
      BY <1>a, <1>1, TickFacts, HistoryFacts
    <2> QED
      BY <1>a, <1>1, <2>1, <2>2, <2>3, TickFacts DEF TypeInv, TypeOK
  <1>2. ASSUME NEW r \in Requests, NEW ip \in IPs, NEW email \in Emails \cup {NoEmail},
               Arrive(r, ip, email)
        PROVE  TypeInv'
    <2>1. /\ DOMAIN req' = DOMAIN req \cup {r} /\ UNCHANGED <<entries, calls, log, passed>>
          /\ \A s \in DOMAIN req' : req'[s] = IF s = r THEN
                 [pc |-> "limit", next |-> 1, ip |-> ip, email |-> email, age |-> 0]
                 ELSE req[s]
      BY <1>2 DEF Arrive
    <2>2. IsFiniteSet(DOMAIN req')
      <3>1. IsFiniteSet(DOMAIN req \cup {r})
        BY <1>a, FS_AddElement
      <3> QED
        BY <2>1, <3>1
    <2>3. [pc |-> "limit", next |-> 1, ip |-> ip, email |-> email, age |-> 0] \in Request
      <3>1. 0 \in 0..MaxDelay /\ 1 \in DOMAIN Specs
        BY ConstantFacts DEF Specs
      <3> QED
        BY <3>1 DEF Request
    <2>4. \A s \in DOMAIN req' : req'[s] \in Request
      BY <1>a, <2>1, <2>3
    <2> QED
      BY <1>a, <2>1, <2>2, <2>4 DEF TypeInv, TypeOK
  <1>3. ASSUME NEW r \in Requests, Allow(r) PROVE TypeInv'
    <2>1. calls + 1 \in Nat /\ (calls + 1) % CleanupEvery \in 0..(CleanupEvery - 1)
      BY <1>a, <1>b
    <2>2. r \in DOMAIN req
      BY <1>3 DEF Allow
    <2>3. req[r] \in Request /\ Key(r) \in Bucket /\ Key(r).ip \in IPs /\ req[r].next \in {1, 2}
      BY <2>2, KeyFacts, BucketFacts
    <2>4. CASE Admits(AfterCleanup(req[r].age), Key(r), req[r].age)
      <3>1. PICK b, map : b = Key(r) /\ map = AfterCleanup(req[r].age)
        OBVIOUS
      <3>2. /\ DOMAIN entries' = DOMAIN map \cup {b}
            /\ \A c \in DOMAIN map \ {b} : entries'[c] = entries[c]
            /\ IsFiniteSet(DOMAIN entries') /\ Cardinality(DOMAIN entries') <= MaxEntries
            /\ log' = [log EXCEPT ![b] = OneMore(@)]
            /\ passed' = IF b.policy = "ip" THEN passed
                         ELSE [passed EXCEPT ![b.ip] = OneMore(@)]
            /\ DOMAIN req' = DOMAIN req
            /\ \A s \in DOMAIN req \ {r} : req'[s] = req[s]
            /\ req'[r] = IF req[r].next = 1 THEN [req[r] EXCEPT !.next = 2]
                         ELSE [req[r] EXCEPT !.pc = "served"]
            /\ calls' = (calls + 1) % CleanupEvery
        BY <1>3, <2>4, <3>1, AdmitFacts
      <3>3. entries'[b] \in Entry /\ entries'[b].count \in 1..MaxRequests[b.policy]
        BY <1>3, <2>4, <3>1, LeftFacts
      <3>4. DOMAIN map \subseteq DOMAIN entries
        BY <3>1, CleanupFacts
      <3>5. /\ DOMAIN entries' \subseteq Bucket
            /\ \A c \in DOMAIN entries' :
                  entries'[c] \in Entry /\ entries'[c].count \in 1..MaxRequests[c.policy]
        BY <1>a, <2>3, <3>1, <3>2, <3>3, <3>4
      <3>6. req'[r] \in Request
        <4>1. 2 \in DOMAIN Specs
          BY DEF Specs
        <4> QED
          BY <2>3, <3>2, <4>1 DEF Request
      <3>7. \A s \in DOMAIN req' : req'[s] \in Request
        BY <1>a, <3>2, <3>6
      <3>8. log' \in [Bucket -> [Spans -> Nat]] /\ \A c \in Bucket : log'[c][0] = 0
        BY <1>a, <2>3, <3>1, <3>2, HistoryFacts
      <3>9. passed' \in [IPs -> [Spans -> Nat]] /\ \A ip \in IPs : passed'[ip][0] = 0
        BY <1>a, <2>3, <3>1, <3>2, HistoryFacts
      <3> QED
        BY <1>a, <2>1, <3>2, <3>5, <3>7, <3>8, <3>9 DEF TypeInv, TypeOK
    <2>5. CASE ~Admits(AfterCleanup(req[r].age), Key(r), req[r].age)
      <3>1. /\ log' = log /\ passed' = passed
            /\ DOMAIN req' = DOMAIN req
            /\ \A s \in DOMAIN req \ {r} : req'[s] = req[s]
            /\ req'[r] = [req[r] EXCEPT !.pc = "refused"]
            /\ calls' = (calls + 1) % CleanupEvery
        BY <1>3, <2>5, RefuseFacts
      <3>2. /\ DOMAIN entries' \subseteq DOMAIN entries
            /\ \A b \in DOMAIN entries' : entries'[b] = entries[b]
            /\ IsFiniteSet(DOMAIN entries') /\ Cardinality(DOMAIN entries') <= MaxEntries
        <4>1. PICK map : map = AfterCleanup(req[r].age)
          OBVIOUS
        <4>2. entries' = map
          BY <1>3, <2>5, <4>1, RefuseFacts
        <4>3. /\ DOMAIN map \subseteq DOMAIN entries
              /\ \A b \in DOMAIN map : map[b] = entries[b]
              /\ IsFiniteSet(DOMAIN map) /\ Cardinality(DOMAIN map) <= MaxEntries
          BY <4>1, CleanupFacts
        <4> QED
          BY <4>2, <4>3
      <3>3. \A s \in DOMAIN req' : req'[s] \in Request
        BY <1>a, <2>3, <3>1 DEF Request
      <3> QED
        BY <1>a, <2>1, <3>1, <3>2, <3>3 DEF TypeInv, TypeOK
    <2> QED
      BY <2>4, <2>5
  <1>4. ASSUME NEW r \in Requests, Respond(r) PROVE TypeInv'
    <2>1. /\ DOMAIN req' = DOMAIN req \ {r} /\ UNCHANGED <<entries, calls, log, passed>>
          /\ \A s \in DOMAIN req' : req'[s] = req[s]
      BY <1>4 DEF Respond
    <2>2. IsFiniteSet(DOMAIN req')
      BY <1>a, <2>1, FS_RemoveElement
    <2> QED
      BY <1>a, <2>1, <2>2 DEF TypeInv, TypeOK
  <1>5. CASE UNCHANGED vars
    BY <1>a, <1>5 DEF TypeInv, TypeOK, vars
  <1> QED
    BY <1>1, <1>2, <1>3, <1>4, <1>5 DEF Next

-----------------------------------------------------------------------------
(* Windows.                                                                *)

\* The numbers of a bucket.
LEMMA BucketNumbers ==
    ASSUME TypeInv, NEW b \in Bucket
    PROVE  /\ Window[b.policy] \in Nat \ {0} /\ MaxRequests[b.policy] \in Nat \ {0}
           /\ MaxDelay \in Nat /\ MaxDelay < Window[b.policy]
           /\ LongestWindow \in Nat /\ Window[b.policy] <= LongestWindow
           /\ Spans \subseteq Nat /\ 0 \in Spans
           /\ log[b] \in [Spans -> Nat] /\ log[b][0] = 0
           /\ b \in DOMAIN entries =>
                 /\ entries[b].left \in Int /\ entries[b].count \in Nat
                 /\ entries[b].count >= 1 /\ entries[b].count <= MaxRequests[b.policy]
                 /\ entries[b].left >= -MaxDelay
  <1>1. /\ Window[b.policy] \in Nat \ {0} /\ MaxRequests[b.policy] \in Nat \ {0}
        /\ MaxDelay \in Nat /\ MaxDelay < Window[b.policy]
        /\ LongestWindow \in Nat /\ Window[b.policy] <= LongestWindow
    BY BucketFacts, ConstantFacts
  <1>2. log[b] \in [Spans -> Nat] /\ log[b][0] = 0
    BY DEF TypeInv, TypeOK
  <1>3. Spans \subseteq Nat /\ 0 \in Spans
    BY <1>1 DEF Spans
  <1>4. ASSUME b \in DOMAIN entries
        PROVE  /\ entries[b].left \in Int /\ entries[b].count \in Nat
               /\ entries[b].count >= 1 /\ entries[b].count <= MaxRequests[b.policy]
               /\ entries[b].left >= -MaxDelay
    <2>1. entries[b] \in Entry /\ entries[b].count \in 1..MaxRequests[b.policy]
      BY <1>4 DEF TypeInv, TypeOK
    <2>2. entries[b].left \in -MaxDelay..LongestWindow
      BY <2>1 DEF Entry
    <2> QED
      BY <1>1, <2>1, <2>2
  <1> QED
    BY <1>1, <1>2, <1>3, <1>4

\* A bucket without an entry, or whose window is over for a reading, has admitted at
\* most one window's worth.
LEMMA WindowOver ==
    ASSUME TypeInv, NEW b \in Bucket, WindowInv(b), NEW age \in Nat,
           b \in DOMAIN entries => Expired(entries[b], age)
    PROVE  \A n \in Spans : n <= Window[b.policy] - MaxDelay => log[b][n] <= MaxRequests[b.policy]
  <1>1. CASE b \notin DOMAIN entries
    BY <1>1 DEF WindowInv
  <1>2. CASE b \in DOMAIN entries
    <2>1. entries[b].left + age <= 0
      BY <1>2 DEF Expired
    <2>2. SUFFICES ASSUME NEW n \in Spans, n <= Window[b.policy] - MaxDelay
                   PROVE  log[b][n] <= MaxRequests[b.policy]
      OBVIOUS
    <2>3. n \in Nat /\ log[b][n] \in Nat
      BY BucketNumbers
    <2>4. n <= Window[b.policy] - MaxDelay - entries[b].left
      BY <1>2, <2>1, <2>2, <2>3, BucketNumbers
    <2>5. log[b][n] <= entries[b].count
      BY <1>2, <2>4 DEF WindowInv
    <2> QED
      BY <1>2, <2>3, <2>5, BucketNumbers
  <1> QED
    BY <1>1, <1>2

\* A bucket that is not called keeps its entry or loses it when its window is over.
LEMMA WindowKept ==
    ASSUME TypeInv, NEW b \in Bucket, WindowInv(b), log'[b] = log[b], NEW age \in Nat,
           \/ b \in DOMAIN entries /\ b \in DOMAIN entries' /\ entries'[b] = entries[b]
           \/ b \notin DOMAIN entries' /\ (b \in DOMAIN entries => Expired(entries[b], age))
    PROVE  WindowInv(b)'
  <1>1. CASE b \in DOMAIN entries /\ b \in DOMAIN entries' /\ entries'[b] = entries[b]
    BY <1>1 DEF WindowInv
  <1>2. CASE b \notin DOMAIN entries' /\ (b \in DOMAIN entries => Expired(entries[b], age))
    BY <1>2, WindowOver DEF WindowInv
  <1> QED
    BY <1>1, <1>2

\* Time passes for a bucket.
LEMMA WindowTick ==
    ASSUME TypeInv, NEW b \in Bucket, WindowInv(b), Tick
    PROVE  WindowInv(b)'
  <1> DEFINE W == Window[b.policy]
             M == MaxRequests[b.policy]
             h == log[b]
             h1 == log'[b]
             e == entries[b]
             e1 == entries'[b]
  <1>1. /\ W \in Nat \ {0} /\ M \in Nat \ {0} /\ MaxDelay \in Nat /\ MaxDelay < W
        /\ h \in [Spans -> Nat] /\ Spans \subseteq Nat
    BY BucketNumbers
  <1>2. /\ h1[0] = 0
        /\ \A n \in Spans \ {0} : n - 1 \in Spans /\ h1[n] = h[n - 1] /\ h[n - 1] \in Nat
    <2>1. h1 = Older(h)
      BY TickFacts
    <2> QED
      BY <1>1, <2>1, HistoryFacts
  <1> HIDE DEF W, M, h, h1
  <1>3. CASE b \notin DOMAIN entries
    <2>1. \A n \in Spans : n <= W - MaxDelay => h[n] <= M
      BY <1>3 DEF WindowInv, W, M, h
    <2>2. \A n \in Spans : n <= W - MaxDelay => h1[n] <= M
      BY <1>1, <1>2, <2>1
    <2>3. b \notin DOMAIN entries'
      BY <1>3, TickFacts
    <2> QED
      BY <2>2, <2>3 DEF WindowInv, W, M, h1
  <1>4. CASE b \in DOMAIN entries
    <2>1. /\ b \in DOMAIN entries' /\ e1.count = e.count /\ e.left \in Int
          /\ e1.left = IF e.left - 1 >= -MaxDelay THEN e.left - 1 ELSE -MaxDelay
          /\ e.count \in Nat /\ e.count >= 1 /\ e.left >= -MaxDelay
      BY <1>4, TickFacts, BucketNumbers
    <2>2. /\ e.left <= W
          /\ \A n \in Spans : n <= W - MaxDelay - e.left => h[n] <= e.count
          /\ \A n \in Spans : n <= W - MaxDelay => h[n] <= M + e.count
          /\ e.left > -MaxDelay =>
                \A n \in Spans : n > W - e.left => h[n] >= e.count
      BY <1>4 DEF WindowInv, W, M, h
    <2> HIDE DEF e, e1
    <2>3. \A n \in Spans : n <= W - MaxDelay - e1.left => h1[n] <= e.count
      BY <1>1, <1>2, <2>1, <2>2
    <2>4. \A n \in Spans : n <= W - MaxDelay => h1[n] <= M + e.count
      BY <1>1, <1>2, <2>1, <2>2
    <2>5. e1.left > -MaxDelay => \A n \in Spans : n > W - e1.left => h1[n] >= e.count
      <3>1. HAVE e1.left > -MaxDelay
      <3>2. e1.left = e.left - 1 /\ e.left > -MaxDelay
        BY <1>1, <2>1, <3>1
      <3>3. SUFFICES ASSUME NEW n \in Spans, n > W - e1.left PROVE h1[n] >= e.count
        OBVIOUS
      <3>4. CASE n = 0
        BY <1>1, <1>2, <2>1, <2>2, <3>2, <3>3, <3>4
      <3>5. CASE n # 0
        BY <1>1, <1>2, <2>1, <2>2, <3>2, <3>3, <3>5
      <3> QED
        BY <3>4, <3>5
    <2>6. e1.left <= W
      BY <1>1, <2>1, <2>2
    <2> QED
      BY <2>1, <2>3, <2>4, <2>5, <2>6 DEF WindowInv, W, M, h1, e1
  <1> QED
    BY <1>3, <1>4

\* An admission is counted in the window it opens or finds open.
LEMMA WindowAdmit ==
    ASSUME TypeInv, NEW r \in Requests, Allow(r),
           Admits(AfterCleanup(req[r].age), Key(r), req[r].age),
           NEW b, b = Key(r), WindowInv(b)
    PROVE  WindowInv(b)'
  <1>0. PICK age : b = Key(r) /\ age = req[r].age
    OBVIOUS
  <1>a. r \in DOMAIN req
    BY DEF Allow
  <1>b. b \in Bucket /\ age \in 0..MaxDelay
    BY <1>0, <1>a, KeyFacts
  <1> DEFINE W == Window[b.policy]
             M == MaxRequests[b.policy]
             h == log[b]
             h1 == log'[b]
             e == entries[b]
             e1 == entries'[b]
  <1>1. /\ W \in Nat \ {0} /\ M \in Nat \ {0} /\ MaxDelay \in Nat /\ MaxDelay < W
        /\ h \in [Spans -> Nat] /\ Spans \subseteq Nat /\ h[0] = 0 /\ age \in Nat
        /\ age <= MaxDelay
    BY <1>b, BucketNumbers
  <1>2. /\ h1[0] = 0 /\ \A n \in Spans \ {0} : h1[n] = h[n] + 1 /\ n >= 1
    <2>1. log' = [log EXCEPT ![b] = OneMore(@)] /\ log \in [Bucket -> [Spans -> Nat]]
      BY <1>0, AdmitFacts DEF TypeInv, TypeOK
    <2>2. h1 = OneMore(h)
      BY <1>b, <2>1
    <2> QED
      BY <1>1, <2>2, HistoryFacts
  <1>3. b \in DOMAIN entries'
    BY <1>0, AdmitFacts
  <1>4. WindowInv(b)
    BY <1>0
  <1>5. \/ /\ b \in DOMAIN entries /\ ~Expired(entries[b], age)
           /\ e1.count = e.count + 1 /\ e1.left = e.left
        \/ /\ b \in DOMAIN entries => Expired(entries[b], age)
           /\ e1.count = 1 /\ e1.left = W - age
    BY <1>0, LeftFacts
  <1>6. CASE b \in DOMAIN entries /\ e1.count = e.count + 1 /\ e1.left = e.left
    <2>1. e.left \in Int /\ e.count \in Nat
      BY <1>b, <1>6, BucketNumbers
    <2>2. /\ e.left <= W
          /\ \A n \in Spans : n <= W - MaxDelay - e.left => h[n] <= e.count
          /\ \A n \in Spans : n <= W - MaxDelay => h[n] <= M + e.count
          /\ e.left > -MaxDelay =>
                \A n \in Spans : n > W - e.left => h[n] >= e.count
      BY <1>4, <1>6 DEF WindowInv
    <2> HIDE DEF W, M, h, h1, e, e1
    <2>3. \A n \in Spans : n <= W - MaxDelay - e1.left => h1[n] <= e1.count
      BY <1>1, <1>2, <1>6, <2>1, <2>2
    <2>4. \A n \in Spans : n <= W - MaxDelay => h1[n] <= M + e1.count
      BY <1>1, <1>2, <1>6, <2>1, <2>2
    <2>5. e1.left > -MaxDelay => \A n \in Spans : n > W - e1.left => h1[n] >= e1.count
      BY <1>1, <1>2, <1>6, <2>1, <2>2
    <2>6. e1.left <= W
      BY <1>6, <2>2
    <2>7. WindowInv(b)'
      BY <1>3, <2>3, <2>4, <2>5, <2>6 DEF WindowInv, W, M, h1, e1
    <2> QED
      BY <2>7
  <1>7. CASE /\ b \in DOMAIN entries => Expired(entries[b], age)
             /\ e1.count = 1 /\ e1.left = W - age
    <2>1. \A n \in Spans : n <= W - MaxDelay => h[n] <= M
      BY <1>1, <1>b, <1>4, <1>7, WindowOver
    <2> HIDE DEF W, M, h, h1, e, e1
    <2>2. \A n \in Spans : n <= W - MaxDelay - e1.left => h1[n] <= e1.count
      BY <1>1, <1>2, <1>7
    <2>3. \A n \in Spans : n <= W - MaxDelay => h1[n] <= M + e1.count
      BY <1>1, <1>2, <1>7, <2>1
    <2>4. \A n \in Spans : n > W - e1.left => h1[n] >= e1.count
      BY <1>1, <1>2, <1>7
    <2>5. e1.left <= W
      BY <1>1, <1>7
    <2> QED
      BY <1>3, <2>2, <2>3, <2>4, <2>5 DEF WindowInv, W, M, h1, e1
  <1> QED
    BY <1>5, <1>6, <1>7

\* Every step keeps the windows' account.
LEMMA NextWindow ==
    ASSUME TypeInv, \A b \in Bucket : WindowInv(b), [Next]_vars
    PROVE  \A b \in Bucket : WindowInv(b)'
  <1>1. CASE Tick
    BY <1>1, WindowTick
  <1>2. CASE UNCHANGED <<entries, log>>
    BY <1>2 DEF WindowInv
  <1>3. ASSUME NEW r \in Requests, Allow(r) PROVE \A b \in Bucket : WindowInv(b)'
    <2>0. PICK map, age, k : /\ age = req[r].age /\ map = AfterCleanup(age) /\ k = Key(r)
      OBVIOUS
    <2>1. r \in DOMAIN req
      BY <1>3 DEF Allow
    <2>2. age \in Nat /\ k \in Bucket
      BY <2>0, <2>1, KeyFacts, ConstantFacts
    <2>3. /\ DOMAIN map \subseteq DOMAIN entries
          /\ \A b \in DOMAIN map : map[b] = entries[b]
          /\ \A b \in DOMAIN entries \ DOMAIN map : Expired(entries[b], age)
      BY <2>0, CleanupFacts
    <2>4. CASE Admits(map, k, age)
      <3>1. /\ DOMAIN entries' = DOMAIN map \cup {k}
            /\ \A c \in DOMAIN map \ {k} : entries'[c] = entries[c]
            /\ log' = [log EXCEPT ![k] = OneMore(@)]
        BY <1>3, <2>0, <2>4, AdmitFacts
      <3>2. WindowInv(k)'
        BY <1>3, <2>0, <2>2, <2>4, WindowAdmit
      <3>3. ASSUME NEW b \in Bucket \ {k} PROVE WindowInv(b)'
        <4>1. log'[b] = log[b]
          BY <3>1 DEF TypeInv, TypeOK
        <4>2. \/ b \in DOMAIN entries /\ b \in DOMAIN entries' /\ entries'[b] = entries[b]
              \/ b \notin DOMAIN entries' /\ (b \in DOMAIN entries => Expired(entries[b], age))
          BY <2>3, <3>1
        <4> QED
          BY <2>2, <4>1, <4>2, WindowKept
      <3> QED
        BY <3>2, <3>3
    <2>5. CASE ~Admits(map, k, age)
      <3>1. entries' = map /\ log' = log
        BY <1>3, <2>0, <2>5, RefuseFacts
      <3>2. ASSUME NEW b \in Bucket PROVE WindowInv(b)'
        <4>1. \/ b \in DOMAIN entries /\ b \in DOMAIN entries' /\ entries'[b] = entries[b]
              \/ b \notin DOMAIN entries' /\ (b \in DOMAIN entries => Expired(entries[b], age))
          BY <2>3, <3>1
        <4> QED
          BY <2>2, <3>1, <4>1, WindowKept
      <3> QED
        BY <3>2
    <2> QED
      BY <2>4, <2>5
  <1> QED
    BY <1>1, <1>2, <1>3 DEF Next, Arrive, Respond, vars

-----------------------------------------------------------------------------
(* Ceilings.                                                               *)

\* The requests between two limits are few enough to count.
LEMMA BetweenFacts ==
    ASSUME TypeInv, NEW ip, NEW m
    PROVE  /\ IsFiniteSet(Between(ip, m)) /\ Cardinality(Between(ip, m)) \in Nat
           /\ \A T \in SUBSET Between(ip, m) :
                 /\ IsFiniteSet(T) /\ Cardinality(T) \in Nat
                 /\ Cardinality(T) <= Cardinality(Between(ip, m))
  <1>1. IsFiniteSet(DOMAIN req)
    BY DEF TypeInv
  <1>2. Between(ip, m) \subseteq DOMAIN req
    BY DEF Between
  <1>3. IsFiniteSet(Between(ip, m))
    BY <1>1, <1>2, FS_Subset
  <1>4. \A T \in SUBSET Between(ip, m) :
           IsFiniteSet(T) /\ Cardinality(T) <= Cardinality(Between(ip, m))
    BY <1>3, FS_Subset
  <1> QED
    BY <1>3, <1>4, FS_CardinalityType

\* The histories of a client.
LEMMA ClientFacts ==
    ASSUME TypeInv, NEW ip \in IPs
    PROVE  /\ log[Ceiling(ip)] \in [Spans -> Nat] /\ passed[ip] \in [Spans -> Nat]
           /\ passed[ip][0] = 0
           /\ MaxDelay \in Nat /\ LongestWindow \in Nat /\ LongestWindow >= 1
           /\ \A m \in 0..(MaxDelay + 1) : m \in Spans
           /\ \A n \in 0..LongestWindow : n \in Spans /\ n + MaxDelay \in Spans
  <1>1. MaxDelay \in Nat /\ LongestWindow \in Nat /\ LongestWindow >= 1
    BY ConstantFacts
  <1>2. /\ \A m \in 0..(MaxDelay + 1) : m \in Spans
        /\ \A n \in 0..LongestWindow : n \in Spans /\ n + MaxDelay \in Spans
    BY <1>1 DEF Spans
  <1>3. log[Ceiling(ip)] \in [Spans -> Nat] /\ passed[ip] \in [Spans -> Nat] /\ passed[ip][0] = 0
    BY BucketFacts DEF TypeInv, TypeOK
  <1> QED
    BY <1>1, <1>2, <1>3

\* A client none of whose requests comes between its limits.
LEMMA CeilingKept ==
    ASSUME TypeInv, NEW ip \in IPs, CeilingInv(ip),
           log'[Ceiling(ip)] = log[Ceiling(ip)], passed'[ip] = passed[ip],
           \A m : Between(ip, m)' \subseteq Between(ip, m)
    PROVE  CeilingInv(ip)'
  <1> DEFINE C(m) == Cardinality(Between(ip, m))
             D(m) == Cardinality(Between(ip, m)')
             h == log[Ceiling(ip)]
             p == passed[ip]
  <1>1. \A m : C(m) \in Nat /\ D(m) \in Nat /\ D(m) <= C(m)
    BY BetweenFacts
  <1>2. /\ h \in [Spans -> Nat] /\ p \in [Spans -> Nat]
        /\ \A m \in 0..(MaxDelay + 1) : m \in Spans
        /\ \A n \in 0..LongestWindow : n \in Spans /\ n + MaxDelay \in Spans
        /\ MaxDelay \in Nat /\ LongestWindow \in Nat
    BY ClientFacts
  <1>3. /\ \A m \in 0..(MaxDelay + 1) : C(m) <= h[m]
        /\ \A n \in 1..LongestWindow : p[n] + C(MaxDelay + 1) <= h[n + MaxDelay]
    BY DEF CeilingInv
  <1> HIDE DEF C, D, h, p
  <1>4. \A m \in 0..(MaxDelay + 1) : D(m) <= h[m]
    BY <1>1, <1>2, <1>3
  <1>5. \A n \in 1..LongestWindow : p[n] + D(MaxDelay + 1) <= h[n + MaxDelay]
    <2>1. SUFFICES ASSUME NEW n \in 1..LongestWindow
                   PROVE  p[n] + D(MaxDelay + 1) <= h[n + MaxDelay]
      OBVIOUS
    <2>2. n \in 0..LongestWindow
      BY <1>2
    <2>3. p[n] \in Nat /\ h[n + MaxDelay] \in Nat
      BY <1>2, <2>2
    <2> QED
      BY <1>1, <1>3, <2>3
  <1> QED
    BY <1>4, <1>5 DEF CeilingInv, D, h, p

\* Time passes for a client.
LEMMA CeilingTick ==
    ASSUME TypeInv, NEW ip \in IPs, CeilingInv(ip), Tick
    PROVE  CeilingInv(ip)'
  <1> DEFINE C(m) == Cardinality(Between(ip, m))
             D(m) == Cardinality(Between(ip, m)')
             h == log[Ceiling(ip)]
             p == passed[ip]
             h1 == log'[Ceiling(ip)]
             p1 == passed'[ip]
  <1>1. /\ h \in [Spans -> Nat] /\ p \in [Spans -> Nat] /\ p[0] = 0
        /\ \A m \in 0..(MaxDelay + 1) : m \in Spans
        /\ \A n \in 0..LongestWindow : n \in Spans /\ n + MaxDelay \in Spans
        /\ MaxDelay \in Nat /\ LongestWindow \in Nat
    BY ClientFacts
  <1>2. /\ h1[0] = 0 /\ \A n \in Spans \ {0} : h1[n] = h[n - 1]
        /\ \A n \in Spans \ {0} : p1[n] = p[n - 1]
    <2>1. h1 = Older(h) /\ p1 = Older(p)
      BY TickFacts, BucketFacts
    <2> QED
      BY <1>1, <2>1, HistoryFacts
  <1>3. /\ \A m \in 0..(MaxDelay + 1) : C(m) <= h[m]
        /\ \A n \in 1..LongestWindow : p[n] + C(MaxDelay + 1) <= h[n + MaxDelay]
    BY DEF CeilingInv
  <1>4. /\ D(0) = 0 /\ \A m \in 1..(MaxDelay + 1) : D(m) = C(m - 1)
    <2>1. ASSUME NEW r \in DOMAIN req, NEW m \in Int
          PROVE  r \in Between(ip, m)' <=> r \in Between(ip, m - 1)
      <3>1. /\ DOMAIN req' = DOMAIN req
            /\ req'[r].pc = req[r].pc /\ req'[r].next = req[r].next /\ req'[r].ip = req[r].ip
            /\ req[r].pc = "limit" => /\ req[r].age \in 0..(MaxDelay - 1)
                                      /\ req'[r].age = req[r].age + 1
        BY TickFacts
      <3>2. req[r].pc = "limit" => (req'[r].age < m <=> req[r].age < m - 1)
        BY <1>1, <3>1
      <3> QED
        BY <3>1, <3>2 DEF Between
    <2>2. \A m \in Int : Between(ip, m)' = Between(ip, m - 1)
      <3>1. \A m : Between(ip, m)' \subseteq DOMAIN req /\ Between(ip, m) \subseteq DOMAIN req
        BY TickFacts DEF Between
      <3>2. ASSUME NEW m \in Int PROVE Between(ip, m)' = Between(ip, m - 1)
        <4>1. \A r \in DOMAIN req : r \in Between(ip, m)' <=> r \in Between(ip, m - 1)
          BY <2>1
        <4>2. Between(ip, m)' \subseteq DOMAIN req /\ Between(ip, m - 1) \subseteq DOMAIN req
          BY <3>1
        <4> QED
          BY <4>1, <4>2
      <3> QED
        BY <3>2
    <2>3. Between(ip, 0 - 1) = {}
      <3>1. \A r \in DOMAIN req : req[r].age \in 0..MaxDelay
        BY KeyFacts
      <3>2. \A r \in DOMAIN req : ~(req[r].age < 0 - 1)
        BY <1>1, <3>1
      <3> QED
        BY <3>2 DEF Between
    <2>4. D(0) = 0
      BY <2>2, <2>3, FS_EmptySet
    <2> QED
      BY <1>1, <2>2, <2>4
  <1>5. /\ C(MaxDelay) \in Nat /\ C(MaxDelay + 1) \in Nat /\ C(MaxDelay) <= C(MaxDelay + 1)
    <2>1. Between(ip, MaxDelay) \subseteq Between(ip, MaxDelay + 1)
      <3>1. \A r \in DOMAIN req : req[r].age \in 0..MaxDelay
        BY KeyFacts
      <3>2. \A r \in DOMAIN req : req[r].age < MaxDelay => req[r].age < MaxDelay + 1
        BY <1>1, <3>1
      <3> QED
        BY <3>2 DEF Between
    <2> QED
      BY <2>1, BetweenFacts
  <1> HIDE DEF C, D, h, p, h1, p1
  <1>6. \A m \in 0..(MaxDelay + 1) : D(m) <= h1[m]
    <2>1. SUFFICES ASSUME NEW m \in 0..(MaxDelay + 1) PROVE D(m) <= h1[m]
      OBVIOUS
    <2>2. CASE m = 0
      BY <1>2, <1>4, <2>2
    <2>3. CASE m # 0
      <3>1. m \in 1..(MaxDelay + 1) /\ m - 1 \in 0..(MaxDelay + 1) /\ m \in Spans \ {0}
        BY <1>1, <2>3
      <3> QED
        BY <1>2, <1>3, <1>4, <3>1
    <2> QED
      BY <2>2, <2>3
  <1>7. \A n \in 1..LongestWindow : p1[n] + D(MaxDelay + 1) <= h1[n + MaxDelay]
    <2>1. SUFFICES ASSUME NEW n \in 1..LongestWindow
                   PROVE  p1[n] + D(MaxDelay + 1) <= h1[n + MaxDelay]
      OBVIOUS
    <2>2. /\ n \in Spans \ {0} /\ n + MaxDelay \in Spans \ {0} /\ n - 1 \in 0..LongestWindow
          /\ n + MaxDelay - 1 = (n - 1) + MaxDelay
      BY <1>1
    <2>3. p1[n] = p[n - 1] /\ h1[n + MaxDelay] = h[(n - 1) + MaxDelay] /\ p[n - 1] \in Nat
          /\ h[(n - 1) + MaxDelay] \in Nat
      BY <1>1, <1>2, <2>2
    <2>4. D(MaxDelay + 1) = C(MaxDelay)
      BY <1>1, <1>4
    <2>5. CASE n = 1
      BY <1>1, <1>3, <1>5, <2>3, <2>4, <2>5
    <2>6. CASE n # 1
      <3>1. n - 1 \in 1..LongestWindow
        BY <1>1, <2>6
      <3>2. p[n - 1] + C(MaxDelay + 1) <= h[(n - 1) + MaxDelay]
        BY <1>3, <3>1
      <3> QED
        BY <1>5, <2>3, <2>4, <3>2
    <2> QED
      BY <2>5, <2>6
  <1> QED
    BY <1>6, <1>7 DEF CeilingInv, D, h1, p1

\* A request passes its ceiling.
LEMMA CeilingPassed ==
    ASSUME TypeInv, NEW r \in Requests, Allow(r),
           Admits(AfterCleanup(req[r].age), Key(r), req[r].age), req[r].next = 1,
           NEW ip \in IPs, ip = req[r].ip, CeilingInv(ip)
    PROVE  CeilingInv(ip)'
  <1> DEFINE C(m) == Cardinality(Between(ip, m))
             D(m) == Cardinality(Between(ip, m)')
             h == log[Ceiling(ip)]
             p == passed[ip]
             h1 == log'[Ceiling(ip)]
  <1>0. r \in DOMAIN req
    BY DEF Allow
  <1>1. /\ h \in [Spans -> Nat] /\ p \in [Spans -> Nat]
        /\ \A m \in 0..(MaxDelay + 1) : m \in Spans
        /\ \A n \in 0..LongestWindow : n \in Spans /\ n + MaxDelay \in Spans
        /\ MaxDelay \in Nat /\ LongestWindow \in Nat
    BY ClientFacts
  <1>2. Key(r) = Ceiling(ip) /\ Key(r).policy = "ip" /\ req[r] \in Request
        /\ req[r].age \in 0..MaxDelay
    BY <1>0, KeyFacts, BucketFacts
  <1>3. /\ log' = [log EXCEPT ![Key(r)] = OneMore(@)] /\ passed' = passed
        /\ DOMAIN req' = DOMAIN req
        /\ \A s \in DOMAIN req \ {r} : req'[s] = req[s]
        /\ req'[r] = [req[r] EXCEPT !.next = 2]
    BY <1>2, AdmitFacts
  <1>4. h1[0] = 0 /\ \A n \in Spans \ {0} : h1[n] = h[n] + 1
    <2>1. h1 = OneMore(h)
      BY <1>2, <1>3, BucketFacts DEF TypeInv, TypeOK
    <2> QED
      BY <1>1, <2>1, HistoryFacts
  <1>5. \A m : /\ C(m) \in Nat
               /\ D(m) \in Nat /\ D(m) <= C(m) + 1
    <2>1. ASSUME NEW m PROVE D(m) \in Nat /\ C(m) \in Nat /\ D(m) <= C(m) + 1
      <3>1. Between(ip, m)' \subseteq Between(ip, m) \cup {r}
        BY <1>3 DEF Between
      <3>2. IsFiniteSet(Between(ip, m)) /\ C(m) \in Nat
        BY BetweenFacts
      <3>3. /\ IsFiniteSet(Between(ip, m) \cup {r})
            /\ Cardinality(Between(ip, m) \cup {r}) \in {C(m), C(m) + 1}
        BY <3>2, FS_AddElement
      <3>4. /\ IsFiniteSet(Between(ip, m)')
            /\ D(m) <= Cardinality(Between(ip, m) \cup {r})
        BY <3>1, <3>3, FS_Subset
      <3>5. D(m) \in Nat
        BY <3>4, FS_CardinalityType
      <3> QED
        BY <3>2, <3>3, <3>4, <3>5
    <2> QED
      BY <2>1
  <1>6. D(0) = 0
    <2>1. Between(ip, 0)' = {}
      <3>1. \A s \in DOMAIN req : req[s].age \in 0..MaxDelay
        BY KeyFacts
      <3>2. req'[r].age = req[r].age
        BY <1>2, <1>3 DEF Request
      <3>3. \A s \in DOMAIN req' : ~(req'[s].age < 0)
        <4>1. \A s \in DOMAIN req : ~(req[s].age < 0)
          BY <1>1, <3>1
        <4> QED
          BY <1>0, <1>3, <3>2, <4>1
      <3> QED
        BY <3>3 DEF Between
    <2> QED
      BY <2>1, FS_EmptySet
  <1>7. /\ \A m \in 0..(MaxDelay + 1) : C(m) <= h[m]
        /\ \A n \in 1..LongestWindow : p[n] + C(MaxDelay + 1) <= h[n + MaxDelay]
    BY DEF CeilingInv
  <1> HIDE DEF C, D, h, p, h1
  <1>8. \A m \in 0..(MaxDelay + 1) : D(m) <= h1[m]
    <2>1. SUFFICES ASSUME NEW m \in 0..(MaxDelay + 1) PROVE D(m) <= h1[m]
      OBVIOUS
    <2>2. CASE m = 0
      BY <1>4, <1>6, <2>2
    <2>3. CASE m # 0
      <3>1. m \in Spans \ {0} /\ h[m] \in Nat
        BY <1>1, <2>3
      <3> QED
        BY <1>4, <1>5, <1>7, <3>1
    <2> QED
      BY <2>2, <2>3
  <1>9. \A n \in 1..LongestWindow : p[n] + D(MaxDelay + 1) <= h1[n + MaxDelay]
    <2>1. SUFFICES ASSUME NEW n \in 1..LongestWindow
                   PROVE  p[n] + D(MaxDelay + 1) <= h1[n + MaxDelay]
      OBVIOUS
    <2>2. n \in 0..LongestWindow /\ n + MaxDelay \in Spans \ {0}
      BY <1>1
    <2>3. /\ p[n] \in Nat /\ h[n + MaxDelay] \in Nat /\ h1[n + MaxDelay] = h[n + MaxDelay] + 1
      BY <1>1, <1>4, <2>2
    <2>4. p[n] + C(MaxDelay + 1) <= h[n + MaxDelay]
      BY <1>7
    <2> QED
      BY <1>5, <2>3, <2>4
  <1> QED
    BY <1>3, <1>8, <1>9 DEF CeilingInv, D, h1, p

\* A request is admitted by its narrow limit.
LEMMA NarrowPassed ==
    ASSUME TypeInv, NEW r \in Requests, Allow(r),
           Admits(AfterCleanup(req[r].age), Key(r), req[r].age), req[r].next = 2,
           NEW ip \in IPs, ip = req[r].ip, CeilingInv(ip)
    PROVE  CeilingInv(ip)'
  <1> DEFINE C(m) == Cardinality(Between(ip, m))
             D(m) == Cardinality(Between(ip, m)')
             h == log[Ceiling(ip)]
             p == passed[ip]
             p1 == passed'[ip]
  <1>0. r \in DOMAIN req /\ req[r].pc = "limit"
    BY DEF Allow
  <1>1. /\ h \in [Spans -> Nat] /\ p \in [Spans -> Nat]
        /\ \A m \in 0..(MaxDelay + 1) : m \in Spans
        /\ \A n \in 0..LongestWindow : n \in Spans /\ n + MaxDelay \in Spans
        /\ MaxDelay \in Nat /\ LongestWindow \in Nat
    BY ClientFacts
  <1>2. /\ Key(r) \in Bucket /\ Key(r).ip = ip /\ Key(r).policy = "ip_email"
        /\ req[r] \in Request /\ req[r].age \in 0..MaxDelay
    BY <1>0, KeyFacts
  <1>3. /\ log' = [log EXCEPT ![Key(r)] = OneMore(@)]
        /\ passed' = [passed EXCEPT ![ip] = OneMore(@)]
        /\ DOMAIN req' = DOMAIN req
        /\ \A s \in DOMAIN req \ {r} : req'[s] = req[s]
        /\ req'[r] = [req[r] EXCEPT !.pc = "served"]
    <2>1. /\ log' = [log EXCEPT ![Key(r)] = OneMore(@)]
          /\ DOMAIN req' = DOMAIN req
          /\ \A s \in DOMAIN req \ {r} : req'[s] = req[s]
      BY AdmitFacts
    <2>2. req'[r] = IF req[r].next = 1 THEN [req[r] EXCEPT !.next = 2]
                    ELSE [req[r] EXCEPT !.pc = "served"]
      BY AdmitFacts
    <2>3. passed' = IF Key(r).policy = "ip" THEN passed
                    ELSE [passed EXCEPT ![Key(r).ip] = OneMore(@)]
      BY AdmitFacts
    <2> QED
      BY <1>2, <2>1, <2>2, <2>3
  <1>4. log'[Ceiling(ip)] = h
    BY <1>2, <1>3, BucketFacts DEF TypeInv, TypeOK
  <1>5. \A n \in Spans \ {0} : p1[n] = p[n] + 1
    <2>1. p1 = OneMore(p)
      BY <1>3 DEF TypeInv, TypeOK
    <2> QED
      BY <1>1, <2>1, HistoryFacts
  <1>6. \A m : Between(ip, m)' = Between(ip, m) \ {r}
    <2>1. req'[r].pc = "served"
      BY <1>2, <1>3 DEF Request
    <2> QED
      BY <1>3, <2>1 DEF Between
  <1>7. \A m : C(m) \in Nat /\ D(m) \in Nat /\ D(m) <= C(m)
    BY <1>6, BetweenFacts
  <1>8. D(MaxDelay + 1) = C(MaxDelay + 1) - 1
    <2>1. r \in Between(ip, MaxDelay + 1)
      <3>1. req[r].age < MaxDelay + 1
        BY <1>1, <1>2
      <3> QED
        BY <1>0, <3>1 DEF Between
    <2>2. IsFiniteSet(Between(ip, MaxDelay + 1))
      BY BetweenFacts
    <2> QED
      BY <1>6, <2>1, <2>2, FS_RemoveElement
  <1>9. /\ \A m \in 0..(MaxDelay + 1) : C(m) <= h[m]
        /\ \A n \in 1..LongestWindow : p[n] + C(MaxDelay + 1) <= h[n + MaxDelay]
    BY DEF CeilingInv
  <1> HIDE DEF C, D, h, p, p1
  <1>10. \A m \in 0..(MaxDelay + 1) : D(m) <= h[m]
    <2>1. SUFFICES ASSUME NEW m \in 0..(MaxDelay + 1) PROVE D(m) <= h[m]
      OBVIOUS
    <2>2. h[m] \in Nat
      BY <1>1
    <2> QED
      BY <1>7, <1>9, <2>2
  <1>11. \A n \in 1..LongestWindow : p1[n] + D(MaxDelay + 1) <= h[n + MaxDelay]
    <2>1. SUFFICES ASSUME NEW n \in 1..LongestWindow
                   PROVE  p1[n] + D(MaxDelay + 1) <= h[n + MaxDelay]
      OBVIOUS
    <2>2. n \in 0..LongestWindow /\ n \in Spans \ {0}
      BY <1>1
    <2>3. p[n] \in Nat /\ h[n + MaxDelay] \in Nat /\ p1[n] = p[n] + 1
      BY <1>1, <1>5, <2>2
    <2>4. p[n] + C(MaxDelay + 1) <= h[n + MaxDelay]
      BY <1>9
    <2> QED
      BY <1>7, <1>8, <2>3, <2>4
  <1> QED
    BY <1>4, <1>10, <1>11 DEF CeilingInv, D, p1

\* Every step keeps the order of the limits.
LEMMA NextCeiling ==
    ASSUME TypeInv, \A ip \in IPs : CeilingInv(ip), [Next]_vars
    PROVE  \A ip \in IPs : CeilingInv(ip)'
  <1>1. CASE Tick
    BY <1>1, CeilingTick
  <1>2. ASSUME log' = log, passed' = passed, NEW ip \in IPs,
               \A m : Between(ip, m)' \subseteq Between(ip, m)
        PROVE  CeilingInv(ip)'
    BY <1>2, CeilingKept
  <1>3. ASSUME NEW r \in Requests, NEW client \in IPs, NEW email \in Emails \cup {NoEmail},
               Arrive(r, client, email), NEW ip \in IPs
        PROVE  CeilingInv(ip)'
    <2>1. /\ log' = log /\ passed' = passed
          /\ DOMAIN req' = DOMAIN req \cup {r}
          /\ \A s \in DOMAIN req : req'[s] = req[s]
          /\ req'[r].next = 1
      BY <1>3 DEF Arrive
    <2>2. \A m : Between(ip, m)' \subseteq Between(ip, m)
      BY <2>1 DEF Between
    <2> QED
      BY <1>2, <2>1, <2>2
  <1>4. ASSUME NEW r \in Requests, Respond(r), NEW ip \in IPs PROVE CeilingInv(ip)'
    <2>1. /\ log' = log /\ passed' = passed
          /\ DOMAIN req' = DOMAIN req \ {r}
          /\ \A s \in DOMAIN req' : req'[s] = req[s]
      BY <1>4 DEF Respond
    <2>2. \A m : Between(ip, m)' \subseteq Between(ip, m)
      BY <2>1 DEF Between
    <2> QED
      BY <1>2, <2>1, <2>2
  <1>5. ASSUME UNCHANGED vars, NEW ip \in IPs PROVE CeilingInv(ip)'
    BY <1>5 DEF vars, CeilingInv, Between
  <1>6. ASSUME NEW r \in Requests, Allow(r), NEW ip \in IPs PROVE CeilingInv(ip)'
    <2>0. PICK map, age, k : /\ age = req[r].age /\ map = AfterCleanup(age) /\ k = Key(r)
      OBVIOUS
    <2>1. r \in DOMAIN req
      BY <1>6 DEF Allow
    <2>2. /\ k \in Bucket /\ k.ip = req[r].ip /\ req[r].next \in {1, 2}
          /\ req[r] \in Request
      BY <2>0, <2>1, KeyFacts
    <2>3. CASE ~Admits(map, k, age)
      <3>1. /\ log' = log /\ passed' = passed /\ DOMAIN req' = DOMAIN req
            /\ \A s \in DOMAIN req \ {r} : req'[s] = req[s]
            /\ req'[r] = [req[r] EXCEPT !.pc = "refused"]
        BY <1>6, <2>0, <2>3, RefuseFacts
      <3>2. req'[r].pc = "refused"
        BY <2>2, <3>1 DEF Request
      <3>3. \A m : Between(ip, m)' \subseteq Between(ip, m)
        BY <3>1, <3>2 DEF Between
      <3> QED
        BY <1>2, <3>1, <3>3
    <2>4. CASE Admits(map, k, age) /\ ip = req[r].ip
      BY <1>6, <2>0, <2>2, <2>4, CeilingPassed, NarrowPassed
    <2>5. CASE Admits(map, k, age) /\ ip # req[r].ip
      <3>1. /\ log' = [log EXCEPT ![k] = OneMore(@)]
            /\ passed' = IF k.policy = "ip" THEN passed
                         ELSE [passed EXCEPT ![k.ip] = OneMore(@)]
            /\ DOMAIN req' = DOMAIN req
            /\ \A s \in DOMAIN req \ {r} : req'[s] = req[s]
            /\ req'[r] = IF req[r].next = 1 THEN [req[r] EXCEPT !.next = 2]
                         ELSE [req[r] EXCEPT !.pc = "served"]
        BY <1>6, <2>0, <2>5, AdmitFacts
      <3>2. k # Ceiling(ip) /\ Ceiling(ip) \in Bucket
        BY <2>2, <2>5, BucketFacts
      <3>3. log'[Ceiling(ip)] = log[Ceiling(ip)] /\ passed'[ip] = passed[ip]
        BY <2>2, <2>5, <3>1, <3>2 DEF TypeInv, TypeOK
      <3>4. req'[r].ip = req[r].ip
        BY <2>2, <3>1 DEF Request
      <3>5. \A m : Between(ip, m)' \subseteq Between(ip, m)
        BY <2>5, <3>1, <3>4 DEF Between
      <3> QED
        BY <3>3, <3>5, CeilingKept
    <2> QED
      BY <2>3, <2>4, <2>5
  <1> QED
    BY <1>1, <1>3, <1>4, <1>5, <1>6 DEF Next

-----------------------------------------------------------------------------
(* The theorems.                                                           *)

\* The invariant holds before the first request.
LEMMA InitInv ==
    ASSUME Init
    PROVE  LimiterInv
  <1>1. /\ MaxDelay \in Nat /\ LongestWindow \in Nat /\ LongestWindow >= 1
        /\ MaxEntries \in Nat \ {0} /\ CleanupEvery \in Nat \ {0}
    BY ConstantFacts
  <1>2. IsFiniteSet({}) /\ Cardinality({}) = 0
    BY FS_EmptySet
  <1>3. /\ DOMAIN entries = {} /\ DOMAIN req = {} /\ calls = 0
        /\ log = [b \in Bucket |-> [n \in Spans |-> 0]]
        /\ passed = [ip \in IPs |-> [n \in Spans |-> 0]]
    BY DEF Init
  <1>4. /\ \A b \in Bucket, n \in Spans : log[b][n] = 0
        /\ \A ip \in IPs, n \in Spans : passed[ip][n] = 0
        /\ 0 \in Spans
    BY <1>1, <1>3 DEF Spans
  <1>5. TypeInv
    <2>1. log \in [Bucket -> [Spans -> Nat]] /\ passed \in [IPs -> [Spans -> Nat]]
      BY <1>3
    <2>2. calls \in 0..(CleanupEvery - 1) /\ Cardinality(DOMAIN entries) <= MaxEntries
      BY <1>1, <1>2, <1>3
    <2> QED
      BY <1>2, <1>3, <1>4, <2>1, <2>2 DEF TypeInv, TypeOK
  <1>6. ASSUME NEW b \in Bucket PROVE WindowInv(b)
    <2>1. MaxRequests[b.policy] \in Nat
      BY <1>5, BucketNumbers
    <2> QED
      BY <1>3, <1>4, <2>1 DEF WindowInv
  <1>7. ASSUME NEW ip \in IPs PROVE CeilingInv(ip)
    <2>1. \A m : Between(ip, m) = {}
      BY <1>3 DEF Between
    <2>2. /\ \A m \in 0..(MaxDelay + 1) : log[Ceiling(ip)][m] = 0
          /\ \A n \in 1..LongestWindow : passed[ip][n] = 0 /\ log[Ceiling(ip)][n + MaxDelay] = 0
      <3>1. /\ \A m \in 0..(MaxDelay + 1) : m \in Spans
            /\ \A n \in 0..LongestWindow : n \in Spans /\ n + MaxDelay \in Spans
        BY <1>5, ClientFacts
      <3>2. \A n \in 1..LongestWindow : n \in 0..LongestWindow
        BY <1>1
      <3> QED
        BY <1>4, <3>1, <3>2, BucketFacts
    <2> QED
      BY <1>2, <2>1, <2>2 DEF CeilingInv
  <1> QED
    BY <1>5, <1>6, <1>7 DEF LimiterInv

\* The invariant holds in every state.
LEMMA LimiterStays == Spec => []LimiterInv
  <1>1. Init => LimiterInv
    BY InitInv
  <1>2. LimiterInv /\ [Next]_vars => LimiterInv'
    <2>1. SUFFICES ASSUME LimiterInv, [Next]_vars PROVE LimiterInv'
      OBVIOUS
    <2>2. TypeInv /\ (\A b \in Bucket : WindowInv(b)) /\ (\A ip \in IPs : CeilingInv(ip))
      BY <2>1 DEF LimiterInv
    <2>3. TypeInv'
      BY <2>1, <2>2, NextTypeInv
    <2>4. \A b \in Bucket : WindowInv(b)'
      BY <2>1, <2>2, NextWindow
    <2>5. \A ip \in IPs : CeilingInv(ip)'
      BY <2>1, <2>2, NextCeiling
    <2> QED
      BY <2>3, <2>4, <2>5 DEF LimiterInv
  <1> QED
    BY <1>1, <1>2, PTL DEF Spec

\* TypeOK of every run of the limiter: Allow leaves the map within
\* maxRateLimitEntries and every count within its policy's MaxRequests.
THEOREM TypeCorrect == Spec => []TypeOK
  <1>1. LimiterInv => TypeOK
    BY DEF LimiterInv, TypeInv
  <1> QED
    BY <1>1, LimiterStays, PTL

\* A bucket admits at most twice its limit in a window's length less the delay of a
\* clock reading: no stretch that short meets three windows, whether Allow resets the
\* entry in place or cleanupExpired drops it and Allow opens a new one.
THEOREM BurstsAreBounded == Spec => []BurstIsBounded
  <1>1. ASSUME LimiterInv, NEW b \in Bucket
        PROVE  log[b][Window[b.policy] - MaxDelay] <= 2 * MaxRequests[b.policy]
    <2>1. /\ TypeInv /\ WindowInv(b)
      BY <1>1 DEF LimiterInv
    <2>2. PICK n, M : n = Window[b.policy] - MaxDelay /\ M = MaxRequests[b.policy]
      OBVIOUS
    <2>3. /\ M \in Nat /\ n \in Spans /\ log[b][n] \in Nat /\ n <= Window[b.policy] - MaxDelay
          /\ b \in DOMAIN entries => entries[b].count \in Nat /\ entries[b].count <= M
      <3>1. n \in Spans /\ n <= Window[b.policy] - MaxDelay
        BY <2>1, <2>2, BucketNumbers DEF Spans
      <3> QED
        BY <2>1, <2>2, <3>1, BucketNumbers
    <2>4. CASE b \notin DOMAIN entries
      <3>1. log[b][n] <= M
        BY <2>1, <2>2, <2>3, <2>4 DEF WindowInv
      <3>2. log[b][n] <= 2 * M
        BY <2>3, <3>1
      <3> QED
        BY <2>2, <3>2
    <2>5. CASE b \in DOMAIN entries
      <3>1. log[b][n] <= M + entries[b].count
        BY <2>1, <2>2, <2>3, <2>5 DEF WindowInv
      <3>2. log[b][n] <= 2 * M
        BY <2>3, <2>5, <3>1
      <3> QED
        BY <2>2, <3>2
    <2> QED
      BY <2>4, <2>5
  <1>2. LimiterInv => BurstIsBounded
    BY <1>1 DEF BurstIsBounded
  <1> QED
    BY <1>2, LimiterStays, PTL

\* Whatever a client's narrow limits admitted, its ceiling admitted before:
\* withRateLimits asks its specs in order and answers at the first refusal.
THEOREM CeilingsComeFirst == Spec => []CeilingComesFirst
  <1>1. ASSUME LimiterInv, NEW ip \in IPs
        PROVE  passed[ip][LongestWindow] <= log[Ceiling(ip)][LongestWindow + MaxDelay]
    <2>1. TypeInv /\ CeilingInv(ip)
      BY <1>1 DEF LimiterInv
    <2>2. /\ LongestWindow \in 1..LongestWindow
          /\ passed[ip][LongestWindow] \in Nat
          /\ log[Ceiling(ip)][LongestWindow + MaxDelay] \in Nat
      <3>1. LongestWindow \in 1..LongestWindow /\ LongestWindow \in 0..LongestWindow
        BY <2>1, ClientFacts
      <3> QED
        BY <2>1, <3>1, ClientFacts
    <2>3. Cardinality(Between(ip, MaxDelay + 1)) \in Nat
      BY <2>1, BetweenFacts
    <2>4. passed[ip][LongestWindow] + Cardinality(Between(ip, MaxDelay + 1))
             <= log[Ceiling(ip)][LongestWindow + MaxDelay]
      BY <2>1, <2>2 DEF CeilingInv
    <2> QED
      BY <2>2, <2>3, <2>4
  <1>2. LimiterInv => CeilingComesFirst
    BY <1>1 DEF CeilingComesFirst, Ceiling
  <1> QED
    BY <1>2, LimiterStays, PTL

\* A request is refused only for what its bucket admitted within the last window, or
\* because the map is full of other buckets: Allow counts nothing of a window that
\* is over, for any reading of the clock.
THEOREM RefusalsAreAllEarned == Spec => RefusalsAreEarned
  <1> DEFINE Earned(r) ==
                \/ log[Key(r)][Window[Key(r).policy] + req[r].age] >= MaxRequests[Key(r).policy]
                \/ Key(r) \notin DOMAIN entries' /\ Cardinality(DOMAIN entries') = MaxEntries
  <1>1. ASSUME LimiterInv, NEW r \in Requests, Allow(r),
               ~Admits(AfterCleanup(req[r].age), Key(r), req[r].age)
        PROVE  Earned(r)
    <2>0. PICK map, age, k, W, M :
             /\ age = req[r].age /\ map = AfterCleanup(age) /\ k = Key(r)
             /\ W = Window[k.policy] /\ M = MaxRequests[k.policy]
      OBVIOUS
    <2>1. TypeInv /\ r \in DOMAIN req
      BY <1>1 DEF LimiterInv, Allow
    <2>2. k \in Bucket /\ age \in 0..MaxDelay
      BY <2>0, <2>1, KeyFacts
    <2>3. entries' = map
      BY <1>1, <2>0, <2>1, RefuseFacts
    <2>4. /\ DOMAIN map \subseteq DOMAIN entries /\ \A b \in DOMAIN map : map[b] = entries[b]
          /\ Cardinality(DOMAIN map) <= MaxEntries /\ Cardinality(DOMAIN map) \in Nat
      BY <2>0, <2>1, CleanupFacts
    <2>5. CASE k \notin DOMAIN map
      <3>1. ~(Cardinality(DOMAIN map) < MaxEntries)
        BY <1>1, <2>0, <2>5 DEF Admits
      <3>2. Cardinality(DOMAIN map) = MaxEntries
        BY <2>4, <3>1, ConstantFacts
      <3> QED
        BY <2>0, <2>3, <2>5, <3>2
    <2>6. CASE k \in DOMAIN map
      <3>1. PICK e : e = entries[k]
        OBVIOUS
      <3>2. k \in DOMAIN entries /\ ~(e.left + age <= 0) /\ ~(e.count < M)
        BY <1>1, <2>0, <2>4, <2>6, <3>1 DEF Admits, Expired
      <3>3. /\ e.left \in Int /\ e.count \in Nat /\ W \in Nat /\ M \in Nat /\ MaxDelay \in Nat
            /\ LongestWindow \in Nat /\ W <= LongestWindow /\ log[k] \in [Spans -> Nat]
        BY <2>0, <2>1, <2>2, <3>1, <3>2, BucketNumbers
      <3>4. W + age \in Spans /\ W + age > W - e.left /\ e.left > -MaxDelay
        BY <2>2, <3>2, <3>3 DEF Spans
      <3>5. log[k][W + age] >= e.count
        BY <1>1, <2>0, <2>2, <3>1, <3>2, <3>4 DEF LimiterInv, WindowInv
      <3>6. log[k][W + age] >= M
        BY <3>2, <3>3, <3>4, <3>5
      <3> QED
        BY <2>0, <3>6
    <2> QED
      BY <2>5, <2>6
  <1>2. ASSUME LimiterInv, [Next]_vars, NEW r \in DOMAIN req \cap DOMAIN req',
               req[r].pc = "limit", req'[r].pc = "refused"
        PROVE  Earned(r)
    <2>1. TypeInv /\ r \in Requests /\ req[r] \in Request
      BY <1>2 DEF LimiterInv, TypeInv, TypeOK
    <2>2. req'[r].pc # req[r].pc
      BY <1>2
    <2>3. ~Tick
      BY <2>1, <2>2, <1>2, TickFacts
    <2>4. \A s \in Requests, ip \in IPs, email \in Emails \cup {NoEmail} : ~Arrive(s, ip, email)
      BY <1>2, <2>2 DEF Arrive
    <2>5. \A s \in Requests : ~Respond(s)
      BY <1>2, <2>2 DEF Respond
    <2>6. ~UNCHANGED vars
      BY <2>2 DEF vars
    <2>7. PICK s \in Requests : Allow(s)
      BY <1>2, <2>3, <2>4, <2>5, <2>6 DEF Next
    <2>8. ~Admits(AfterCleanup(req[s].age), Key(s), req[s].age) /\ s = r
      <3>1. CASE Admits(AfterCleanup(req[s].age), Key(s), req[s].age)
        <4>1. /\ s \in DOMAIN req
              /\ \A x \in DOMAIN req \ {s} : req'[x] = req[x]
              /\ req'[s] = IF req[s].next = 1 THEN [req[s] EXCEPT !.next = 2]
                           ELSE [req[s] EXCEPT !.pc = "served"]
          BY <2>1, <2>7, <3>1, AdmitFacts
        <4>2. s = r
          BY <1>2, <2>2, <4>1
        <4>3. req'[r].pc # "refused"
          BY <1>2, <2>1, <4>1, <4>2 DEF Request
        <4> QED
          BY <1>2, <4>3
      <3>2. CASE ~Admits(AfterCleanup(req[s].age), Key(s), req[s].age)
        <4>1. \A x \in DOMAIN req \ {s} : req'[x] = req[x]
          BY <2>1, <2>7, <3>2, RefuseFacts
        <4> QED
          BY <1>2, <2>2, <3>2, <4>1
      <3> QED
        BY <3>1, <3>2
    <2> QED
      BY <1>1, <1>2, <2>7, <2>8
  <1>3. LimiterInv /\ [Next]_vars =>
           [\A r \in DOMAIN req \cap DOMAIN req' :
               req[r].pc = "limit" /\ req'[r].pc = "refused" =>
                  LET b == Key(r) IN
                  \/ log[b][Window[b.policy] + req[r].age] >= MaxRequests[b.policy]
                  \/ b \notin DOMAIN entries' /\ Cardinality(DOMAIN entries') = MaxEntries]_vars
    BY <1>2
  <1> QED
    BY <1>3, LimiterStays, PTL DEF Spec, RefusalsAreEarned

=============================================================================
